----------------------------- MODULE SlicedFeed -----------------------------
(***************************************************************************)
(* The fleet's software patches read in slices of locations, in parallel,  *)
(* each by a cursor scan of its own (src-tauri/src/api/patches.rs). A scan *)
(* returns all that its filter matches, at one time, or fails: see Paging. *)
(*                                                                         *)
(* A device has one row, and its location decides the slice that returns   *)
(* it. Devices are moved while the slices are read: by the environment.    *)
(***************************************************************************)
EXTENDS Integers, Sequences, FiniteSets

CONSTANTS Device,
          Location,            \* ids
          Slices,              \* SOFTWARE_SLICES
          MaxSliceLocations,   \* MAX_SLICE_LOCATIONS
          MaxMoves             \* the devices moved while the feed is read

ASSUME SliceAssumption ==
    /\ IsFiniteSet(Device) /\ IsFiniteSet(Location)
    /\ Location \subseteq Nat \ {0} /\ Slices \in Nat \ {0}
    /\ MaxSliceLocations \in Nat /\ MaxMoves \in Nat

VARIABLES location, moves, feed

feedVars == <<location, moves, feed>>

Nowhere == 0
Unread == -1
Whole == 0
NoFeed == [pc |-> "idle", slices |-> <<>>, sizes |-> <<>>, read |-> {}, rows |-> <<>>,
           whole |-> Unread]
\* The devices a scan of the locations ids returns.
SliceMatches(ids) == {d \in Device : location[d] \in ids}
Everywhere == Location \union {Nowhere}

FeedTypeOK ==
    /\ location \in [Device -> Everywhere]
    /\ moves \in 0..MaxMoves
    /\ feed.pc \in {"idle", "sizing", "reading", "whole", "ok", "error"}
    /\ feed.slices \in Seq(SUBSET Location)
    /\ feed.sizes \in Seq(Unread..Cardinality(Device))
    /\ feed.read \subseteq DOMAIN feed.rows /\ feed.rows \in Seq(SUBSET Device)
    /\ feed.whole \in Unread..Cardinality(Device)

FeedInit ==
    /\ location \in [Device -> Everywhere]
    /\ moves = 0
    /\ feed = NoFeed

-----------------------------------------------------------------------------
(* plan_location_slices.                                                   *)

Population(l) == Cardinality(SliceMatches({l}))
Weight(ids) == Cardinality(SliceMatches(ids))

Occupied == {l \in Location : Population(l) > 0}

\* The largest of some locations, the first of those.
Largest(ls) == CHOOSE l \in ls : \A k \in ls : \/ Population(l) > Population(k)
                                               \/ Population(l) = Population(k) /\ l <= k
\* The lightest slice, the first of those.
Lightest(slices) == CHOOSE i \in DOMAIN slices : \A j \in DOMAIN slices :
                        \/ Weight(slices[i]) < Weight(slices[j])
                        \/ Weight(slices[i]) = Weight(slices[j]) /\ i <= j

Named(slices) == UNION {slices[i] : i \in DOMAIN slices}

\* The largest location that is in no slice goes to the lightest slice so far.
WithNext(slices) ==
    [slices EXCEPT ![Lightest(slices)] = @ \union {Largest(Occupied \ Named(slices))}]

\* The slices of the occupied locations.
Spread ==
    LET used == Cardinality(Occupied)
        spread[n \in 0..used] ==
            IF n = 0 THEN [i \in 1..(IF used < Slices THEN used ELSE Slices) |-> {}]
            ELSE WithNext(spread[n - 1])
    IN  spread[used]

\* No slices when a device has no location, there is one location only, or a slice
\* would name too many.
Planned ==
    IF \/ \E d \in Device : location[d] = Nowhere
       \/ Cardinality(Occupied) < 2
       \/ \E i \in DOMAIN Spread : Cardinality(Spread[i]) > MaxSliceLocations
    THEN <<>> ELSE Spread

-----------------------------------------------------------------------------
(* fleet_software_patches_sliced.                                          *)

BeginsFeed ==
    /\ feed.pc \in {"idle", "ok", "error"}
    /\ feed' = IF Planned = <<>> THEN [NoFeed EXCEPT !.pc = "whole"]
               ELSE [pc |-> "sizing", slices |-> Planned, whole |-> Unread,
                     sizes |-> [i \in DOMAIN Planned |-> Unread],
                     read |-> {}, rows |-> [i \in DOMAIN Planned |-> {}]]
    /\ moves' = 0
    /\ UNCHANGED location

\* The size of the whole feed, or of a slice, arrives.
SizeArrives(i) ==
    /\ feed.pc = "sizing"
    /\ \/ i = Whole /\ feed.whole = Unread
          /\ feed' = [feed EXCEPT !.whole = Cardinality(Device)]
       \/ i \in DOMAIN feed.sizes /\ feed.sizes[i] = Unread
          /\ feed' = [feed EXCEPT !.sizes[i] = Weight(feed.slices[i])]
    /\ UNCHANGED <<location, moves>>

\* A size that cannot be had, or is not announced: the feed is read whole.
SizeFails ==
    /\ feed.pc = "sizing"
    /\ feed' = [NoFeed EXCEPT !.pc = "whole"]
    /\ UNCHANGED <<location, moves>>

Total(s) ==
    LET sum[n \in 0..Len(s)] == IF n = 0 THEN 0 ELSE sum[n - 1] + s[n]
    IN  sum[Len(s)]

\* The slices are read if they add up to the feed.
SizesAreIn ==
    /\ feed.pc = "sizing" /\ feed.whole # Unread /\ \A i \in DOMAIN feed.sizes : feed.sizes[i] # Unread
    /\ feed' = IF Total(feed.sizes) = feed.whole THEN [feed EXCEPT !.pc = "reading", !.sizes = <<>>]
               ELSE [NoFeed EXCEPT !.pc = "whole"]
    /\ UNCHANGED <<location, moves>>

SliceArrives(i) ==
    /\ feed.pc = "reading" /\ i \in (DOMAIN feed.rows) \ feed.read
    /\ feed' = [feed EXCEPT !.read = @ \union {i}, !.rows[i] = SliceMatches(feed.slices[i])]
    /\ UNCHANGED <<location, moves>>

\* The first error ends the others.
SliceFails ==
    /\ feed.pc = "reading"
    /\ feed' = [NoFeed EXCEPT !.pc = "error"]
    /\ UNCHANGED <<location, moves>>

AllRead == feed.pc = "reading" /\ feed.read = DOMAIN feed.rows
Counts == [i \in DOMAIN feed.rows |-> Cardinality(feed.rows[i])]

\* Mutant of SlicesAreIn: what the slices returned is not counted again.
SlicesAreInUncounted ==
    /\ AllRead
    /\ feed' = [feed EXCEPT !.pc = "ok", !.slices = <<>>, !.read = {}, !.whole = Unread]
    /\ UNCHANGED <<location, moves>>

\* Together they are the feed, if they are as many as were announced.
SlicesAreIn ==
    /\ AllRead
    /\ feed' = IF Total(Counts) = feed.whole
               THEN [feed EXCEPT !.pc = "ok", !.slices = <<>>, !.read = {}, !.whole = Unread]
               ELSE [NoFeed EXCEPT !.pc = "whole"]
    /\ UNCHANGED <<location, moves>>

\* fleet_software_patches, of all locations.
WholeArrives ==
    /\ feed.pc = "whole"
    /\ \/ feed' = [NoFeed EXCEPT !.pc = "ok", !.rows = <<Device>>]
       \/ feed' = [NoFeed EXCEPT !.pc = "error"]
    /\ UNCHANGED <<location, moves>>

Moves(d) ==
    /\ feed.pc \in {"sizing", "reading"} /\ moves < MaxMoves
    /\ \E l \in Everywhere \ {location[d]} : location' = [location EXCEPT ![d] = l]
    /\ moves' = moves + 1
    /\ UNCHANGED feed

FeedNext ==
    \/ BeginsFeed
    \/ \E i \in 0..Slices : SizeArrives(i) \/ SliceArrives(i)
    \/ SizeFails \/ SizesAreIn \/ SliceFails \/ SlicesAreIn \/ WholeArrives
    \/ \E d \in Device : Moves(d)

FeedSpec == FeedInit /\ [][FeedNext]_feedVars

-----------------------------------------------------------------------------

\* Slicing is not seen in the result: it has every row of the fleet, once, wherever
\* its devices are, also when one is moved between two locations, into or out of any,
\* while sizes and slices are read one after the other. (Two that swap cancel out.)
EveryRowOnce ==
    feed.pc = "ok" =>
        \A d \in Device : Cardinality({i \in DOMAIN feed.rows : d \in feed.rows[i]}) = 1
=============================================================================
