----------------------------- MODULE TenantCache -----------------------------
(***************************************************************************)
(* The protocol of src-tauri/src/state/cache.rs: one tenant-stamped,       *)
(* TTL'd, epoch-gated, single-flight slot.  The lookups, the device        *)
(* inventory and both current-patch families are instances of it.          *)
(*                                                                         *)
(* A caller is one get_or_fetch call; its steps are the stretches of code  *)
(* between the points where another thread can run: the epoch load, the    *)
(* probe, the wait for the gate, the probe under the gate, the fetch, and  *)
(* the store under the slot lock.  An invalidator is one invalidate call,  *)
(* whose two steps are the bump and the take.                              *)
(*                                                                         *)
(* Time is counted in units of DEGRADED_TTL (60 s), so CURRENT_PATCHES_TTL *)
(* is 2 and FORCE_MIN_INTERVAL is 1.  NinjaOne's data is a version number. *)
(***************************************************************************)
EXTENDS Integers

CONSTANTS
    Caller,        \* get_or_fetch calls that can be in flight together
    Invalidator,   \* invalidate calls that can be in flight together
    Tenant,        \* tenant keys a caller can pass
    TTLs,          \* the TTLs callers pass (normal, forced)
    DegradedTTL,   \* the cap on a degraded entry
    NoCaller,      \* holder of a free gate
    MaxVersion,    \* bound: changes of NinjaOne's data
    MaxEpoch,      \* bound: invalidations
    MaxAge         \* bound: age after which every entry is past every TTL

ASSUME TTLAssumption == TTLs \subseteq Nat /\ DegradedTTL \in Nat
ASSUME GateAssumption == NoCaller \notin Caller
ASSUME TenantAssumption == "none" \notin Tenant
ASSUME BoundAssumption == MaxVersion \in Nat /\ MaxEpoch \in Nat /\ MaxAge \in Nat

VARIABLES
    \* the cache
    slot,      \* NoEntry, or the stored CacheEntry
    epoch,     \* TenantCache::epoch
    gate,      \* TenantCache::fetch_lock: the caller holding it, or NoCaller
    \* the calls
    pc,        \* where each caller is
    call,      \* its arguments and locals; NoCall between calls
    answer,    \* what its last call returned; NoAnswer while one is running
    ipc,       \* where each invalidator is
    \* NinjaOne, and what the properties remember
    truth,     \* the version NinjaOne would report now
    seen,      \* the version current when each running invalidator was called
    floor      \* the newest version a returned invalidation was called for

cacheVars == <<slot, epoch, gate>>
callVars == <<pc, call, answer>>
worldVars == <<ipc, truth, seen, floor>>
vars == <<cacheVars, callVars, worldVars>>

NoEntry == [tenant |-> "none", ver |-> 0, age |-> 0, capped |-> FALSE]
NoAnswer == [tenant |-> "none", ver |-> 0]

(* key and ttl are the arguments, sampled the epoch read on entry, got and  *)
(* partial what the fetch returned; due is the floor at the call.           *)
NoCall == [key |-> "none", ttl |-> 0, sampled |-> 0, due |-> 0,
           got |-> 0, partial |-> FALSE]

Init ==
    /\ slot = NoEntry
    /\ epoch = 0
    /\ gate = NoCaller
    /\ pc = [c \in Caller |-> "idle"]
    /\ call = [c \in Caller |-> NoCall]
    /\ answer = [c \in Caller |-> NoAnswer]
    /\ ipc = [i \in Invalidator |-> "idle"]
    /\ truth = 0
    /\ seen = [i \in Invalidator |-> 0]
    /\ floor = 0

-----------------------------------------------------------------------------
(* get_or_fetch *)

(* Mutant of Fresh: the entry's tenant is not compared.                     *)
FreshForAnyone(c) ==
    /\ slot # NoEntry
    /\ slot.age < call[c].ttl
    /\ slot.capped => slot.age < DegradedTTL

(* TenantCache::peek: the stored entry is this tenant's, and younger than   *)
(* both the caller's TTL and the entry's own cap.                           *)
Fresh(c) ==
    /\ slot.tenant = call[c].key
    /\ slot.age < call[c].ttl
    /\ slot.capped => slot.age < DegradedTTL

Goto(c, place) ==
    /\ pc' = [pc EXCEPT ![c] = place]
    /\ UNCHANGED <<answer, worldVars>>

Return(c, result) ==
    /\ pc' = [pc EXCEPT ![c] = "idle"]
    /\ call' = [call EXCEPT ![c] = NoCall]
    /\ answer' = [answer EXCEPT ![c] = result]
    /\ UNCHANGED worldVars

(* The caller's arguments arrive and the epoch is read, before the probe.   *)
Enter(c) ==
    /\ pc[c] = "idle"
    /\ pc' = [pc EXCEPT ![c] = "probing"]
    /\ \E t \in Tenant, n \in TTLs :
          call' = [call EXCEPT ![c] = [key |-> t, ttl |-> n, sampled |-> epoch,
                                       due |-> floor, got |-> 0, partial |-> FALSE]]
    /\ answer' = [answer EXCEPT ![c] = NoAnswer]
    /\ UNCHANGED <<cacheVars, worldVars>>

Cached == [tenant |-> slot.tenant, ver |-> slot.ver]

ProbeHit(c) ==
    /\ pc[c] = "probing"
    /\ Fresh(c)
    /\ Return(c, Cached)
    /\ UNCHANGED cacheVars

ProbeMiss(c) ==
    /\ pc[c] = "probing"
    /\ ~Fresh(c)
    /\ Goto(c, "waiting")
    /\ UNCHANGED <<cacheVars, call>>

TakeGate(c) ==
    /\ pc[c] = "waiting"
    /\ gate = NoCaller
    /\ gate' = c
    /\ Goto(c, "gated")
    /\ UNCHANGED <<slot, epoch, call>>

(* The winner of the race has usually stored by now.                        *)
GatedHit(c) ==
    /\ pc[c] = "gated"
    /\ Fresh(c)
    /\ Return(c, Cached)
    /\ gate' = NoCaller
    /\ UNCHANGED <<slot, epoch>>

GatedMiss(c) ==
    /\ pc[c] = "gated"
    /\ ~Fresh(c)
    /\ Goto(c, "fetching")
    /\ UNCHANGED <<cacheVars, call>>

(* NinjaOne reads its data for the fetch, at some instant before replying.  *)
(* An optional sub-feed may have failed, which makes the fetch degraded.    *)
Read(c) ==
    /\ pc[c] = "fetching"
    /\ \E b \in BOOLEAN :
          call' = [call EXCEPT ![c] = [@ EXCEPT !.got = truth, !.partial = b]]
    /\ Goto(c, "fetched")
    /\ UNCHANGED cacheVars

(* Mutant of FetchError: the error path leaves the gate locked.             *)
FetchErrorLocked(c) ==
    /\ pc[c] = "fetching"
    /\ Return(c, NoAnswer)
    /\ UNCHANGED cacheVars

(* `fetch().await?`: the error returns, nothing is stored, the gate falls.  *)
FetchError(c) ==
    /\ pc[c] = "fetching"
    /\ Return(c, NoAnswer)
    /\ gate' = NoCaller
    /\ UNCHANGED <<slot, epoch>>

(* Mutant of Store: the epoch sampled on entry is not compared.             *)
StoreAlways(c) ==
    /\ pc[c] = "fetched"
    /\ slot' = [tenant |-> call[c].key, ver |-> call[c].got,
                age |-> 0, capped |-> call[c].partial]
    /\ Return(c, [tenant |-> call[c].key, ver |-> call[c].got])
    /\ gate' = NoCaller
    /\ UNCHANGED epoch

(* Under the slot lock: store only if no invalidation began since entry.    *)
(* The fetched value is returned either way.                                *)
Store(c) ==
    /\ pc[c] = "fetched"
    /\ slot' = IF call[c].sampled = epoch
               THEN [tenant |-> call[c].key, ver |-> call[c].got,
                     age |-> 0, capped |-> call[c].partial]
               ELSE slot
    /\ Return(c, [tenant |-> call[c].key, ver |-> call[c].got])
    /\ gate' = NoCaller
    /\ UNCHANGED epoch

-----------------------------------------------------------------------------
(* invalidate: bump, then take *)

Bump(i) ==
    /\ ipc[i] = "idle"
    /\ epoch < MaxEpoch
    /\ epoch' = epoch + 1
    /\ ipc' = [ipc EXCEPT ![i] = "bumped"]
    /\ seen' = [seen EXCEPT ![i] = truth]
    /\ UNCHANGED <<slot, gate, callVars, truth, floor>>

Take(i) ==
    /\ ipc[i] = "bumped"
    /\ slot' = NoEntry
    /\ ipc' = [ipc EXCEPT ![i] = "idle"]
    /\ floor' = IF seen[i] > floor THEN seen[i] ELSE floor
    /\ seen' = [seen EXCEPT ![i] = 0]
    /\ UNCHANGED <<epoch, gate, callVars, truth>>

-----------------------------------------------------------------------------
(* the world *)

Change ==
    /\ truth < MaxVersion
    /\ truth' = truth + 1
    /\ UNCHANGED <<cacheVars, callVars, ipc, seen, floor>>

Tick ==
    /\ slot # NoEntry
    /\ slot.age < MaxAge
    /\ slot' = [slot EXCEPT !.age = @ + 1]
    /\ UNCHANGED <<epoch, gate, callVars, worldVars>>

CallerStep(c) ==
    \/ ProbeHit(c)
    \/ ProbeMiss(c)
    \/ TakeGate(c)
    \/ GatedHit(c)
    \/ GatedMiss(c)
    \/ Read(c)
    \/ FetchError(c)
    \/ Store(c)

Next ==
    \/ \E c \in Caller : Enter(c) \/ CallerStep(c)
    \/ \E i \in Invalidator : Bump(i) \/ Take(i)
    \/ Change
    \/ Tick

(* A call that can move does: reqwest's timeouts end every fetch, and       *)
(* tokio's Mutex hands the gate out in FIFO order, so no waiter is passed   *)
(* over for ever (strong fairness on taking it).                            *)
Fairness ==
    \A c \in Caller :
        /\ WF_vars(CallerStep(c))
        /\ SF_vars(TakeGate(c))

Spec == Init /\ [][Next]_vars
FairSpec == Spec /\ Fairness

-----------------------------------------------------------------------------
Places == {"idle", "probing", "waiting", "gated", "fetching", "fetched"}
Holding == {"gated", "fetching", "fetched"}

Named == Tenant \union {"none"}
Entry == [tenant : Named, ver : Nat, age : Nat, capped : BOOLEAN]
Call == [key : Named, ttl : Nat, sampled : Nat, due : Nat,
         got : Nat, partial : BOOLEAN]
TenantAnswer == [tenant : Named, ver : Nat]

(* Every variable of the cache, its callers and its invalidators has its    *)
(* type, and a call names a tenant exactly while it runs.                   *)
TypeOK ==
    /\ slot \in Entry
    /\ epoch \in Nat
    /\ gate \in Caller \union {NoCaller}
    /\ pc \in [Caller -> Places]
    /\ call \in [Caller -> Call]
    /\ \A c \in Caller : IF pc[c] = "idle" THEN call[c] = NoCall
                                             ELSE call[c].key \in Tenant
    /\ answer \in [Caller -> TenantAnswer]
    /\ ipc \in [Invalidator -> {"idle", "bumped"}]
    /\ truth \in Nat
    /\ seen \in [Invalidator -> Nat]
    /\ floor \in Nat

(* Single flight (cache.rs steps 3 and 4): whoever is between the gate and  *)
(* its return holds the gate, so two callers never page the same feed at    *)
(* once, and a gate nobody uses is free.                                    *)
SingleFlight == \A c \in Caller : pc[c] \in Holding <=> gate = c

(* Both orders of a store racing an invalidation lose (cache.rs 213-223):   *)
(* once an invalidation has returned, the slot never again holds data older *)
(* than the data it was called for, however long ago the fetch started.     *)
NoStaleStore == slot # NoEntry => slot.ver >= floor

(* The promise to a caller: it is answered for the tenant it asked about,   *)
(* with data at least as new as the last invalidation that had returned     *)
(* when it called.  The floor is the one at the call: data invalidated      *)
(* while the call was in flight may still be returned to it.                *)
ReadsYourSettles ==
    [][\A c \in Caller :
          answer'[c] \notin {answer[c], NoAnswer} =>
              /\ answer'[c].tenant = call[c].key
              /\ answer'[c].ver >= call[c].due]_vars

(* What a caller of the cache sees of it.                                   *)
Asked == [c \in Caller |-> [tenant |-> call[c].key, due |-> call[c].due]]

Promise == INSTANCE FreshRead WITH asked <- Asked

(* The cache implements FreshRead: callers are answered for their tenant    *)
(* with nothing older than the last returned invalidation, and every call   *)
(* returns, however the waits at the gate and the invalidations fall.       *)
KeepsPromise == Promise!Spec

-----------------------------------------------------------------------------
(* Why NoStaleStore holds: the strengthening that is inductive. *)

(* No floor, sample or stored version is ahead of what it was taken from.   *)
Ordered ==
    /\ floor <= truth
    /\ slot.ver <= truth
    /\ \A i \in Invalidator : seen[i] <= truth
    /\ \A c \in Caller : call[c].due <= floor /\ call[c].sampled <= epoch

(* A fetch whose epoch still stands read NinjaOne after every invalidation  *)
(* that has begun, finished or not.                                         *)
FetchedIsFresh ==
    \A c \in Caller : pc[c] = "fetched" =>
        /\ call[c].due <= call[c].got
        /\ call[c].got <= truth
        /\ call[c].sampled = epoch =>
              /\ floor <= call[c].got
              /\ \A i \in Invalidator : seen[i] <= call[c].got

IInv == TypeOK /\ SingleFlight /\ Ordered /\ FetchedIsFresh /\ NoStaleStore
=============================================================================
