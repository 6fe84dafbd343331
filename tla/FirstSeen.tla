------------------------------ MODULE FirstSeen ------------------------------
(***************************************************************************)
(* The record of when each pending patch was first seen, one file per      *)
(* tenant and one tenant's in memory (src-tauri/src/first_seen.rs), and    *)
(* the queries that read and extend it (commands/patches.rs).              *)
(*                                                                         *)
(* A patch is one pending on one device, and stands for the device too. A  *)
(* run is a query: it takes the record for its tenant, fetches, and, if    *)
(* its result is the one stored, merges what it observed. The fleet is the *)
(* environment.                                                            *)
(***************************************************************************)
EXTENDS Naturals, FiniteSets

CONSTANTS Run,              \* the queries
          LedgerTenant,
          Family,           \* Os, Software
          Patch,            \* ids: a tie between dates goes to the smaller
          MaxEntries,       \* MAX_ENTRIES_PER_FAMILY
          MaxNow,           \* bound: the clock
          SwitchesMidRun    \* may a query begin while one for another tenant is open?

ASSUME LedgerAssumption ==
    /\ Patch \subseteq Nat /\ IsFiniteSet(Patch) /\ MaxEntries \in Nat \ {0} /\ MaxNow \in Nat \ {0}
    /\ "none" \notin LedgerTenant /\ "none" \notin Run
    /\ SwitchesMidRun \in BOOLEAN

VARIABLES slot,      \* SLOT
          ledger,    \* the files
          observing, committer, newest,
          now, appeared,   \* when each patch became pending, 0 if it is not
          owed       \* for each patch pending since: its first merged observation

ledgerVars == <<slot, ledger, observing, committer, newest, now, appeared, owed>>

NoSection == [since |-> 0, mergedAt |-> 0, first |-> [p \in Patch |-> 0]]
NoLedger == [f \in Family |-> NoSection]
EmptySlot == [tenant |-> "none", ledger |-> NoLedger]
Recorded(section) == {p \in Patch : section.first[p] # 0}

Section == [since : 0..MaxNow, mergedAt : 0..MaxNow, first : [Patch -> 0..MaxNow]]
NoRun == [pc |-> "idle", tenant |-> "none", held |-> NoLedger, at |-> 0,
          feed |-> [f \in Family |-> {}], asked |-> {}, offline |-> {}]

LedgerTypeOK ==
    /\ slot \in [tenant : LedgerTenant \union {"none"}, ledger : [Family -> Section]]
    /\ ledger \in [LedgerTenant -> [Family -> Section]]
    /\ observing \in [Run -> [pc : {"idle", "loading", "fetching", "stored", "saving", "publishing"},
                        tenant : LedgerTenant \union {"none"}, held : [Family -> Section],
                        at : 0..MaxNow, feed : [Family -> SUBSET Patch],
                        asked : SUBSET Family, offline : SUBSET Patch]]
    /\ committer \in Run \union {"none"} /\ newest \in Run \union {"none"}
    /\ now \in 1..MaxNow
    /\ appeared \in [LedgerTenant -> [Family -> [Patch -> 0..MaxNow]]]
    /\ owed \in [LedgerTenant -> [Family -> [Patch -> 0..MaxNow]]]

LedgerInit ==
    /\ slot = EmptySlot
    /\ ledger = [t \in LedgerTenant |-> NoLedger]
    /\ observing = [r \in Run |-> NoRun]
    /\ committer = "none" /\ newest = "none"
    /\ now = 1
    /\ appeared \in [LedgerTenant -> [Family -> [Patch -> {0, 1}]]]
    /\ owed = [t \in LedgerTenant |-> [f \in Family |-> [p \in Patch |-> 0]]]

\* held, or else the file, or an empty record.
Latest(t) == IF slot.tenant = t THEN slot.ledger ELSE ledger[t]

Pending(t, f) == {p \in Patch : appeared[t][f][p] # 0}

Open(t) == {r \in Run : observing[r].pc # "idle" /\ observing[r].tenant = t}

-----------------------------------------------------------------------------
(* A query.                                                                *)

\* base: the record in memory is the tenant's, or its file is read.
Looks(r, t) ==
    /\ observing[r].pc = "idle"
    /\ SwitchesMidRun \/ \A u \in LedgerTenant \ {t} : Open(u) = {}
    /\ observing' = [observing EXCEPT ![r] =
         IF slot.tenant = t THEN [NoRun EXCEPT !.pc = "fetching", !.tenant = t]
         ELSE [NoRun EXCEPT !.pc = "loading", !.tenant = t, !.held = ledger[t]]]
    /\ newest' = r
    /\ UNCHANGED <<slot, ledger, committer, now, appeared, owed>>

\* What was read goes into an empty slot, or over another tenant's: a commit that
\* landed meanwhile is newer.
Keeps(r) ==
    /\ observing[r].pc = "loading"
    /\ slot' = IF slot.tenant = observing[r].tenant THEN slot
               ELSE [tenant |-> observing[r].tenant, ledger |-> observing[r].held]
    /\ observing' = [observing EXCEPT ![r].pc = "fetching", ![r].held = NoLedger]
    /\ UNCHANGED <<ledger, committer, newest, now, appeared, owed>>

\* The fetch of some families, and the result: stored if no later query has begun.
\* offline are the devices that are, and whose patches are missing from the feed.
Fetches(r) ==
    /\ observing[r].pc = "fetching"
    /\ \E asked \in (SUBSET Family) \ {{}}, offline \in SUBSET Patch :
         observing' = [observing EXCEPT ![r] =
           IF newest # r THEN NoRun
           ELSE [@ EXCEPT !.pc = "stored", !.at = now, !.asked = asked, !.offline = offline,
                          !.feed = [f \in Family |-> IF f \in asked
                                      THEN Pending(observing[r].tenant, f) \ offline ELSE {}]]]
    /\ UNCHANGED <<slot, ledger, committer, newest, now, appeared, owed>>

\* The MAX_ENTRIES_PER_FAMILY oldest.
CappedLedger(first) ==
    LET Before(p) == {q \in Patch : /\ first[q] # 0
                                    /\ \/ first[q] < first[p]
                                       \/ first[q] = first[p] /\ q < p}
    IN  [p \in Patch |-> IF Cardinality(Before(p)) < MaxEntries THEN first[p] ELSE 0]

\* An observation is merged unless it is older than what was, or it is an empty feed
\* for a tenant that had patches: more likely a failure than a fleet with none.
Merges(prev, feed, at) ==
    /\ prev.mergedAt < at
    /\ feed = {} => Recorded(prev) = {}

\* Mutant of Rebuilt: offline devices' entries are dropped with the rest.
RebuiltOnline(prev, feed, at, offline) ==
    [since    |-> IF prev.mergedAt = 0 THEN at ELSE prev.since,
     mergedAt |-> at,
     first    |-> CappedLedger([p \in Patch |-> IF p \notin feed THEN 0
                                          ELSE IF prev.first[p] = 0 THEN at ELSE prev.first[p]])]

\* rebuild: a patch keeps its date, a new one gets the observation's, one that is no
\* longer pending is forgotten, unless its device was offline.
Rebuilt(prev, feed, at, offline) ==
    [since    |-> IF prev.mergedAt = 0 THEN at ELSE prev.since,
     mergedAt |-> at,
     first    |-> CappedLedger([p \in Patch |->
                    CASE p \in feed /\ prev.first[p] = 0 -> at
                      [] p \notin feed \union offline    -> 0
                      [] OTHER                           -> prev.first[p]])]

\* The record after a run's observation.
MergedInto(r, latest) ==
    [f \in Family |->
       IF f \in observing[r].asked /\ Merges(latest[f], observing[r].feed[f], observing[r].at)
       THEN Rebuilt(latest[f], observing[r].feed[f], observing[r].at, observing[r].offline)
       ELSE latest[f]]

\* membership_changed, of some family: it is new, or something was added to it, which the
\* cap may have dropped again, or it has another length.
Changes(r, latest, next) ==
    \E f \in Family :
        /\ next[f] # latest[f]
        /\ \/ latest[f].mergedAt = 0
           \/ ~(observing[r].feed[f] \subseteq Recorded(latest[f]))
           \/ Cardinality(Recorded(next[f])) # Cardinality(Recorded(latest[f]))

\* commit: under COMMIT_LOCK, the observation is merged into the latest record. One
\* that changes no entry is not written.
Commits(r) ==
    /\ observing[r].pc = "stored" /\ committer = "none"
    /\ LET latest == Latest(observing[r].tenant)
           next   == MergedInto(r, latest)
       IN  IF next = latest
           THEN observing' = [observing EXCEPT ![r] = NoRun] /\ committer' = "none"
           ELSE /\ observing' = [observing EXCEPT ![r].held = next,
                             ![r].pc = IF Changes(r, latest, next) THEN "saving" ELSE "publishing"]
                /\ committer' = r
    /\ UNCHANGED <<slot, ledger, newest, now, appeared, owed>>

\* Mutant of Saves: what could not be written is kept in memory all the same.
SavesOrNot(r) ==
    /\ observing[r].pc = "saving"
    /\ \/ ledger' = [ledger EXCEPT ![observing[r].tenant] = observing[r].held]
       \/ UNCHANGED ledger
    /\ observing' = [observing EXCEPT ![r].pc = "publishing"]
    /\ UNCHANGED <<slot, committer, newest, now, appeared, owed>>

\* save_to: written beside the file and renamed over it, or not at all; then the
\* commit ends and memory keeps what it had.
Saves(r) ==
    /\ observing[r].pc = "saving"
    /\ \/ /\ ledger' = [ledger EXCEPT ![observing[r].tenant] = observing[r].held]
          /\ observing' = [observing EXCEPT ![r].pc = "publishing"]
          /\ UNCHANGED committer
       \/ /\ observing' = [observing EXCEPT ![r] = NoRun] /\ committer' = "none"
          /\ UNCHANGED ledger
    /\ UNCHANGED <<slot, newest, now, appeared, owed>>

\* What is owed after feed has been merged into prev: a date for what it showed for the
\* first time; none for what the cap has dropped for patches seen no later.
Owed(was, since, prev, section, feed, at) ==
    LET Due(p) == IF /\ was[p] = 0 /\ p \in feed
                     /\ prev.mergedAt < at /\ section.mergedAt = at
                     /\ since[p] \in 1..at
                  THEN at ELSE was[p]
    IN  [p \in Patch |->
           IF Cardinality({q \in Patch \ {p} : section.first[q] \in 1..Due(p)}) = MaxEntries
           THEN 0 ELSE Due(p)]

\* The slot takes the merged record.
Publishes(r) ==
    /\ observing[r].pc = "publishing"
    /\ slot' = [tenant |-> observing[r].tenant, ledger |-> observing[r].held]
    /\ observing' = [observing EXCEPT ![r] = NoRun]
    /\ committer' = "none"
    /\ owed' = [owed EXCEPT ![observing[r].tenant] = [f \in Family |->
                   Owed(@[f], appeared[observing[r].tenant][f], Latest(observing[r].tenant)[f],
                        observing[r].held[f], observing[r].feed[f], observing[r].at)]]
    /\ UNCHANGED <<ledger, newest, now, appeared>>

-----------------------------------------------------------------------------
(* What happens meanwhile.                                                 *)

\* Patches are installed, others become pending.
FleetChanges ==
    /\ now < MaxNow /\ now' = now + 1
    /\ \E t \in LedgerTenant, f \in Family, left \in SUBSET Patch :
         /\ appeared' = [appeared EXCEPT ![t][f] = [p \in Patch |->
              IF p \notin left THEN 0 ELSE IF @[p] = 0 THEN now + 1 ELSE @[p]]]
         /\ owed' = [owed EXCEPT ![t][f] = [p \in Patch |-> IF p \in left THEN @[p] ELSE 0]]
    /\ UNCHANGED <<slot, ledger, observing, committer, newest>>

Restarts ==
    /\ slot' = EmptySlot
    /\ observing' = [r \in Run |-> NoRun]
    /\ committer' = "none" /\ newest' = "none"
    /\ UNCHANGED <<ledger, now, appeared, owed>>

\* prune drops a file of a tenant long unused; a damaged file reads as none.
LosesFile(t) ==
    /\ slot.tenant # t /\ Open(t) = {} /\ ledger[t] # NoLedger
    /\ ledger' = [ledger EXCEPT ![t] = NoLedger]
    /\ owed' = [owed EXCEPT ![t] = [f \in Family |-> [p \in Patch |-> 0]]]
    /\ UNCHANGED <<slot, observing, committer, newest, now, appeared>>

Commit(r) == Commits(r) \/ Saves(r) \/ Publishes(r)

LedgerNext ==
    \/ \E r \in Run : \/ \E t \in LedgerTenant : Looks(r, t)
                      \/ Keeps(r) \/ Fetches(r) \/ Commit(r)
    \/ FleetChanges
    \/ Restarts
    \/ \E t \in LedgerTenant : LosesFile(t)

LedgerSpec == LedgerInit /\ [][LedgerNext]_ledgerVars

-----------------------------------------------------------------------------
(* Properties.                                                             *)

\* "Memory keeps mirroring disk" (first_seen.rs:302): outside of a commit, the record
\* in memory has the entries and the start that the tenant's file has; only the time
\* of its last merge may be ahead. So a restart loses no date.
MemoryMirrorsDisk ==
    committer = "none" /\ slot.tenant # "none" =>
        \A f \in Family :
            LET memory == slot.ledger[f]
                disk   == ledger[slot.tenant][f]
            IN  /\ memory.first = disk.first
                /\ memory.since = disk.since
                /\ memory.mergedAt >= disk.mergedAt

\* A patch that has been pending since it was first merged keeps that date, or an
\* earlier one, through later, late and empty observations, offline devices, failed
\* saves and restarts; unless the cap has dropped it for others seen no later.
DatesStand ==
    committer = "none" =>
        \A t \in LedgerTenant, f \in Family, p \in Patch :
            owed[t][f][p] # 0 => Latest(t)[f].first[p] \in 1..owed[t][f][p]
=============================================================================
