----------------------------- MODULE RunChanges -----------------------------
(***************************************************************************)
(* "Changed since the last run" (src-tauri/src/changes.rs, and its saving  *)
(* in commands/patches.rs; web-rs/src/app/util/changes.rs): every run of a *)
(* query is compared with the last one of its scope, from the copy the     *)
(* process holds or from a file, and then takes its place.                 *)
(*                                                                         *)
(* A scope stands for the tenant, the facets, the families and the         *)
(* lookback.  A fleet is what NinjaOne has: rows of a device, a title and  *)
(* a status.  A title spells a patch, its need; one product has many.      *)
(***************************************************************************)
EXTENDS Integers, FiniteSets, Sequences, SequencesExt, FiniteSetsExt

CONSTANTS ChangeScopes,    \* scopes: with the statuses selected
          ChangeFleets,    \* what NinjaOne may have
          MaxSnapshots, MaxTotalBytes, MaxItems, ChangeListLimit,
          RunsOverlap,     \* may a run start before the last one's save has ended?
          MaxSavedRuns     \* bound: runs

ASSUME ChangesAssumption ==
    /\ MaxSnapshots \in Nat \ {0} /\ MaxTotalBytes \in Nat /\ MaxItems \in Nat
    /\ ChangeListLimit \in Nat /\ RunsOverlap \in BOOLEAN /\ MaxSavedRuns \in Nat
    /\ \A scope \in ChangeScopes :
         scope # {} /\ scope \subseteq {"MANUAL", "APPROVED", "DELAYED", "FAILED", "INSTALLED", "REJECTED"}
    /\ \A fleet \in ChangeFleets : IsFiniteSet(fleet)

VARIABLES runs,       \* the runs: scope, fleet, answer, and where each save is
          snapshots,  \* run-snapshots/, the newest first
          lastSaved   \* LAST_SAVED

changeVars == <<runs, snapshots, lastSaved>>

NotSaved == [scope |-> {}, at |-> 0, pending |-> {}, failed |-> {}]

ChangesInit ==
    /\ runs = <<>>
    /\ snapshots = <<>>
    /\ lastSaved = NotSaved

-----------------------------------------------------------------------------
(* What a run saw, and what has changed.                                   *)

\* patch_key: an OS patch is its KB, however it is spelled; a third party's its product;
\* what has neither is its title.
PatchKey(t) ==
    CASE t.os /\ t.kb # 0         -> <<t.os, "kb", t.kb>>
      [] ~t.os /\ t.product # 0   -> <<t.os, "product", t.product>>
      [] OTHER                    -> <<t.os, "name", t.name>>

\* category
IsFailed(status)  == status = "FAILED"
IsBacklog(status) == status \notin {"FAILED", "INSTALLED", "REJECTED"}

TracksPending(scope) == scope \intersect {"MANUAL", "APPROVED"} # {}
TracksFailed(scope) == "FAILED" \in scope

\* The identities of rows.
Identities(rows) == {<<r.device, PatchKey(r.title)>> : r \in rows}

\* RunSnapshot::build, from rows that carry every facet.
Snapshot(scope, fleet, at) ==
    LET rows == {r \in fleet : r.status \in scope}
    IN  [scope |-> scope, at |-> at, pending |-> Identities({r \in rows : IsBacklog(r.status)}),
         failed |-> Identities({r \in rows : IsFailed(r.status)})]

ItemsOf(s) == Cardinality(s.pending) + Cardinality(s.failed)
TooLarge(s) == ItemsOf(s) > MaxItems

\* diff: what is newly pending, resolved and newly failed since a baseline, if any.
Diff(previous, now) ==
    IF previous = NotSaved
    THEN [previousAt |-> 0, new |-> {}, resolved |-> {}, newlyFailed |-> {}]
    ELSE [previousAt |-> previous.at,
          new         |-> now.pending \ previous.pending,
          resolved    |-> previous.pending \ (now.pending \union now.failed),
          newlyFailed |-> now.failed \ previous.failed]

\* capped: the counts are exact, the lists are not.
Capped(changed) == Min({Cardinality(changed), ChangeListLimit})

IsCapped(changes) == \E c \in {changes.new, changes.resolved, changes.newlyFailed} :
                        Capped(c) < Cardinality(c)

\* RunChanges::notes, of the exports.
Notes(scope, changes, large) ==
    {n \in {"tooLarge"} : large}
    \union {IF TracksPending(scope) THEN "resolvedIsNoLongerPending" ELSE "pendingUnmeasured"}
    \union {n \in {"failedReadsAsResolved"} : ~TracksFailed(scope)}
    \union {n \in {"capped"} : IsCapped(changes)}

\* changes_notes, of the panel: with no baseline it says no more than that.
PanelNotes(scope, changes, large) ==
    {n \in {"tooLarge"} : large} \union
    IF changes.previousAt = 0 THEN {"noBaseline"}
    ELSE {IF TracksPending(scope) THEN "resolvedIsNoLongerPending" ELSE "pendingUnmeasured"}
         \union {n \in {"failedReadsAsResolved"} : ~TracksFailed(scope)}
         \union {n \in {"capped"} : IsCapped(changes)}

-----------------------------------------------------------------------------
(* Runs and their saves.                                                   *)

\* load: the copy held, if it is this scope's, or else the file.
ComparableRun(scope) ==
    LET ofScope == {i \in DOMAIN snapshots : snapshots[i].scope = scope}
    IN  IF lastSaved.scope = scope THEN lastSaved
        ELSE IF ofScope = {} THEN NotSaved ELSE snapshots[Min(ofScope)]

\* diff_against_previous_run, of a run whose result is then stored.
RunCompares(scope, fleet) ==
    /\ Len(runs) < MaxSavedRuns
    /\ RunsOverlap \/ \A i \in DOMAIN runs : runs[i].save \in {"done", "lost"}
    /\ LET now == Snapshot(scope, fleet, Len(runs) + 1)
       IN  runs' = Append(runs, [scope |-> scope, fleet |-> fleet, snapshot |-> now,
                                 changes |-> Diff(ComparableRun(scope), now), save |-> "due"])
    /\ UNCHANGED <<snapshots, lastSaved>>

\* The sum of the first n of some sizes.
SumTo(sizes, n) ==
    LET sum[m \in 0..n] == IF m = 0 THEN 0 ELSE sum[m - 1] + sizes[m]
    IN  sum[n]

\* prune: the newest are kept, the first whatever its size. (They are a beginning of the
\* files, which are counted from it.)
Pruned(files) ==
    LET sizes == [i \in DOMAIN files |-> ItemsOf(files[i])]
        kept == {i \in DOMAIN files : i = 1 \/ (i <= MaxSnapshots /\ SumTo(sizes, i) <= MaxTotalBytes)}
    IN  [i \in kept |-> files[i]]

\* The files beside that of a scope.
FilesBeside(scope) ==
    LET same == {i \in DOMAIN snapshots : snapshots[i].scope = scope}
    IN  IF same = {} THEN snapshots ELSE RemoveAt(snapshots, Min(same))

\* Mutant of SaveWrites: what was not written is remembered too.
SaveWritesOrNot(i) ==
    /\ runs[i].save = "due"
    /\ LET s == runs[i].snapshot
       IN  \/ /\ ~TooLarge(s)
              /\ snapshots' = Pruned(<<s>> \o FilesBeside(s.scope))
              /\ runs' = [runs EXCEPT ![i].save = "written"]
              /\ UNCHANGED lastSaved
           \/ /\ runs' = [runs EXCEPT ![i].save = "lost"]
              /\ lastSaved' = s
              /\ UNCHANGED snapshots

\* save_to, under SNAPSHOT_LOCK: written beside, renamed over, and pruned.  It may fail,
\* and a snapshot too large is not written.
SaveWrites(i) ==
    /\ runs[i].save = "due"
    /\ LET s == runs[i].snapshot
       IN  \/ /\ ~TooLarge(s)
              /\ snapshots' = Pruned(<<s>> \o FilesBeside(s.scope))
              /\ runs' = [runs EXCEPT ![i].save = "written"]
           \/ /\ runs' = [runs EXCEPT ![i].save = "lost"]
              /\ UNCHANGED snapshots
    /\ UNCHANGED lastSaved

\* save: the copy held stands in for the file.
SaveRemembers(i) ==
    /\ runs[i].save = "written"
    /\ lastSaved' = runs[i].snapshot
    /\ runs' = [runs EXCEPT ![i].save = "done"]
    /\ UNCHANGED snapshots

\* The application ends, in the middle of a save or not, and is started again.
AppRestarts ==
    /\ runs' = [i \in DOMAIN runs |-> [runs[i] EXCEPT !.save =
                  CASE @ = "due" -> "lost" [] @ = "written" -> "done" [] OTHER -> @]]
    /\ lastSaved' = NotSaved
    /\ runs' # runs \/ lastSaved' # lastSaved
    /\ UNCHANGED snapshots

ChangesNext ==
    \/ \E s \in ChangeScopes, f \in ChangeFleets : RunCompares(s, f)
    \/ \E i \in DOMAIN runs : SaveWrites(i) \/ SaveRemembers(i)
    \/ AppRestarts

ChangesSpec == ChangesInit /\ [][ChangesNext]_changeVars

-----------------------------------------------------------------------------
(* Properties.                                                             *)

ChangesTypeOK ==
    /\ \A i \in DOMAIN runs : runs[i].save \in {"due", "written", "done", "lost"}
    /\ Len(snapshots) <= MaxSnapshots
    /\ \A i, k \in DOMAIN snapshots : i # k => snapshots[i].scope # snapshots[k].scope

\* The patches that run i saw with one of some statuses.
SawAs(i, statuses) ==
    {<<r.device, r.title.need>> : r \in {x \in runs[i].fleet : x.status \in statuses \intersect runs[i].scope}}
Backlog == {"MANUAL", "APPROVED", "DELAYED"}

WasWritten(i) == runs[i].save \in {"written", "done"}

\* The last run before i of its scope whose snapshot was written, 0 for none.
LastSavedBefore(i) ==
    Max({0} \union {k \in 1..(i - 1) : runs[k].scope = runs[i].scope /\ WasWritten(k)})

\* What was written between it and i could have evicted it.
CouldBeEvicted(k, i) ==
    LET since == {m \in (k + 1)..(i - 1) : WasWritten(m)}
        sizes == [m \in 1..(i - 1) |-> IF WasWritten(m) THEN ItemsOf(runs[m].snapshot) ELSE 0]
    IN  \/ Cardinality({runs[m].scope : m \in since}) >= MaxSnapshots
        \/ since # {} /\ SumTo(sizes, i - 1) - SumTo(sizes, k - 1) > MaxTotalBytes

\* A run is compared with the last run of its scope that was saved: not with one that was
\* not, not with an older one, whatever saves failed, whatever was evicted and whether or
\* not the application was started again in between; with none only if there was none or
\* newer ones took its place.  What it then calls new, resolved and newly failed is what
\* moved between what the two saw, a new version of a product being no change; a patch
\* that it calls resolved and that has failed is called so under the caveat that says
\* that; and the panel gives the caveats that the exports give (changes.rs:96-117,
\* 474-517, 617-702; util/changes.rs:22-72).
ReportsWhatMoved ==
    \A i \in DOMAIN runs :
        LET c == runs[i].changes
            k == c.previousAt
            large == TooLarge(runs[i].snapshot)
            Counts(changed, need) == Cardinality(changed) = Cardinality(need)
        IN  /\ k = LastSavedBefore(i) \/ (k = 0 /\ CouldBeEvicted(LastSavedBefore(i), i))
            /\ k # 0 =>
                 /\ Counts(c.new, SawAs(i, Backlog) \ SawAs(k, Backlog))
                 /\ Counts(c.resolved, SawAs(k, Backlog) \ (SawAs(i, Backlog) \union SawAs(i, {"FAILED"})))
                 /\ Counts(c.newlyFailed, SawAs(i, {"FAILED"}) \ SawAs(k, {"FAILED"}))
                 /\ (\E r \in runs[i].fleet : r.status = "FAILED" /\ <<r.device, PatchKey(r.title)>> \in c.resolved)
                       => "failedReadsAsResolved" \in PanelNotes(runs[i].scope, c, large)
                 /\ PanelNotes(runs[i].scope, c, large) = Notes(runs[i].scope, c, large)
=============================================================================
