----------------------------- MODULE ResultView -----------------------------
(***************************************************************************)
(* The Patches table over the cached result: pages, sorts, groups and the  *)
(* device dialog (web-rs/src/app/state/view.rs, util/pager.rs), what a run *)
(* that lands does to them (state/query.rs, util/query.rs: run_plan), and  *)
(* the reads that serve them (src-tauri/src/commands/patches.rs).          *)
(*                                                                         *)
(* Every read is a call of its own, answered from the result the backend   *)
(* holds at that moment, and its reply lands when it likes.  Of a stamp    *)
(* (view_seq, members_gen, drill_seq) only equality is asked, so a read    *)
(* carries whether its stamp is still the newest one.  A result is its     *)
(* sequence of rows, a row a device and a patch, and no result is the      *)
(* empty one: a read of either comes back empty.                           *)
(*                                                                         *)
(* Left out: what a group's checkbox adds to the selection                 *)
(* (PatchSelection), what is in a group's header (RowGroups), runs cut     *)
(* short by a session command (QueryRuns) and the demo.                    *)
(***************************************************************************)
EXTENDS Integers, Sequences, FiniteSets, SequencesExt, FiniteSetsExt

CONSTANTS
    Results,        \* what a query can find: sequences of rows
    ViewPage,       \* PATCHES_PAGE_SIZE
    MemberLimit,    \* GROUP_MEMBER_LIMIT
    MaxViewRuns,    \* bound: runs started
    MaxViewSteps    \* bound: what the operator does, runs apart

ASSUME ViewAssumption ==
    /\ \A r \in Results : r \in Seq([device : Nat, patch : Nat])
    /\ ViewPage \in Nat \ {0} /\ MemberLimit \in Nat \ {0}
    /\ MaxViewRuns \in Nat /\ MaxViewSteps \in Nat

VARIABLES
    held,       \* the backend's cached result
    run,        \* the run in flight: where it is, what it is and found; and one queued
    view,       \* QueryState: everything the table is drawn from
    drill,      \* the device dialog, and what it shows
    reads,      \* the calls in flight
    astray,     \* the page or the grouping moved, and nothing was fetched for it since
    viewRuns, viewSteps

viewVars == <<held, run, view, drill, reads, astray, viewRuns, viewSteps>>

Orders == {"canonical", "ascending", "descending"}
Groupings == {"none", "device", "patch"}
Idle == [at |-> "idle", silent |-> FALSE, found |-> <<>>, queued |-> FALSE]
EmptyView == [result |-> <<>>, page |-> 0, sort |-> "canonical", sortNext |-> "canonical",
              group |-> "none", rows |-> <<>>, heads |-> <<>>, total |-> 0,
              open |-> {}, members |-> {}, error |-> FALSE]
NoDialog == [device |-> 0, load |-> "closed", rows |-> <<>>]

ResultViewInit ==
    /\ held = <<>> /\ run = Idle /\ view = EmptyView /\ drill = NoDialog
    /\ reads = {} /\ astray = FALSE /\ viewRuns = 0 /\ viewSteps = 0

-----------------------------------------------------------------------------
(* What the backend serves *)

RowsOfPage(s, page) == SubSeq(s, page * ViewPage + 1, Min({Len(s), (page + 1) * ViewPage}))

\* sort_order: a stable sort, and its reverse.
Sorted(rows, order) ==
    LET up == SortSeq(rows, LAMBDA a, b : a.patch < b.patch
                                       \/ (a.patch = b.patch /\ a.device < b.device))
    IN  CASE order = "canonical"  -> rows
          [] order = "ascending"  -> up
          [] order = "descending" -> Reverse(up)

KeyOf(row, by) == IF by = "device" THEN row.device ELSE row.patch
Heads(rows, by) ==
    LET keys == {KeyOf(rows[i], by) : i \in DOMAIN rows}
    IN  [n \in 1..Cardinality(keys) |-> CHOOSE k \in keys : Cardinality({m \in keys : m < k}) = n - 1]
InGroup(rows, by, key) ==
    LET all == SelectSeq(rows, LAMBDA row : KeyOf(row, by) = key)
    IN  SubSeq(all, 1, Min({Len(all), MemberLimit}))
OfDevice(rows, device) == SelectSeq(rows, LAMBDA row : row.device = device)

\* util/pager.rs
PageCount(total) == Max({1, (total + ViewPage - 1) \div ViewPage})
ClampPage(page, total) == Min({page, PageCount(total) - 1})

NextSort(order) == CASE order = "canonical" -> "ascending"
                     [] order = "ascending" -> "descending"
                     [] order = "descending" -> "canonical"

-----------------------------------------------------------------------------
(* Calls, and the stamps that retire them *)

Read(what, v, page, key, reopen) ==
    [what |-> what, page |-> page, sort |-> v.sort, group |-> v.group, key |-> key,
     reopen |-> reopen, newest |-> TRUE, answered |-> FALSE, saw |-> <<>>]

OfView == {"rows", "heads"}
OfGroup == {"open", "tick"}
Retired(rs, whats) == {[r EXCEPT !.newest = @ /\ r.what \notin whats] : r \in rs}

\* next_view_seq, then the call.
FetchPage(v, rs, page) == Retired(rs, OfView) \union {Read("rows", v, page, 0, {})}
FetchHeads(v, rs, page, reopen) ==
    IF v.group = "none" THEN rs
    ELSE Retired(rs, OfView) \union {Read("heads", v, page, 0, reopen)}
FetchShown(v, rs, page) ==
    IF v.group = "none" THEN FetchPage(v, rs, page) ELSE FetchHeads(v, rs, page, {})
FetchDevice(v, rs, device) ==
    Retired(rs, {"device"}) \union {Read("device", v, 0, device, {})}

Loaded(v, key) == \E m \in v.members : m.key = key /\ m.rows # <<>>
WithMembers(v, key, rows) ==
    [v EXCEPT !.members = {m \in @ : m.key # key} \union {[key |-> key, rows |-> rows]}]

ClearHeads(v) == [v EXCEPT !.heads = <<>>, !.total = 0]
\* Mutant of ResetMembers: the members are forgotten and their reads are not retired.
ResetMembersOnly(v, rs) == [view |-> [v EXCEPT !.open = {}, !.members = {}], reads |-> rs]

ResetMembers(v, rs) ==
    [view |-> [v EXCEPT !.open = {}, !.members = {}], reads |-> Retired(rs, OfGroup)]

\* toggle_group on the collapsed groups of keys.
OpenAll(v, rs, keys) ==
    [view  |-> [v EXCEPT !.open = @ \union keys],
     reads |-> rs \union {Read("open", v, 0, k, {}) : k \in {k \in keys : ~Loaded(v, k)}}]

-----------------------------------------------------------------------------
(* What a run that lands does to the view *)

\* Mutant of Seeds: the rows that came with the summary are shown and not stamped.
SeedsUnstamped(v, rs) == [view |-> [v EXCEPT !.rows = RowsOfPage(v.result, 0)], reads |-> rs]

\* The first page came with the summary; it is stamped like a fetch.
Seeds(v, rs) == [view |-> [v EXCEPT !.rows = RowsOfPage(v.result, 0)], reads |-> Retired(rs, OfView)]

\* run_plan, carried out: a manual run lands on the first page, in the order a link
\* asked for or the canonical one; a silent one keeps both, as far as the pages go.
Lands(v, rs, found, silent) ==
    LET total == IF v.group = "none" THEN Len(found) ELSE v.total
        page  == IF silent THEN ClampPage(v.page, total) ELSE 0
        sort  == IF silent THEN v.sort ELSE v.sortNext
        kept  == IF silent /\ v.group # "none" THEN v.open ELSE {}
        reset == ResetMembers([v EXCEPT !.page = page, !.sort = sort, !.error = FALSE,
                                        !.sortNext = IF silent THEN @ ELSE "canonical",
                                        !.result = found], rs)
    IN  IF v.group = "none" /\ page = 0 /\ sort = "canonical"
        THEN Seeds(reset.view, reset.reads)
        ELSE [view |-> reset.view,
              reads |-> IF v.group = "none" THEN FetchPage(reset.view, reset.reads, page)
                        ELSE FetchHeads(reset.view, reset.reads, page, kept)]

MayRun == viewRuns < MaxViewRuns
Asked(silent) == [Idle EXCEPT !.at = "asked", !.silent = silent]

\* run_query: a manual run is queued behind one in flight, and refused when nobody is
\* signed in or no status is selected.
RunsQuery ==
    \/ run.at = "idle" /\ MayRun /\ run' = Asked(FALSE) /\ viewRuns' = viewRuns + 1
    \/ run.at # "idle" /\ run' = [run EXCEPT !.queued = TRUE] /\ UNCHANGED viewRuns
    \/ run.at = "idle" /\ UNCHANGED <<run, viewRuns>>

Operates == viewSteps < MaxViewSteps /\ viewSteps' = viewSteps + 1
KeepsResult == UNCHANGED <<held, run, viewRuns>>

RunsByHand ==
    /\ RunsQuery
    /\ run' # run
    /\ UNCHANGED <<held, view, drill, reads, astray, viewSteps>>

\* run_query_auto: a tick that finds a run in flight is dropped.
RunsByClock ==
    /\ run.at = "idle" /\ MayRun
    /\ run' = Asked(TRUE) /\ viewRuns' = viewRuns + 1
    /\ UNCHANGED <<held, view, drill, reads, astray, viewSteps>>

\* The backend keeps the whole result and answers with a summary of it.
Stores ==
    /\ run.at = "asked"
    /\ \E found \in Results :
         held' = found /\ run' = [run EXCEPT !.at = "stored", !.found = found]
    /\ UNCHANGED <<view, drill, reads, astray, viewRuns, viewSteps>>

\* run_queued: the run that settles starts the one behind it.
RunSettles == IF run.queued /\ MayRun
           THEN run' = Asked(FALSE) /\ viewRuns' = viewRuns + 1
           ELSE run' = Idle /\ UNCHANGED viewRuns

RunLands ==
    /\ run.at = "stored"
    /\ RunSettles
    /\ LET landed == Lands(view, reads, run.found, run.silent)
       IN  /\ view' = landed.view
           /\ reads' = IF drill.load = "closed" THEN landed.reads
                       ELSE FetchDevice(landed.view, landed.reads, drill.device)
    /\ astray' = FALSE
    /\ UNCHANGED <<held, drill, viewSteps>>

RunFails ==
    /\ run.at = "asked"
    /\ RunSettles
    /\ view' = [view EXCEPT !.error = TRUE]
    /\ UNCHANGED <<held, drill, reads, astray, viewSteps>>

-----------------------------------------------------------------------------
(* What the operator does to the table *)

Regrouped(v, by) == ClearHeads([v EXCEPT !.group = by])

\* go_to_patches_page, with a page the pager offers
TurnsPage ==
    /\ Operates /\ KeepsResult
    /\ \E page \in 0..(PageCount(IF view.group = "none" THEN Len(view.result)
                                 ELSE view.total) - 1) :
         /\ view' = [view EXCEPT !.page = page]
         /\ reads' = FetchShown(view, reads, page)
    /\ astray' = FALSE
    /\ UNCHANGED drill

\* cycle_sort: the headers of the flat table
CyclesSort ==
    /\ Operates /\ KeepsResult
    /\ view.group = "none" /\ view.rows # <<>>
    /\ LET v == [view EXCEPT !.sort = NextSort(@), !.page = 0]
       IN  view' = v /\ reads' = FetchPage(v, reads, 0)
    /\ astray' = FALSE
    /\ UNCHANGED drill

\* set_group_by
SetsGroupBy(by) ==
    IF by = view.group THEN UNCHANGED <<view, reads>>
    ELSE LET reset == ResetMembers(Regrouped([view EXCEPT !.page = 0], by), reads)
         IN  view' = reset.view /\ reads' = FetchShown(reset.view, reset.reads, 0)

GroupsBy ==
    /\ Operates /\ KeepsResult
    /\ \E by \in Groupings \ {view.group} : SetsGroupBy(by)
    /\ astray' = FALSE
    /\ UNCHANGED drill

\* toggle_group: a group opens with what is loaded, and is read when nothing is.
TogglesGroup ==
    /\ Operates /\ KeepsResult
    /\ view.group # "none"
    /\ \E key \in ToSet(view.heads) :
         IF key \in view.open
         THEN view' = [view EXCEPT !.open = @ \ {key}] /\ UNCHANGED reads
         ELSE LET opened == OpenAll(view, reads, {key})
              IN  view' = opened.view /\ reads' = opened.reads
    /\ UNCHANGED <<drill, astray>>

\* toggle_group_selection, of a group not loaded yet
TicksGroup ==
    /\ Operates /\ KeepsResult
    /\ view.group # "none"
    /\ \E key \in ToSet(view.heads) :
         ~Loaded(view, key) /\ reads' = reads \union {Read("tick", view, 0, key, {})}
    /\ UNCHANGED <<view, drill, astray>>

\* drill_to_org, drill_to_severity, drill_to_patch: the first page, flat, and a run.
DrillsToRows ==
    /\ Operates
    /\ LET v == [view EXCEPT !.page = 0]
       IN  IF view.group = "none" THEN view' = v /\ UNCHANGED reads
           ELSE SetsGroupBy("none")
    /\ astray' = ((astray \/ view.page # 0) /\ view.group = "none")
    /\ RunsQuery
    /\ UNCHANGED <<held, drill>>

\* apply_view: the grouping and the order of a shared link, and a run that fetches.
AppliesLink ==
    /\ Operates
    /\ \E by \in Groupings, order \in Orders :
         LET reset == ResetMembers(Regrouped(view, by), reads)
             v     == IF by = view.group THEN view ELSE reset.view
         IN  /\ view' = [v EXCEPT !.sortNext = order]
             /\ reads' = IF by = view.group THEN reads ELSE reset.reads
             /\ astray' = (astray \/ by # view.group)
    /\ RunsQuery
    /\ UNCHANGED <<held, drill>>

\* open_device, from a row on screen
OpensDevice ==
    /\ Operates /\ KeepsResult
    /\ \E i \in DOMAIN view.rows :
         /\ drill' = [NoDialog EXCEPT !.device = view.rows[i].device, !.load = "loading"]
         /\ reads' = FetchDevice(view, reads, view.rows[i].device)
    /\ UNCHANGED <<view, astray>>

ClosesDevice ==
    /\ Operates /\ KeepsResult
    /\ drill.load # "closed"
    /\ drill' = NoDialog /\ reads' = Retired(reads, {"device"})
    /\ UNCHANGED <<view, astray>>

DismissesError ==
    /\ view.error
    /\ view' = [view EXCEPT !.error = FALSE]
    /\ UNCHANGED <<held, run, drill, reads, astray, viewRuns, viewSteps>>

\* clear_session, with no run in flight.
ClearsResults ==
    /\ Operates
    /\ run.at = "idle"
    /\ held' = <<>> /\ drill' = NoDialog /\ astray' = FALSE
    /\ view' = [EmptyView EXCEPT !.group = view.group]
    /\ reads' = Retired(reads, OfView \union OfGroup \union {"device"})
    /\ UNCHANGED <<run, viewRuns>>

-----------------------------------------------------------------------------
(* The calls *)

ServesRead ==
    /\ \E r \in reads :
         /\ ~r.answered
         /\ reads' = (reads \ {r}) \union {[r EXCEPT !.answered = TRUE, !.saw = held]}
    /\ UNCHANGED <<held, run, view, drill, astray, viewRuns, viewSteps>>

DropsRead(r) == ~r.newest /\ reads' = reads \ {r} /\ UNCHANGED <<view, drill, astray>>

ShowsRows(r) ==
    /\ r.what = "rows" /\ r.newest
    /\ view' = [view EXCEPT !.rows = RowsOfPage(Sorted(r.saw, r.sort), r.page), !.error = FALSE]
    /\ reads' = reads \ {r}
    /\ UNCHANGED <<drill, astray>>

\* The page was bounded by the total of the result before: past the end of this one it
\* is asked for again, as the last one.
ShowsHeads(r) ==
    /\ r.what = "heads" /\ r.newest
    /\ LET heads == Heads(r.saw, r.group)
           page  == ClampPage(r.page, Len(heads))
           v     == [view EXCEPT !.total = Len(heads), !.error = FALSE]
           shown == [v EXCEPT !.heads = RowsOfPage(heads, r.page)]
           moved == [v EXCEPT !.page = page]
           opened == OpenAll(shown, reads \ {r},
                             {k \in ToSet(shown.heads) : k \in r.reopen /\ k \notin view.open})
       IN  IF page # r.page
           THEN view' = moved /\ reads' = FetchHeads(moved, reads \ {r}, page, r.reopen)
           ELSE view' = opened.view /\ reads' = opened.reads
    /\ UNCHANGED <<drill, astray>>

\* load_group_members drops what was asked of another result or another grouping.
ShowsMembers(r) ==
    /\ r.what \in OfGroup /\ r.newest
    /\ LET rows == InGroup(r.saw, r.group, r.key)
           v    == WithMembers(view, r.key, rows)
       IN  view' = IF r.group # view.group THEN view
                   ELSE IF r.what = "tick" THEN [v EXCEPT !.open = @ \union {r.key}] ELSE v
    /\ reads' = reads \ {r}
    /\ UNCHANGED <<drill, astray>>

ShowsDevice(r) ==
    /\ r.what = "device" /\ r.newest
    /\ LET rows == OfDevice(r.saw, r.key)
       IN  drill' = IF drill.load = "closed" \/ drill.device # r.key THEN drill
                    ELSE [drill EXCEPT !.rows = rows,
                                       !.load = IF rows = <<>> THEN "gone" ELSE "ready"]
    /\ reads' = reads \ {r}
    /\ UNCHANGED <<view, astray>>

\* A read that fails says so and leaves what is on screen; an opened group stays open,
\* empty, to be read again.
FailsRead(r) ==
    /\ r.newest
    /\ reads' = reads \ {r}
    /\ view' = CASE r.what \in OfView -> [view EXCEPT !.error = TRUE]
                 [] r.what = "open" /\ r.group = view.group -> WithMembers(view, r.key, <<>>)
                 [] OTHER -> view
    /\ drill' = IF r.what = "device" /\ drill.device = r.key
                THEN [drill EXCEPT !.load = "failed", !.rows = <<>>] ELSE drill
    /\ astray' = (astray \/ r.what \in OfView)

ReadLands ==
    /\ \E r \in reads : /\ r.answered
                        /\ \/ DropsRead(r) \/ FailsRead(r)
                           \/ ShowsRows(r) \/ ShowsHeads(r) \/ ShowsMembers(r) \/ ShowsDevice(r)
    /\ UNCHANGED <<held, run, viewRuns, viewSteps>>

ResultViewNext ==
    \/ RunsByHand \/ RunsByClock \/ Stores \/ RunLands \/ RunFails
    \/ TurnsPage \/ CyclesSort \/ GroupsBy \/ TogglesGroup \/ TicksGroup
    \/ DrillsToRows \/ AppliesLink \/ OpensDevice \/ ClosesDevice
    \/ DismissesError \/ ClearsResults
    \/ ServesRead \/ ReadLands

ResultViewSpec == ResultViewInit /\ [][ResultViewNext]_viewVars

-----------------------------------------------------------------------------
(* Properties *)

Reading(whats) == \E r \in reads : r.newest /\ r.what \in whats

(* Once the runs and the reads have settled, the table is the page the     *)
(* pager names of the result on screen, in the order or the grouping its   *)
(* headers claim; the members under a group are that result's, no group is *)
(* left loading, and the device dialog holds that result's rows.  However  *)
(* the replies were ordered: view_seq, members_gen and drill_seq retire    *)
(* them.  Not while a drill-down or a link has moved the page and its run  *)
(* never landed, nor after a page that failed to load: the error says so.  *)
TableFits ==
    astray \/ Reading(OfView)
    \/ IF view.group = "none"
       THEN view.rows = RowsOfPage(Sorted(view.result, view.sort), view.page)
       ELSE LET heads == Heads(view.result, view.group)
            IN  /\ view.total = Len(heads) /\ view.page < PageCount(view.total)
                /\ view.heads = RowsOfPage(heads, view.page)
GroupsFit ==
    /\ \A m \in view.members :
         m.rows \in {<<>>, InGroup(view.result, view.group, m.key)}
    /\ Reading(OfGroup) \/ \A key \in view.open : \E m \in view.members : m.key = key
DialogFits ==
    /\ drill.load \in {"ready", "gone"} /\ ~Reading({"device"})
         => drill.rows = OfDevice(view.result, drill.device)
    /\ drill.load = "loading" => Reading({"device"})
ScreenFitsResult == run.at = "idle" => TableFits /\ GroupsFit /\ DialogFits
=============================================================================
