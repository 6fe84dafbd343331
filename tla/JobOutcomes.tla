----------------------------- MODULE JobOutcomes -----------------------------
(***************************************************************************)
(* What became of an action: the poller reads a device's activity feed     *)
(* and finds the activity that ends each of its jobs                       *)
(* (src-tauri/src/actions/activity.rs, commands/actions/poller.rs,         *)
(* api/activities.rs, model.rs).                                           *)
(*                                                                         *)
(* One device. NinjaOne is the environment: an effort is one run of an     *)
(* action on the device, of a job or, with job NoJob, of somebody else's;  *)
(* it writes activities into the feed. A script writes one, which changes  *)
(* when it ends; a native action one when it starts and another when it    *)
(* ends. The feed is in the order of time; every activity has an id.       *)
(***************************************************************************)
EXTENDS Integers, Sequences, FiniteSets, SequencesExt, FiniteSetsExt

CONSTANTS LastJob,         \* bound: the jobs
          JobKinds,        \* the kinds dispatched
          OthersKinds,     \* the kinds that others run
          Slack,           \* the clock skew allowed for
          JobTimeout,      \* JOB_TIMEOUT_MINUTES
          MaxTime,         \* bound: the clock
          MaxEfforts,      \* bound: the runs
          ClearsFinished   \* may settled jobs be cleared while others are pending?

ASSUME OutcomesAssumption ==
    /\ LastJob \in Nat /\ Slack \in Nat /\ JobTimeout \in Nat \ {0}
    /\ JobKinds \union OthersKinds \subseteq {"OsPatchScan", "OsPatchApply", "Reboot", "Script"}
    /\ MaxTime \in Nat /\ MaxEfforts \in Nat /\ ClearsFinished \in BOOLEAN

VARIABLES report,        \* the store's jobs
          tick,          \* the poller's tick
          confirmed,     \* confirmed_series
          activities,    \* the feed
          efforts,       \* the runs
          clock

outcomeVars == <<report, tick, confirmed, activities, efforts, clock>>

\* By id: the order of the store.
Jobs == 1..LastJob
NoJob == 0
NoActivity == 0
NoSeries == 0
Echoed == -1          \* an id or uid that no activity carries

Unborn == [state |-> "unborn", kind |-> "Script", at |-> 0, activity |-> NoActivity,
           series |-> NoSeries, by |-> NoActivity]
NoTick == [pc |-> "idle", at |-> 0, pending |-> {}, claimed |-> {}]

OutcomeInit ==
    /\ report = [j \in Jobs |-> Unborn]
    /\ tick = NoTick
    /\ confirmed = {}
    /\ activities = <<>>
    /\ efforts = <<>>
    /\ clock = 0

Settled == {"Completed", "Failed", "TimedOut"}
InStore == {j \in Jobs : report[j].state \notin {"unborn", "cleared"}}
PendingJobs == {j \in InStore : report[j].state \notin Settled}

-----------------------------------------------------------------------------
(* What an activity says.                                                  *)

\* The types that a run of a kind can have.
TypeOfKind(kind) ==
    CASE kind \in {"OsPatchScan", "OsPatchApply"} -> "PATCH_MANAGEMENT"
      [] kind = "Reboot" -> "SYSTEM"
      [] OTHER -> "SCRIPTING"

\* native_run_codes: the codes of a run's start and end.
StartCode(kind) == CASE kind = "OsPatchScan"  -> "SCAN_STARTED"
                     [] kind = "OsPatchApply" -> "APPLY_STARTED"
                     [] OTHER -> "STARTED"
EndCodes(kind) == CASE kind = "OsPatchScan"  -> {"SCAN_COMPLETED", "FAILURE"}
                    [] kind = "OsPatchApply" -> {"APPLY_COMPLETED", "FAILURE"}
                    [] kind = "Reboot"       -> {"REBOOTED"}
                    [] OTHER -> {"COMPLETED", "FAILED"}
IsNative(kind) == kind # "Script"

\* is_terminal and outcome. The end of one patch is not the end of the run.
Terminal(a) == a.code \in {"COMPLETED", "FAILED", "SCAN_COMPLETED", "APPLY_COMPLETED", "REBOOTED", "FAILURE"}
Verdict(a) == IF a.code \in {"FAILED", "FAILURE"} THEN "Failed" ELSE "Completed"

\* is_action_activity and is_run_code: a bare lifecycle code can be any kind's.
CanBeOf(kind, a) ==
    /\ a.type = TypeOfKind(kind)
    /\ a.code \in {"STARTED", "COMPLETED", "FAILED"}
                  \union (IF IsNative(kind) THEN {StartCode(kind)} \union EndCodes(kind) ELSE {})

-----------------------------------------------------------------------------
(* match_activity. shown are the activities that the tick has read.        *)

\* The first and the last of those with the earliest, and the latest, time: the feed
\* has the newest first.
EarliestOf(shown) == CHOOSE a \in shown : \A b \in shown :
                      a.time < b.time \/ (a.time = b.time /\ a.id >= b.id)
LatestOf(shown)   == CHOOSE a \in shown : \A b \in shown :
                      a.time > b.time \/ (a.time = b.time /\ a.id <= b.id)
LastOf(shown)  == CHOOSE a \in shown : \A b \in shown : a.id >= b.id

\* end_of_run: the ends of the run that activity s began.
EndsOfRun(r, s, shown, claimed) ==
    IF s.series = NoSeries /\ ~(IsNative(r.kind) /\ s.code = StartCode(r.kind)) THEN {}
    ELSE {a \in shown \ {s} : /\ Terminal(a) /\ a.id \notin claimed /\ a.time >= s.time
                              /\ IF s.series # NoSeries THEN a.series = s.series
                                 ELSE CanBeOf(r.kind, a)}

\* The activities that can be of the kind, since the dispatch.
Guesses(r, shown, claimed) ==
    {a \in shown : CanBeOf(r.kind, a) /\ a.id \notin claimed /\ a.time >= r.at - Slack}

Bound(r, shown) == {a \in shown : a.id = r.activity}
InSeries(r, shown) == {a \in shown : r.series # NoSeries /\ a.series = r.series}

\* The activity it is bound to, or the end of the run which that began; an end in its
\* series, or else what there is of it; or the newest guess. None, or one.
MatchActivity(r, shown, claimed) ==
    LET ends(s) == IF Terminal(s) THEN {} ELSE EndsOfRun(r, s, shown, claimed)
        series  == InSeries(r, shown)
        ended   == {a \in series : Terminal(a)}
    IN  IF Bound(r, shown) # {}
        THEN {IF ends(s) # {} THEN EarliestOf(ends(s)) ELSE s : s \in Bound(r, shown)}
        ELSE IF series # {} THEN {LastOf(IF ended # {} THEN ended ELSE series)}
        ELSE IF Guesses(r, shown, claimed) # {} THEN {LatestOf(Guesses(r, shown, claimed))}
        ELSE {}

-----------------------------------------------------------------------------
(* A tick of the poller.                                                   *)

PastTimeout(r, at) == at - r.at >= JobTimeout
WaitsOn(r, at) == IF PastTimeout(r, at) THEN [r EXCEPT !.state = "TimedOut"] ELSE r

\* advance_job, by activity a: bound on the first match, settled by an end or, whatever
\* it matches, by the timeout. by is the run, for the properties.
AdvancedBy(r, a, at) ==
    LET series == IF r.series = NoSeries THEN a.series ELSE r.series
    IN  IF Terminal(a)
        THEN [r EXCEPT !.state = Verdict(a), !.activity = a.id, !.series = series, !.by = a.effort]
        ELSE [r EXCEPT !.state = IF PastTimeout(r, at) THEN "TimedOut" ELSE "Running",
                       !.activity = IF @ = NoActivity THEN a.id ELSE @, !.series = series]

Advanced(r, at, shown, claimed) ==
    LET match == MatchActivity(r, shown, claimed)
    IN  IF match = {} THEN WaitsOn(r, at) ELSE AdvancedBy(r, CHOOSE a \in match : TRUE, at)

\* pending_jobs, and the activities that jobs of the store have.
TickBegins ==
    /\ tick.pc = "idle" /\ PendingJobs # {}
    /\ tick' = [pc |-> "reading", at |-> clock, pending |-> PendingJobs,
                claimed |-> {report[j].activity : j \in InStore} \ {NoActivity}]
    /\ UNCHANGED <<report, confirmed, activities, efforts, clock>>

\* feed_reads: one read, of the series alone if there is one job and its series has
\* been seen; of nothing before the first dispatch.
Shown ==
    LET first == Min({report[j].at : j \in tick.pending})
        only  == {report[j].series : j \in tick.pending} \ {NoSeries}
        narrow == Cardinality(tick.pending) = 1 /\ only # {} /\ only \subseteq confirmed
    IN  {a \in ToSet(activities) : a.time >= first - Slack /\ (narrow => a.series \in only)}

\* Mutant of Resolved: a job does not see what the jobs before it have claimed.
ResolvedApart(shown) ==
    [j \in Jobs |-> IF j \in tick.pending THEN Advanced(report[j], tick.at, shown, tick.claimed)
                    ELSE report[j]]

\* advance_job over the pending jobs, in the order of the store, each with what those
\* before it have claimed.
Resolved(shown) ==
    LET claimed[j \in 0..LastJob] ==
            IF j = 0 THEN tick.claimed
            ELSE IF j \in tick.pending
            THEN claimed[j - 1] \union
                   ({Advanced(report[j], tick.at, shown, claimed[j - 1]).activity} \ {NoActivity})
            ELSE claimed[j - 1]
    IN  [j \in Jobs |-> IF j \in tick.pending
                        THEN Advanced(report[j], tick.at, shown, claimed[j - 1]) ELSE report[j]]

\* resolve_pending and apply_job_updates: the feed is read, or cannot be.
TickResolves ==
    /\ tick.pc = "reading"
    /\ \/ /\ report' = Resolved(Shown)
          /\ confirmed' = confirmed \union {report[j].series : j \in {k \in tick.pending :
                                              InSeries(report[k], Shown) # {}}}
       \/ /\ report' = [j \in Jobs |-> IF j \in tick.pending THEN WaitsOn(report[j], tick.at)
                                       ELSE report[j]]
          /\ UNCHANGED confirmed
    /\ tick' = [NoTick EXCEPT !.at = tick.at]
    /\ UNCHANGED <<activities, efforts, clock>>

-----------------------------------------------------------------------------
(* Dispatches, and what others do on the device.                           *)

NewEffort(kind, job, series) ==
    [kind |-> kind, job |-> job, series |-> series, state |-> "queued"]

StartId(e) == 3 * e - 2
PatchId(e) == 3 * e - 1
EndId(e) == 3 * e

\* The response of a dispatch names the activity of a script, its series, something
\* else, or nothing; of a native action, nothing.
Dispatches(j, kind) ==
    /\ report[j] = Unborn /\ \A k \in Jobs : k < j => report[k] # Unborn
    /\ Len(efforts) < MaxEfforts
    /\ LET e == Len(efforts) + 1
       IN  \E named \in IF IsNative(kind) THEN {<<NoActivity, NoSeries>>}
                         ELSE {<<StartId(e), NoSeries>>, <<Echoed, NoSeries>>, <<NoActivity, e>>,
                               <<NoActivity, Echoed>>, <<NoActivity, NoSeries>>} :
             /\ report' = [report EXCEPT ![j] = [Unborn EXCEPT !.state = "Queued", !.kind = kind,
                              !.at = clock, !.activity = named[1], !.series = named[2]]]
             /\ efforts' = Append(efforts, NewEffort(kind, j, IF named[2] = e THEN e ELSE NoSeries))
    /\ UNCHANGED <<tick, confirmed, activities, clock>>

\* A policy, the scheduler or another technician starts something too.
OthersAct(kind) ==
    /\ Len(efforts) < MaxEfforts
    /\ efforts' = Append(efforts, NewEffort(kind, NoJob, NoSeries))
    /\ UNCHANGED <<report, tick, confirmed, activities, clock>>

Activity(e, id, code) ==
    [id |-> id, type |-> TypeOfKind(efforts[e].kind), code |-> code, time |-> clock,
     series |-> efforts[e].series, effort |-> e]

\* A run starts: an apply with a patch that fails. A reboot tells when it is over.
EffortStarts(e) ==
    /\ efforts[e].state = "queued"
    /\ LET start == Activity(e, StartId(e), StartCode(efforts[e].kind))
           patch == Activity(e, PatchId(e), "INSTALL_FAILED")
       IN  IF efforts[e].kind = "Reboot"
           THEN /\ efforts' = [efforts EXCEPT ![e].state = "Completed"]
                /\ activities' = Append(activities, Activity(e, EndId(e), "REBOOTED"))
           ELSE /\ efforts' = [efforts EXCEPT ![e].state = "running"]
                /\ activities' = activities \o (IF efforts[e].kind = "OsPatchApply"
                                                THEN <<start, patch>> ELSE <<start>>)
    /\ UNCHANGED <<report, tick, confirmed, clock>>

\* A script's activity is the same until it ends.
EffortEnds(e) ==
    /\ efforts[e].state = "running"
    /\ \E code \in EndCodes(efforts[e].kind) :
         /\ activities' = IF IsNative(efforts[e].kind)
                          THEN Append(activities, Activity(e, EndId(e), code))
                          ELSE [i \in DOMAIN activities |->
                                  IF activities[i].effort = e THEN [activities[i] EXCEPT !.code = code]
                                  ELSE activities[i]]
         /\ efforts' = [efforts EXCEPT ![e].state = IF code \in {"FAILED", "FAILURE"}
                                                    THEN "Failed" ELSE "Completed"]
    /\ UNCHANGED <<report, tick, confirmed, clock>>

ClockTicks ==
    /\ clock < MaxTime /\ clock' = clock + 1
    /\ UNCHANGED <<report, tick, confirmed, activities, efforts>>

\* clear_job_history, or a trim: settled jobs leave the store, and with them what they
\* have claimed.
ClearsSettled ==
    /\ ClearsFinished
    /\ \E j \in InStore : report[j].state \in Settled
    /\ report' = [j \in Jobs |-> IF report[j].state \in Settled
                                 THEN [report[j] EXCEPT !.state = "cleared"] ELSE report[j]]
    /\ UNCHANGED <<tick, confirmed, activities, efforts, clock>>

OutcomeNext ==
    \/ TickBegins \/ TickResolves \/ ClockTicks \/ ClearsSettled
    \/ \E j \in Jobs, kind \in JobKinds : Dispatches(j, kind)
    \/ \E kind \in OthersKinds : OthersAct(kind)
    \/ \E e \in DOMAIN efforts : EffortStarts(e) \/ EffortEnds(e)

OutcomeSpec == OutcomeInit /\ [][OutcomeNext]_outcomeVars

-----------------------------------------------------------------------------
(* Properties.                                                             *)

OutcomeTypeOK ==
    /\ DOMAIN report = Jobs
    /\ \A j \in Jobs : /\ report[j].state \in {"unborn", "Queued", "Running", "cleared"} \union Settled
                       /\ report[j].at \in 0..MaxTime /\ report[j].by \in 0..MaxEfforts
    /\ tick.pending \subseteq Jobs /\ clock \in 0..MaxTime
    /\ Len(efforts) <= MaxEfforts /\ Len(activities) <= 3 * MaxEfforts

\* Others have run something on the device since job j was dispatched, or just before,
\* whose activities look like those of its kind; or another job of ours has.
HasRival(j) ==
    \E i \in DOMAIN activities :
        /\ CanBeOf(report[j].kind, activities[i])
        /\ activities[i].time >= report[j].at - Slack
        /\ efforts[activities[i].effort].job # j

\* A job without a rival ends as its run did, whatever the dispatch answered, however
\* the feed, the ticks and other kinds' activities come between: one patch's end, or a
\* start, settles nothing. Two jobs that NinjaOne answered nothing about never share an
\* activity. And a job past its timeout is settled by the next tick, whatever goes on
\* (activity.rs:159-173, 219-256).
JobsEndAsTheirRuns ==
    /\ \A j \in InStore : report[j].by # 0 /\ ~HasRival(j) =>
         LET e == efforts[report[j].by]
         IN  e.job = j /\ e.state = report[j].state
    /\ \A j, k \in InStore : j # k /\ IsNative(report[j].kind) /\ IsNative(report[k].kind) =>
         report[j].activity = NoActivity \/ report[j].activity # report[k].activity
    /\ tick.pc = "idle" => \A j \in PendingJobs : ~PastTimeout(report[j], tick.at)
=============================================================================
