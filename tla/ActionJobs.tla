----------------------------- MODULE ActionJobs ------------------------------
(***************************************************************************)
(* A dispatched batch from its first record to its last: the opening audit *)
(* records, the tasks that send (commands/actions/dispatch.rs), the append *)
(* to the job store and the store itself (state/jobs.rs), the one poller   *)
(* (commands/actions/poller.rs), and what the end of a session does to all *)
(* of them (Session).                                                      *)
(*                                                                         *)
(* A job is a device of a run.  Whether a run may go on (the confirmation) *)
(* is the subject of Approval: here it may, or is refused.                 *)
(*                                                                         *)
(* A closing record counts as written when its caller hands it to          *)
(* record_off_runtime.  The invalidations these steps make are TenantCache's. *)
(***************************************************************************)
EXTENDS Session

CONSTANTS
    Run,         \* run_action calls
    Device,      \* the devices a request can name
    Permits,     \* dispatch concurrency of a batch
    MaxJobs,     \* rows the store keeps, when enough of them are settled
    MaxRetries   \* attempts after the first that a 429 or a 401 is granted

ASSUME PermitAssumption == Permits \in Nat \ {0}
ASSUME LimitAssumption == MaxJobs \in Nat /\ MaxRetries \in Nat

VARIABLES
    run,       \* per run_action call: where it is, its session, its audit label
    job,       \* per job: where it is in dispatch, then its row's state
    tries,     \* per job: retries so far
    url,       \* per job: the tenant its request was built for
    store,     \* AppState::jobs: the tenant it is stamped with, and the rows
    poller,    \* the poller: where it is, and what the tick sampled
    opened,    \* jobs with an opening audit record
    closes,    \* per job: closing audit records
    acted      \* per job: times the action reached the device

dispatchVars == <<run, job, tries, url>>
auditVars == <<opened, closes>>
vars == <<sessionVars, dispatchVars, store, poller, auditVars, acted>>

Job == Run \X Device
RunOf(j) == j[1]
JobsOf(r) == {j \in Job : RunOf(j) = r}

Queued == {"queued", "turn", "wire"}              \* with their dispatch task
Unsettled == {"running", "unknown"}               \* the poller's to settle
Settled == {"failed", "skipped", "settled"}
Sending == {"turn", "wire"}                       \* a permit is held

NoStore == [tenant |-> FirstTenant, rows |-> {}]
NoSession == [tenant |-> FirstTenant, epoch |-> 0]

Init ==
    /\ SessionInit
    /\ run = [r \in Run |-> [at |-> "idle", session |-> NoSession, label |-> FirstTenant]]
    /\ job = [j \in Job |-> "none"]
    /\ tries = [j \in Job |-> 0]
    /\ url = [j \in Job |-> FirstTenant]
    /\ store = NoStore
    /\ poller = [at |-> "off", session |-> NoSession, rows |-> {}]
    /\ opened = {}
    /\ closes = [j \in Job |-> 0]
    /\ acted = [j \in Job |-> 0]

(* One closing record for each of these jobs.                               *)
Close(js) == closes' = [j \in Job |-> IF j \in js THEN closes[j] + 1 ELSE closes[j]]

-----------------------------------------------------------------------------
(* run_action, up to the batch *)

RunStarts(r) ==
    /\ run[r].at = "idle"
    /\ Allowed
    /\ run' = [run EXCEPT ![r] = [@ EXCEPT !.at = "planning", !.session = Now]]
    /\ UNCHANGED <<sessionVars, job, tries, url, store, poller, auditVars, acted>>

(* A blocked plan, a failed fetch, or a confirmation that does not match.   *)
RunRefused(r) ==
    /\ run[r].at = "planning"
    /\ run' = [run EXCEPT ![r] = [@ EXCEPT !.at = "done"]]
    /\ UNCHANGED <<sessionVars, job, tries, url, store, poller, auditVars, acted>>

(* The plan's eligible devices are opened in one write, its skipped ones    *)
(* become rows without a record.  The label is the Settings of this moment. *)
Opens(r) ==
    /\ run[r].at = "planning"
    /\ run' = [run EXCEPT ![r] = [@ EXCEPT !.at = "sending", !.label = tenant]]
    /\ \E eligible \in (SUBSET JobsOf(r)) \ {{}} :
          /\ job' = [j \in Job |-> IF j \in eligible THEN "queued"
                                   ELSE IF j \in JobsOf(r) THEN "skipped" ELSE job[j]]
          /\ opened' = opened \union eligible
    /\ UNCHANGED <<sessionVars, tries, url, store, poller, closes, acted>>

-----------------------------------------------------------------------------
(* dispatch_one, a task per eligible device *)

Ends(j, state) ==
    /\ job' = [job EXCEPT ![j] = state]
    /\ IF state \in Settled THEN Close({j}) ELSE UNCHANGED closes
    /\ UNCHANGED <<sessionVars, run, tries, url, store, poller, opened>>

(* send_if_current: with a permit in hand the session is checked.  The      *)
(* request's URL is fixed right after (send_with_retry).                    *)
Turn(j) ==
    /\ job[j] = "queued"
    /\ Cardinality({k \in JobsOf(RunOf(j)) : job[k] \in Sending}) < Permits
    /\ Current(run[RunOf(j)].session)
    /\ job' = [job EXCEPT ![j] = "turn"]
    /\ url' = [url EXCEPT ![j] = auth.tenant]
    /\ UNCHANGED <<sessionVars, run, tries, store, poller, auditVars, acted>>

TurnTooLate(j) ==
    /\ job[j] = "queued"
    /\ Cardinality({k \in JobsOf(RunOf(j)) : job[k] \in Sending}) < Permits
    /\ ~Current(run[RunOf(j)].session)
    /\ Ends(j, "skipped")
    /\ UNCHANGED acted

(* An attempt: a token for the URL's tenant, then the guard.                *)
Attempt(j) ==
    /\ job[j] = "turn"
    /\ auth.tenant = url[j] /\ auth.grant # NoGrant
    /\ Current(run[RunOf(j)].session)
    /\ job' = [job EXCEPT ![j] = "wire"]
    /\ UNCHANGED <<sessionVars, run, tries, url, store, poller, auditVars, acted>>

(* TenantMoved and the guard both come back as SendRefused: not sent.       *)
AttemptRefused(j) ==
    /\ job[j] = "turn"
    /\ auth.tenant # url[j] \/ ~Current(run[RunOf(j)].session)
    /\ Ends(j, "skipped")
    /\ UNCHANGED acted

(* No token to be had, a refusal in send_action, or no connection.          *)
AttemptFails(j) ==
    /\ job[j] = "turn"
    /\ Ends(j, "failed")
    /\ UNCHANGED acted

Accepted(j) ==
    /\ job[j] = "wire"
    /\ acted' = [acted EXCEPT ![j] = @ + 1]
    /\ Ends(j, "running")

(* Mutant of Ambiguous: a timeout is retried as if it were a read.          *)
AmbiguousResent(j) ==
    /\ job[j] = "wire"
    /\ job' = [job EXCEPT ![j] = "turn"]
    /\ \E n \in {0, 1} : acted' = [acted EXCEPT ![j] = @ + n]
    /\ UNCHANGED <<sessionVars, run, tries, url, store, poller, auditVars>>

(* A timeout, a lost connection, a 5xx, an unreadable 2xx: it may have      *)
(* reached the device.  Never sent again.                                   *)
Ambiguous(j) ==
    /\ job[j] = "wire"
    /\ \E n \in {0, 1} : acted' = [acted EXCEPT ![j] = @ + n]
    /\ Ends(j, "unknown")

(* Any other 4xx, or the last 429 or 401.                                   *)
Rejected(j) ==
    /\ job[j] = "wire"
    /\ Ends(j, "failed")
    /\ UNCHANGED acted

(* A 429 or a 401 with retries left: NinjaOne refused it, so ask again.     *)
Retries(j) ==
    /\ job[j] = "wire"
    /\ tries[j] < MaxRetries
    /\ tries' = [tries EXCEPT ![j] = @ + 1]
    /\ job' = [job EXCEPT ![j] = "turn"]
    /\ UNCHANGED <<sessionVars, run, url, store, poller, auditVars, acted>>

(* The task panics: fill_unreported gives its device an Unknown job, since  *)
(* its request may be out.                                                  *)
Panics(j) ==
    /\ job[j] \in Queued
    /\ IF job[j] = "wire" THEN \E n \in {0, 1} : acted' = [acted EXCEPT ![j] = @ + n]
                          ELSE UNCHANGED acted
    /\ Ends(j, "unknown")

-----------------------------------------------------------------------------
(* append_jobs, and what run_action does with its answer *)

AllReported(r) == run[r].at = "sending" /\ \A j \in JobsOf(r) : job[j] \notin Queued

(* Past MaxJobs, the oldest settled rows are dropped.  Which ones go is     *)
(* left open: no property tells them apart.                                 *)
Excess(rows) == IF Cardinality(rows) > MaxJobs THEN Cardinality(rows) - MaxJobs ELSE 0
Trimmed(rows, gone) ==
    /\ gone \subseteq {j \in rows : job[j] \in Settled}
    /\ \/ Cardinality(gone) = Excess(rows)
       \/ /\ Cardinality(gone) < Excess(rows)
          /\ gone = {j \in rows : job[j] \in Settled}

(* Mutant of Appends: the session is not checked under the jobs lock.       *)
AppendsUnchecked(r) ==
    /\ AllReported(r)
    /\ store' = [tenant |-> run[r].session.tenant, rows |-> JobsOf(r)]
    /\ run' = [run EXCEPT ![r] = [@ EXCEPT !.at = "appended"]]
    /\ UNCHANGED <<sessionVars, job, tries, url, poller, auditVars, acted>>

(* Rows stamped for another tenant are replaced.                            *)
Appends(r) ==
    /\ AllReported(r)
    /\ Current(run[r].session)
    /\ LET kept == IF store.tenant = run[r].session.tenant THEN store.rows ELSE {}
           rows == kept \union JobsOf(r)
       IN  \E gone \in SUBSET rows :
              /\ Trimmed(rows, gone)
              /\ store' = [tenant |-> run[r].session.tenant, rows |-> rows \ gone]
    /\ run' = [run EXCEPT ![r] = [@ EXCEPT !.at = "appended"]]
    /\ UNCHANGED <<sessionVars, job, tries, url, poller, auditVars, acted>>

(* Mutant of AppendRefused: the batch is dropped and nothing is closed.     *)
AppendForgets(r) ==
    /\ AllReported(r)
    /\ ~Current(run[r].session)
    /\ run' = [run EXCEPT ![r] = [@ EXCEPT !.at = "done"]]
    /\ UNCHANGED <<sessionVars, job, tries, url, store, poller, auditVars, acted>>

(* The session ended mid-batch: nothing is stored, and the jobs without an  *)
(* outcome are closed here.                                                 *)
AppendRefused(r) ==
    /\ AllReported(r)
    /\ ~Current(run[r].session)
    /\ Close({j \in JobsOf(r) : job[j] \in Unsettled})
    /\ run' = [run EXCEPT ![r] = [@ EXCEPT !.at = "done"]]
    /\ UNCHANGED <<sessionVars, job, tries, url, store, poller, opened, acted>>

(* spawn_job_poller: the task claims the slot, or finds it taken.           *)
Spawns(r) ==
    /\ run[r].at = "appended"
    /\ run' = [run EXCEPT ![r] = [@ EXCEPT !.at = "done"]]
    /\ poller' = IF poller.at = "off" THEN [poller EXCEPT !.at = "asleep"] ELSE poller
    /\ UNCHANGED <<sessionVars, job, tries, url, store, auditVars, acted>>

-----------------------------------------------------------------------------
(* the poller *)

Pending == IF store.tenant = tenant THEN {j \in store.rows : job[j] \in Unsettled} ELSE {}

(* The tick begins: pending_jobs, with the session they were read under.    *)
Wakes ==
    /\ poller.at = "asleep"
    /\ poller' = [at |-> IF Pending = {} THEN "idle" ELSE "reading",
                  session |-> Now, rows |-> Pending]
    /\ UNCHANGED <<sessionVars, dispatchVars, store, auditVars, acted>>

(* Mutant of StopsIfIdle: the claim is dropped on the tick's empty set.     *)
StopsUnchecked ==
    /\ poller.at = "idle"
    /\ poller' = [poller EXCEPT !.at = "off"]
    /\ UNCHANGED <<sessionVars, dispatchVars, store, auditVars, acted>>

(* release_job_poller_if_idle looks again, under the jobs lock.             *)
StopsIfIdle ==
    /\ poller.at = "idle"
    /\ poller' = [poller EXCEPT !.at = IF Pending = {} THEN "off" ELSE "asleep"]
    /\ UNCHANGED <<sessionVars, dispatchVars, store, auditVars, acted>>

(* Mutant of Ticks: every verdict is audited, applied or not.               *)
TicksCloseAll ==
    /\ poller.at = "reading"
    /\ \E resolved \in SUBSET poller.rows :
          /\ job' = [j \in Job |-> IF Current(poller.session)
                                      /\ j \in resolved \intersect store.rows
                                   THEN "settled" ELSE job[j]]
          /\ Close(resolved)
    /\ poller' = [poller EXCEPT !.at = "asleep", !.rows = {}]
    /\ UNCHANGED <<sessionVars, run, tries, url, store, opened, acted>>

(* The feed is read, settle_tick applies what it resolved: rows still held, *)
(* and only under the session they were read in.  A row not applied is not  *)
(* closed.                                                                  *)
Ticks ==
    /\ poller.at = "reading"
    /\ \E resolved \in SUBSET poller.rows :
          LET applied == IF Current(poller.session) /\ store.tenant = poller.session.tenant
                         THEN resolved \intersect store.rows ELSE {}
          IN  /\ job' = [j \in Job |-> IF j \in applied THEN "settled" ELSE job[j]]
              /\ Close(applied)
    /\ poller' = [poller EXCEPT !.at = "asleep", !.rows = {}]
    /\ UNCHANGED <<sessionVars, run, tries, url, store, opened, acted>>

-----------------------------------------------------------------------------
(* the operator, and the end of a session *)

(* "Clear finished": settled rows only.                                     *)
ClearHistory ==
    /\ store' = [store EXCEPT !.rows = {j \in @ : job[j] \notin Settled}]
    /\ UNCHANGED <<sessionVars, dispatchVars, poller, auditVars, acted>>

(* clear_jobs, after its bump: the rows go, the unsettled ones are closed.  *)
Clears ==
    /\ ClearStep
    /\ Close({j \in store.rows : job[j] \in Unsettled})
    /\ store' = NoStore
    /\ UNCHANGED <<dispatchVars, poller, opened, acted>>

Flows ==
    /\ FlowStep
    /\ UNCHANGED <<dispatchVars, store, poller, auditVars, acted>>

TaskStep(j) ==
    \/ Turn(j) \/ TurnTooLate(j)
    \/ Attempt(j) \/ AttemptRefused(j) \/ AttemptFails(j)
    \/ Accepted(j) \/ Ambiguous(j) \/ Rejected(j) \/ Retries(j)
    \/ Panics(j)

RunStep(r) ==
    \/ RunRefused(r) \/ Opens(r)
    \/ Appends(r) \/ AppendRefused(r) \/ Spawns(r)

PollerStep == Wakes \/ StopsIfIdle \/ Ticks

Next ==
    \/ \E r \in Run : RunStarts(r) \/ RunStep(r)
    \/ \E j \in Job : TaskStep(j)
    \/ PollerStep
    \/ ClearHistory
    \/ Clears
    \/ Flows

Spec == Init /\ [][Next]_vars

(* A running task, command or poller goes on: every await it makes ends (the *)
(* HTTP client times out, a rate limit's pause is capped, the poller's       *)
(* sleep is bounded), a waiter for a permit gets one (tokio's Semaphore is   *)
(* FIFO), and a session's end runs through.  A job is past its 45 minutes at *)
(* some time, and every tick after that settles it.                          *)
Settles(j) == Ticks /\ job'[j] = "settled" /\ job[j] # "settled"
Fairness ==
    /\ \A r \in Run : WF_vars(RunStep(r))
    /\ \A j \in Job : SF_vars(TaskStep(j)) /\ SF_vars(Settles(j))
    /\ WF_vars(PollerStep)
    /\ WF_vars(Clears)
    /\ \A s \in Saver : WF_vars(Flows /\ saving[s] \in {"published", "applied"}
                                       /\ saving'[s] # saving[s])

FairSpec == Spec /\ Fairness

-----------------------------------------------------------------------------
RunAt == {"idle", "planning", "sending", "appended", "done"}
JobAt == {"none"} \union Queued \union Unsettled \union Settled

TypeOK ==
    /\ SessionTypeOK
    /\ run \in [Run -> [at : RunAt, session : SessionId, label : Tenant]]
    /\ job \in [Job -> JobAt]
    /\ tries \in [Job -> 0 .. MaxRetries]
    /\ url \in [Job -> Tenant]
    /\ store \in [tenant : Tenant, rows : SUBSET Job]
    /\ poller \in [at : {"off", "asleep", "idle", "reading"},
                   session : SessionId, rows : SUBSET Job]
    /\ opened \subseteq Job
    /\ closes \in [Job -> Nat]
    /\ acted \in [Job -> Nat]

(* Every job with an opening record and no closing one is still somebody's  *)
(* to close: its batch is being sent, or it is an unsettled row of the      *)
(* store.  And no job is closed twice, or without having been opened,       *)
(* whether its outcome comes from its task, a tick, a refused append or the *)
(* end of the session (docs/design/actions.md, "every opening record gets a *)
(* close").                                                                 *)
NoJobForgotten ==
    \A j \in Job :
        /\ closes[j] <= IF j \in opened THEN 1 ELSE 0
        /\ j \in opened /\ closes[j] = 0 =>
              \/ run[RunOf(j)].at = "sending"
              \/ j \in store.rows /\ job[j] \in Unsettled

(* No lost wakeup: an unsettled row of the tenant in effect has a poller,   *)
(* or a run that has appended and is about to start one.                    *)
NoLostWakeup ==
    Pending # {} => poller.at # "off" \/ \E r \in Run : run[r].at = "appended"

(* The job store never shows a session's rows to the next one: each row is  *)
(* of the live session, or the session is being ended and the rows are      *)
(* about to go.                                                             *)
OnlyOwnRows ==
    \A j \in store.rows :
        \/ Current(run[RunOf(j)].session)
        \/ ClearDue
        \/ BumpDue

(* No action reaches its device twice, whatever is retried after a 429, a   *)
(* 401, a timeout or a panic; and a row that says the action was not sent   *)
(* or was refused is of a device it has not reached.                        *)
ActsOnce ==
    \A j \in Job :
        /\ acted[j] <= 1
        /\ job[j] \in {"none", "queued", "turn", "wire", "skipped", "failed"} => acted[j] = 0

Trail == [j \in Job |-> IF j \notin opened THEN "none"
                       ELSE IF closes[j] = 0 THEN "open" ELSE "closed"]
Audit == INSTANCE AuditTrail WITH trail <- Trail

(* The write path implements AuditTrail: each record once, and every        *)
(* opening one is closed in the end.                                        *)
KeepsTrail == Audit!Spec

-----------------------------------------------------------------------------
(* Why they hold: two strengthenings that are inductive, the second when    *)
(* nothing starts in the middle of a save.                                  *)

(* A job is in dispatch exactly while its batch is being sent.              *)
InDispatch ==
    \A j \in Job :
        /\ job[j] \in Queued => run[RunOf(j)].at = "sending"
        /\ run[RunOf(j)].at \in {"idle", "planning"} => job[j] = "none" /\ j \notin opened

(* A closing record is written when a job gets an outcome, or by whoever    *)
(* drops it without one; until then it is open.  Only a job that was opened *)
(* is ever without an outcome.                                              *)
ClosedWhenSettled ==
    \A j \in Job :
        /\ job[j] \in Queued \union Unsettled \union {"failed", "settled"} => j \in opened
        /\ job[j] \in Queued => closes[j] = 0
        /\ j \in opened => job[j] # "none"
        /\ j \in opened /\ job[j] \in Settled => closes[j] = 1
        /\ j \notin opened => closes[j] = 0
        /\ run[RunOf(j)].at = "sending" /\ job[j] \in Unsettled => closes[j] = 0
        /\ j \in store.rows => job[j] \notin Queued /\ run[RunOf(j)].at \in {"appended", "done"}
        /\ j \in store.rows /\ job[j] \in Unsettled => closes[j] = 0

(* What the poller is reading for has no outcome yet: nobody else settles.  *)
ReadsUnsettled == \A j \in poller.rows : job[j] \in Unsettled

(* This much holds whatever starts when.                                    *)
BatchInv ==
    /\ TypeOK
    /\ InDispatch
    /\ ClosedWhenSettled
    /\ ReadsUnsettled
    /\ ActsOnce

(* The rows are of the store's tenant, and are gone before a save that      *)
(* leaves it is over.                                                       *)
RowsHeld ==
    /\ \A r \in Run : run[r].at # "idle" => HeldBySaves(run[r].session)
    /\ \A j \in store.rows : run[RunOf(j)].session.tenant = store.tenant
    /\ \/ store.rows = {}
       \/ store.tenant = tenant
       \/ \E s \in Saver : saving[s] \notin Between

IInv ==
    /\ BatchInv
    /\ SessionInv
    /\ RowsHeld
    /\ NoJobForgotten
    /\ OnlyOwnRows
    /\ NoLostWakeup
=============================================================================
