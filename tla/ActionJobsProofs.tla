-------------------------- MODULE ActionJobsProofs ---------------------------
(* No action reaches a device twice, no opened job is forgotten, the store  *)
(* holds only the live session's rows and a row that waits has a poller,    *)
(* for every number of runs, devices, saves and sign-ins.                   *)
EXTENDS ActionJobs, SessionProofs

USE FirstAssumption, GrantAssumption, PermitAssumption, LimitAssumption DEF Grant, SessionId

RunCall == [at : RunAt, session : SessionId, label : Tenant]

(* The dummies of Init are well typed.                                      *)
LEMMA Start == NoSession \in SessionId /\ NoStore \in [tenant : Tenant, rows : SUBSET Job]
BY DEF NoSession, NoStore

(* A job is a pair, its run is a run.                                       *)
LEMMA JobHasRun == \A j \in Job : RunOf(j) \in Run
BY DEF Job, RunOf

(* Every step leaves every variable in its type.                            *)
LEMMA TypeStep == TypeOK /\ [Next]_vars => TypeOK'
<1> SUFFICES ASSUME TypeOK, [Next]_vars PROVE TypeOK'
  OBVIOUS
<1> USE DEF TypeOK, RunAt, JobAt, Queued, Unsettled, Settled, sessionVars, flowVars,
            dispatchVars, auditVars
<1>0. UNCHANGED sessionVars => SessionTypeOK'
  BY DEF SessionTypeOK
<1>1. Now \in SessionId
  BY DEF Now, SessionTypeOK
<1>2. ASSUME NEW js PROVE [j \in Job |-> IF j \in js THEN closes[j] + 1 ELSE closes[j]] \in [Job -> Nat]
  OBVIOUS
<1>3. ASSUME NEW r \in Run, RunStarts(r) PROVE TypeOK'
  <2>1. [run[r] EXCEPT !.at = "planning", !.session = Now] \in RunCall
    BY run[r] \in RunCall, <1>1 DEF RunCall
  <2> QED BY <2>1, <1>0, <1>3 DEF RunStarts, RunCall
<1>4. ASSUME NEW r \in Run, RunRefused(r) PROVE TypeOK'
  <2>1. [run[r] EXCEPT !.at = "done"] \in RunCall
    BY run[r] \in RunCall DEF RunCall
  <2> QED BY <2>1, <1>0, <1>4 DEF RunRefused, RunCall
<1>5. ASSUME NEW r \in Run, Opens(r) PROVE TypeOK'
  <2>1. [run[r] EXCEPT !.at = "sending", !.label = tenant] \in RunCall
    BY run[r] \in RunCall DEF RunCall, SessionTypeOK
  <2>2. run' \in [Run -> RunCall]
    BY <2>1, <1>5 DEF Opens, RunCall
  <2>3. job' \in [Job -> JobAt] /\ opened' \subseteq Job
    BY <1>5 DEF Opens, JobsOf
  <2> QED BY <2>2, <2>3, <1>0, <1>5 DEF Opens, RunCall
<1>e. ASSUME NEW j \in Job, NEW state \in JobAt, Ends(j, state), acted' \in [Job -> Nat]
      PROVE  TypeOK'
  BY <1>e, <1>0, <1>2 DEF Ends, Close
<1>6. ASSUME NEW j \in Job, Turn(j) PROVE TypeOK'
  BY <1>6, <1>0 DEF Turn, SessionTypeOK
<1>7. ASSUME NEW j \in Job, TurnTooLate(j) \/ AttemptRefused(j) \/ AttemptFails(j) \/ Rejected(j)
      PROVE TypeOK'
  BY <1>e, <1>7 DEF TurnTooLate, AttemptRefused, AttemptFails, Rejected
<1>8. ASSUME NEW j \in Job, Attempt(j) PROVE TypeOK'
  BY <1>8, <1>0 DEF Attempt
<1>9. ASSUME NEW j \in Job, Accepted(j) PROVE TypeOK'
  BY <1>e, <1>9 DEF Accepted
<1>10. ASSUME NEW j \in Job, Ambiguous(j) PROVE TypeOK'
  BY <1>e, <1>10 DEF Ambiguous
<1>11. ASSUME NEW j \in Job, Retries(j) PROVE TypeOK'
  BY <1>11, <1>0 DEF Retries
<1>12. ASSUME NEW j \in Job, Panics(j) PROVE TypeOK'
  <2>1. Ends(j, "unknown")
    BY <1>12 DEF Panics
  <2>2. acted' \in [Job -> Nat]
    <3>1. CASE job[j] = "wire" BY <1>12, <3>1 DEF Panics
    <3>2. CASE job[j] # "wire" BY <1>12, <3>2 DEF Panics
    <3> QED BY <3>1, <3>2
  <2> QED BY <2>1, <2>2, <1>e
<1>13. ASSUME NEW r \in Run, Appends(r) PROVE TypeOK'
  <2>1. [run[r] EXCEPT !.at = "appended"] \in RunCall
    BY run[r] \in RunCall DEF RunCall
  <2>2. store' \in [tenant : Tenant, rows : SUBSET Job]
    BY <1>13 DEF Appends, JobsOf
  <2> QED BY <2>1, <2>2, <1>0, <1>13 DEF Appends, RunCall
<1>14. ASSUME NEW r \in Run, AppendRefused(r) PROVE TypeOK'
  <2>1. [run[r] EXCEPT !.at = "done"] \in RunCall
    BY run[r] \in RunCall DEF RunCall
  <2> QED BY <2>1, <1>0, <1>2, <1>14 DEF AppendRefused, Close, RunCall
<1>15. ASSUME NEW r \in Run, Spawns(r) PROVE TypeOK'
  <2>1. [run[r] EXCEPT !.at = "done"] \in RunCall
    BY run[r] \in RunCall DEF RunCall
  <2> QED BY <2>1, <1>0, <1>15 DEF Spawns, RunCall
<1>16. CASE Wakes
  <2>1. Pending \subseteq Job
    BY DEF Pending
  <2> QED BY <2>1, <1>0, <1>1, <1>16 DEF Wakes
<1>17. CASE StopsIfIdle BY <1>0, <1>17 DEF StopsIfIdle
<1>18. CASE Ticks
  <2>1. job' \in [Job -> JobAt] /\ closes' \in [Job -> Nat]
    BY <1>18, <1>2 DEF Ticks, Close
  <2> QED BY <2>1, <1>0, <1>18 DEF Ticks
<1>19. CASE ClearHistory BY <1>0, <1>19 DEF ClearHistory
<1>20. CASE Clears BY <1>2, <1>20, SessionTypeStep, Start DEF Clears, Close, SessionStep
<1>21. CASE Flows BY <1>21, SessionTypeStep DEF Flows, SessionStep
<1>22. CASE UNCHANGED vars BY <1>0, <1>22 DEF vars
<1> QED
  BY <1>3, <1>4, <1>5, <1>6, <1>7, <1>8, <1>9, <1>10, <1>11, <1>12, <1>13, <1>14, <1>15,
     <1>16, <1>17, <1>18, <1>19, <1>20, <1>21, <1>22
  DEF Next, RunStep, TaskStep, PollerStep

-----------------------------------------------------------------------------
(* A dispatch task moves one job, which was in dispatch, and writes its     *)
(* closing record if that is its outcome; nothing else changes but where    *)
(* its request goes and whether it arrived.                                 *)
LEMMA TaskMoves ==
    ASSUME TypeOK, NEW j \in Job, TaskStep(j)
    PROVE  /\ job[j] \in Queued
           /\ \E state \in Queued \union Unsettled \union {"failed", "skipped"} :
                 /\ job' = [job EXCEPT ![j] = state]
                 /\ closes' = [k \in Job |-> IF k = j /\ state \in Settled
                                             THEN closes[k] + 1 ELSE closes[k]]
           /\ UNCHANGED <<sessionVars, run, store, poller, opened>>
<1> USE DEF Queued, Unsettled, Settled, auditVars
<1> DEFINE Moves(state) ==
        /\ job' = [job EXCEPT ![j] = state]
        /\ closes' = [k \in Job |-> IF k = j /\ state \in Settled
                                    THEN closes[k] + 1 ELSE closes[k]]
<1>0. closes = [k \in Job |-> closes[k]]
  BY DEF TypeOK
<1>1. ASSUME NEW state \in Queued \union Unsettled \union {"failed", "skipped"}, Ends(j, state)
      PROVE  Moves(state) /\ UNCHANGED <<sessionVars, run, store, poller, opened>>
  BY <1>0, <1>1 DEF Ends, Close
<1>2. ASSUME UNCHANGED closes, NEW state \in Queued, job' = [job EXCEPT ![j] = state]
      PROVE  Moves(state)
  BY <1>0, <1>2
<1>3. CASE Turn(j) BY <1>2, <1>3 DEF Turn
<1>4. CASE TurnTooLate(j) BY <1>1, <1>4 DEF TurnTooLate
<1>5. CASE Attempt(j) BY <1>2, <1>5 DEF Attempt
<1>6. CASE AttemptRefused(j) BY <1>1, <1>6 DEF AttemptRefused
<1>7. CASE AttemptFails(j) BY <1>1, <1>7 DEF AttemptFails
<1>8. CASE Accepted(j) BY <1>1, <1>8 DEF Accepted
<1>9. CASE Ambiguous(j) BY <1>1, <1>9 DEF Ambiguous
<1>10. CASE Rejected(j) BY <1>1, <1>10 DEF Rejected
<1>11. CASE Retries(j) BY <1>2, <1>11 DEF Retries
<1>12. CASE Panics(j) BY <1>1, <1>12 DEF Panics
<1> QED
  BY <1>3, <1>4, <1>5, <1>6, <1>7, <1>8, <1>9, <1>10, <1>11, <1>12 DEF TaskStep

(* A task's step keeps the batch in order.                                  *)
LEMMA TaskKeepsBatch ==
    ASSUME BatchInv, NEW j \in Job, TaskStep(j)
    PROVE  InDispatch' /\ ClosedWhenSettled' /\ ReadsUnsettled' /\ ActsOnce'
<1> USE DEF Queued, Unsettled, Settled
<1>0. /\ TypeOK /\ InDispatch /\ ClosedWhenSettled /\ ReadsUnsettled /\ ActsOnce
      /\ job \in [Job -> JobAt] /\ acted \in [Job -> Nat] /\ closes \in [Job -> Nat]
  BY DEF BatchInv, TypeOK
<1>1. /\ job[j] \in Queued
      /\ UNCHANGED <<sessionVars, run, store, poller, opened>>
  BY <1>0, TaskMoves
<1>2. PICK state \in Queued \union Unsettled \union {"failed", "skipped"} :
         /\ job' = [job EXCEPT ![j] = state]
         /\ closes' = [k \in Job |-> IF k = j /\ state \in Settled
                                     THEN closes[k] + 1 ELSE closes[k]]
  BY <1>0, TaskMoves
<1>3. /\ job'[j] = state /\ \A k \in Job \ {j} : job'[k] = job[k]
      /\ closes'[j] = IF state \in Settled THEN closes[j] + 1 ELSE closes[j]
      /\ \A k \in Job \ {j} : closes'[k] = closes[k]
  BY <1>0, <1>2
<1>4. InDispatch'
  BY <1>0, <1>1, <1>3 DEF InDispatch
<1>5. ClosedWhenSettled'
  BY <1>0, <1>1, <1>3 DEF ClosedWhenSettled, InDispatch
<1>6. ReadsUnsettled'
  BY <1>0, <1>1, <1>3 DEF ReadsUnsettled, TypeOK
<1>7. ActsOnce'
  <2>1. CASE UNCHANGED acted
    BY <1>0, <1>1, <1>3, <2>1 DEF ActsOnce
  <2>2. ASSUME ~UNCHANGED acted
        PROVE  /\ job[j] = "wire"
               /\ job' = [job EXCEPT ![j] = "running"] \/ job' = [job EXCEPT ![j] = "unknown"]
               /\ \E n \in {0, 1} : acted' = [acted EXCEPT ![j] = @ + n]
    <3>1. CASE Accepted(j) BY <3>1 DEF Accepted, Ends
    <3>2. CASE Ambiguous(j) BY <3>2 DEF Ambiguous, Ends
    <3>3. CASE Panics(j) BY <2>2, <3>3 DEF Panics, Ends
    <3> QED
      BY <2>2, <3>1, <3>2, <3>3 DEF TaskStep, Turn, TurnTooLate, Attempt, AttemptRefused,
         AttemptFails, Rejected, Retries
  <2> QED BY <1>0, <2>1, <2>2 DEF ActsOnce
<1> QED BY <1>4, <1>5, <1>6, <1>7

(* A tick applies some of what it read for, and only to rows still held.    *)
LEMMA TickApplies ==
    ASSUME Ticks
    PROVE  \E applied \in SUBSET (poller.rows \intersect store.rows) :
             /\ job' = [j \in Job |-> IF j \in applied THEN "settled" ELSE job[j]]
             /\ closes' = [j \in Job |-> IF j \in applied THEN closes[j] + 1 ELSE closes[j]]
<1> DEFINE Applied(resolved) ==
        IF Current(poller.session) /\ store.tenant = poller.session.tenant
        THEN resolved \intersect store.rows ELSE {}
<1>1. PICK resolved \in SUBSET poller.rows :
         /\ job' = [j \in Job |-> IF j \in Applied(resolved) THEN "settled" ELSE job[j]]
         /\ closes' = [j \in Job |-> IF j \in Applied(resolved) THEN closes[j] + 1
                                                                ELSE closes[j]]
  BY DEF Ticks, Close
<1>2. Applied(resolved) \in SUBSET (poller.rows \intersect store.rows)
  OBVIOUS
<1> HIDE DEF Applied
<1> QED BY <1>1, <1>2

(* Every step keeps the batch in order.                                     *)
LEMMA BatchStep == BatchInv /\ [Next]_vars => BatchInv'
<1> DEFINE Parts == InDispatch /\ ClosedWhenSettled /\ ReadsUnsettled /\ ActsOnce
<1> SUFFICES ASSUME BatchInv, [Next]_vars PROVE Parts'
  BY TypeStep DEF BatchInv
<1> USE DEF InDispatch, ClosedWhenSettled, ReadsUnsettled, ActsOnce, Queued, Unsettled, Settled
<1>0. /\ Parts
      /\ job \in [Job -> JobAt] /\ closes \in [Job -> Nat] /\ poller.rows \subseteq Job
      /\ store.rows \subseteq Job
      /\ run \in [Run -> RunCall]
  BY DEF BatchInv, TypeOK, RunCall
<1>1. ASSUME NEW j \in Job, TaskStep(j) PROVE Parts'
  BY <1>1, TaskKeepsBatch
<1>2. ASSUME NEW r \in Run,
             \/ run[r].at = "idle" /\ run'[r].at = "planning"
             \/ run[r].at \in {"planning", "appended"} /\ run'[r].at = "done",
             \A other \in Run \ {r} : run'[other] = run[other],
             UNCHANGED <<job, store, opened, closes, acted>>,
             poller'.rows = poller.rows
      PROVE  Parts'
  <2>1. InDispatch'
    BY <1>0, <1>2, JobHasRun
  <2>2. ClosedWhenSettled'
    BY <1>0, <1>2, JobHasRun
  <2>3. ReadsUnsettled' /\ ActsOnce'
    BY <1>0, <1>2
  <2> QED BY <2>1, <2>2, <2>3
<1>3. ASSUME NEW r \in Run, RunStarts(r) PROVE Parts'
  <2>1. /\ run[r].at = "idle" /\ run'[r].at = "planning"
        /\ \A other \in Run \ {r} : run'[other] = run[other]
    BY <1>0, <1>3 DEF RunStarts, RunCall
  <2> QED BY <1>2, <1>3, <2>1 DEF RunStarts, auditVars
<1>4. ASSUME NEW r \in Run, RunRefused(r) PROVE Parts'
  <2>1. /\ run[r].at = "planning" /\ run'[r].at = "done"
        /\ \A other \in Run \ {r} : run'[other] = run[other]
    BY <1>0, <1>4 DEF RunRefused, RunCall
  <2> QED BY <1>2, <1>4, <2>1 DEF RunRefused, auditVars
<1>5. ASSUME NEW r \in Run, Spawns(r) PROVE Parts'
  <2>1. /\ run[r].at = "appended" /\ run'[r].at = "done"
        /\ \A other \in Run \ {r} : run'[other] = run[other]
    BY <1>0, <1>5 DEF Spawns, RunCall
  <2>2. poller'.rows = poller.rows
    BY <1>5 DEF Spawns, BatchInv, TypeOK
  <2> QED BY <1>2, <1>5, <2>1, <2>2 DEF Spawns, auditVars
<1>6. ASSUME NEW r \in Run, Opens(r) PROVE Parts'
  <2>1. PICK eligible \in (SUBSET JobsOf(r)) \ {{}} :
          /\ job' = [j \in Job |-> IF j \in eligible THEN "queued"
                                   ELSE IF j \in JobsOf(r) THEN "skipped" ELSE job[j]]
          /\ opened' = opened \union eligible
    BY <1>6 DEF Opens
  <2>2. /\ run[r].at = "planning" /\ run'[r].at = "sending"
        /\ \A other \in Run \ {r} : run'[other] = run[other]
        /\ UNCHANGED <<store, closes, acted, poller>>
    BY <1>0, <1>6 DEF Opens, RunCall
  <2>3. \A j \in JobsOf(r) : job[j] = "none" /\ j \notin opened /\ j \notin store.rows
    BY <1>0, <2>2 DEF JobsOf
  <2>4. /\ \A j \in eligible : job'[j] = "queued" /\ j \in opened'
        /\ \A j \in JobsOf(r) \ eligible : job'[j] = "skipped" /\ j \notin opened'
        /\ \A j \in Job \ JobsOf(r) : job'[j] = job[j] /\ (j \in opened' <=> j \in opened)
        /\ eligible \subseteq JobsOf(r) /\ JobsOf(r) \subseteq Job
    BY <2>1, <2>3 DEF JobsOf
  <2>5. /\ \A j \in JobsOf(r) : run'[RunOf(j)].at = "sending"
        /\ \A j \in Job \ JobsOf(r) : run'[RunOf(j)] = run[RunOf(j)]
    BY <2>2, JobHasRun DEF JobsOf
  <2>6. InDispatch'
    BY <1>0, <2>4, <2>5
  <2>7. ClosedWhenSettled'
    <3>1. ASSUME NEW j \in JobsOf(r)
          PROVE  job[j] = "none" /\ closes'[j] = 0 /\ j \notin store'.rows
      BY <1>0, <2>2, <2>3, <2>4
    <3> QED BY <1>0, <2>2, <2>4, <2>5, <3>1
  <2>8. ReadsUnsettled' /\ ActsOnce'
    BY <1>0, <2>2, <2>3, <2>4
  <2> QED BY <2>6, <2>7, <2>8
<1>7. ASSUME NEW r \in Run, Appends(r) PROVE Parts'
  <2>1. /\ AllReported(r)
        /\ store'.rows \subseteq store.rows \union JobsOf(r)
        /\ UNCHANGED <<job, opened, closes, acted, poller>>
    BY <1>0, <1>7 DEF Appends, auditVars
  <2>2. /\ run[r].at = "sending" /\ run'[r].at = "appended"
        /\ \A other \in Run \ {r} : run'[other] = run[other]
    BY <1>0, <1>7 DEF Appends, RunCall, AllReported
  <2>3. /\ \A j \in JobsOf(r) : RunOf(j) = r /\ job[j] \notin Queued
        /\ \A j \in Job \ JobsOf(r) : RunOf(j) # r
    BY <2>1 DEF JobsOf, AllReported
  <2>4. InDispatch'
    BY <1>0, <2>1, <2>2, <2>3, JobHasRun
  <2>5. ClosedWhenSettled'
    BY <1>0, <2>1, <2>2, <2>3, JobHasRun
  <2>6. ReadsUnsettled' /\ ActsOnce'
    BY <1>0, <2>1
  <2> QED BY <2>4, <2>5, <2>6
<1>8. ASSUME NEW r \in Run, AppendRefused(r) PROVE Parts'
  <2>1. /\ AllReported(r)
        /\ UNCHANGED <<job, opened, store, acted, poller>>
        /\ closes' = [j \in Job |-> IF j \in {k \in JobsOf(r) : job[k] \in Unsettled}
                                    THEN closes[j] + 1 ELSE closes[j]]
    BY <1>8 DEF AppendRefused, Close
  <2>2. /\ run[r].at = "sending" /\ run'[r].at = "done"
        /\ \A other \in Run \ {r} : run'[other] = run[other]
    BY <1>0, <1>8 DEF AppendRefused, RunCall, AllReported
  <2>3. /\ \A j \in JobsOf(r) : RunOf(j) = r /\ job[j] \notin Queued /\ j \notin store.rows
        /\ \A j \in Job \ JobsOf(r) : RunOf(j) # r /\ closes'[j] = closes[j]
        /\ \A j \in JobsOf(r) : job[j] \notin Unsettled => closes'[j] = closes[j]
    BY <1>0, <2>1, <2>2 DEF JobsOf, AllReported
  <2>4. InDispatch'
    BY <1>0, <2>1, <2>2, <2>3, JobHasRun
  <2>5. ClosedWhenSettled'
    BY <1>0, <2>1, <2>2, <2>3, JobHasRun
  <2>6. ReadsUnsettled' /\ ActsOnce'
    BY <1>0, <2>1
  <2> QED BY <2>4, <2>5, <2>6
<1>9. CASE Wakes \/ StopsIfIdle
  <2>1. UNCHANGED <<run, job, store, opened, closes, acted>>
    BY <1>9 DEF Wakes, StopsIfIdle, dispatchVars, auditVars
  <2>2. poller'.rows = poller.rows \/ poller'.rows = Pending
    BY <1>9 DEF Wakes, StopsIfIdle, BatchInv, TypeOK
  <2>3. \A j \in Pending : job[j] \in Unsettled
    BY DEF Pending
  <2> QED BY <1>0, <2>1, <2>2, <2>3
<1>10. CASE Ticks
  <2>1. PICK applied \in SUBSET (poller.rows \intersect store.rows) :
          /\ job' = [j \in Job |-> IF j \in applied THEN "settled" ELSE job[j]]
          /\ closes' = [j \in Job |-> IF j \in applied THEN closes[j] + 1 ELSE closes[j]]
    BY <1>10, TickApplies
  <2>2. UNCHANGED <<run, store, opened, acted>> /\ poller'.rows = {}
    BY <1>10 DEF Ticks, BatchInv, TypeOK
  <2>3. /\ \A j \in applied : /\ job[j] \in Unsettled /\ job'[j] = "settled"
                              /\ j \in store.rows /\ closes[j] = 0 /\ closes'[j] = 1
        /\ \A j \in Job \ applied : job'[j] = job[j] /\ closes'[j] = closes[j]
    BY <1>0, <2>1
  <2>4. InDispatch' /\ ActsOnce'
    BY <1>0, <2>2, <2>3
  <2>5. ClosedWhenSettled'
    BY <1>0, <2>2, <2>3, JobHasRun
  <2> QED BY <2>2, <2>4, <2>5
<1>11. CASE Clears
  <2>1. /\ UNCHANGED <<run, job, opened, acted, poller>> /\ store'.rows = {}
        /\ closes' = [j \in Job |-> IF j \in {k \in store.rows : job[k] \in Unsettled}
                                    THEN closes[j] + 1 ELSE closes[j]]
    BY <1>11 DEF Clears, Close, NoStore, dispatchVars
  <2>2. \A j \in Job : closes'[j] # closes[j] =>
           j \in store.rows /\ job[j] \in Unsettled /\ run[RunOf(j)].at # "sending"
    BY <1>0, <2>1, JobHasRun
  <2>3. ClosedWhenSettled'
    BY <1>0, <2>1, <2>2, JobHasRun
  <2> QED BY <1>0, <2>1, <2>3
<1>12. CASE ClearHistory
  <2>1. UNCHANGED <<run, job, opened, closes, acted, poller>> /\ store'.rows \subseteq store.rows
    BY <1>12 DEF ClearHistory, BatchInv, TypeOK, dispatchVars, auditVars
  <2> QED BY <1>0, <2>1
<1>13. CASE Flows \/ UNCHANGED vars
  <2>1. UNCHANGED <<run, job, opened, closes, acted, poller, store>>
    BY <1>13 DEF Flows, vars, dispatchVars, auditVars
  <2> QED BY <1>0, <2>1
<1> QED
  BY <1>1, <1>3, <1>4, <1>5, <1>6, <1>7, <1>8, <1>9, <1>10, <1>11, <1>12, <1>13
  DEF Next, RunStep, PollerStep

-----------------------------------------------------------------------------
(* With no run begun inside a save, the rows are where their poller and     *)
(* their session's end will find them, after every step.                    *)
LEMMA RowsStep ==
    ASSUME ~StartsMidSave
    PROVE  IInv /\ [Next]_vars => IInv'
<1> DEFINE Parts == RowsHeld /\ NoJobForgotten /\ OnlyOwnRows /\ NoLostWakeup
<1> SUFFICES ASSUME IInv, [Next]_vars PROVE SessionInv' /\ Parts'
  BY BatchStep DEF IInv
<1> USE DEF Queued, Unsettled, Settled
<1>0. /\ Parts /\ SessionInv /\ TypeOK /\ InDispatch /\ ClosedWhenSettled /\ ReadsUnsettled
      /\ job \in [Job -> JobAt] /\ closes \in [Job -> Nat] /\ poller.rows \subseteq Job
      /\ store.rows \subseteq Job
      /\ run \in [Run -> RunCall]
      /\ \A r \in Run : run[r].session \in SessionId
  BY DEF IInv, BatchInv, TypeOK, RunCall
<1>u. ASSUME UNCHANGED sessionVars PROVE SessionInv'
  BY <1>0, <1>u DEF SessionInv, SessionTypeOK, SavesInTurn, GrantIsSaved, sessionVars, flowVars
<1> USE DEF HeldBySaves, BumpDue, ClearDue, Current, Now
<1>h. ASSUME UNCHANGED <<tenant, epoch, saving, signing, store>>,
             \A r \in Run : /\ run'[r].session = run[r].session
                            /\ run'[r].at # "idle" => run[r].at # "idle"
      PROVE  RowsHeld' /\ OnlyOwnRows'
  <2>1. RowsHeld'
    BY <1>0, <1>h, JobHasRun DEF RowsHeld
  <2>2. OnlyOwnRows'
    BY <1>0, <1>h, JobHasRun DEF OnlyOwnRows
  <2> QED BY <2>1, <2>2
<1>p. ASSUME UNCHANGED <<tenant, store>>, \A j \in store.rows : job'[j] = job[j]
      PROVE  Pending' = Pending
  <2>1. {j \in store.rows : job'[j] \in Unsettled} = {j \in store.rows : job[j] \in Unsettled}
    BY <1>p
  <2> HIDE DEF Unsettled
  <2>2. Pending' = IF store.tenant = tenant THEN {j \in store.rows : job'[j] \in Unsettled}
                                            ELSE {}
    BY <1>p DEF Pending
  <2> QED BY <2>1, <2>2 DEF Pending
<1>1. ASSUME NEW j \in Job, TaskStep(j) PROVE Parts' /\ UNCHANGED sessionVars
  <2>1. /\ job[j] \in Queued
        /\ UNCHANGED <<sessionVars, run, store, poller, opened>>
    BY <1>0, <1>1, TaskMoves
  <2>2. PICK state \in Queued \union Unsettled \union {"failed", "skipped"} :
           /\ job' = [job EXCEPT ![j] = state]
           /\ closes' = [k \in Job |-> IF k = j /\ state \in Settled
                                       THEN closes[k] + 1 ELSE closes[k]]
    BY <1>0, <1>1, TaskMoves
  <2>3. /\ j \notin store.rows /\ j \in opened /\ closes[j] = 0 /\ run[RunOf(j)].at = "sending"
        /\ closes'[j] \in {0, 1}
        /\ \A k \in Job \ {j} : closes'[k] = closes[k] /\ job'[k] = job[k]
    BY <1>0, <2>1, <2>2 DEF ClosedWhenSettled, InDispatch
  <2>4. RowsHeld' /\ OnlyOwnRows'
    BY <1>h, <2>1 DEF sessionVars, flowVars
  <2>5. NoJobForgotten'
    BY <1>0, <2>1, <2>3 DEF NoJobForgotten
  <2>6. Pending' = Pending
    <3>1. \A k \in store.rows : job'[k] = job[k]
      BY <1>0, <2>3
    <3> QED BY <1>p, <2>1, <3>1 DEF sessionVars
  <2>7. NoLostWakeup'
    BY <1>0, <2>1, <2>6 DEF NoLostWakeup
  <2> QED BY <2>1, <2>4, <2>5, <2>7
<1>2. ASSUME NEW r \in Run, RunStarts(r) PROVE Parts' /\ UNCHANGED sessionVars
  <2>1. /\ run[r].at = "idle" /\ run'[r].at = "planning" /\ run'[r].session = Now
        /\ \A other \in Run \ {r} : run'[other] = run[other]
        /\ \A s \in Saver : saving[s] \in Between
    BY <1>0, <1>2 DEF RunStarts, RunCall, Allowed, MayStart
  <2>2. UNCHANGED <<tenant, epoch, saving, signing, store, job, opened, closes, poller>>
    BY <1>2 DEF RunStarts, sessionVars, flowVars, auditVars
  <2>3. /\ \A j \in JobsOf(r) : j \notin store.rows /\ j \notin opened /\ RunOf(j) = r
        /\ \A j \in Job \ JobsOf(r) : RunOf(j) \in Run \ {r}
    BY <1>0, <2>1, JobHasRun DEF JobsOf, InDispatch, ClosedWhenSettled
  <2>4. RowsHeld'
    BY <1>0, <2>1, <2>2, <2>3, JobHasRun DEF RowsHeld, SessionInv, SessionTypeOK, Between
  <2>5. OnlyOwnRows'
    BY <1>0, <2>1, <2>2, <2>3 DEF OnlyOwnRows
  <2>6. NoJobForgotten'
    BY <1>0, <2>1, <2>2, <2>3 DEF NoJobForgotten
  <2>7. NoLostWakeup'
    BY <1>0, <1>p, <2>1, <2>2 DEF NoLostWakeup
  <2>8. UNCHANGED sessionVars
    BY <1>2 DEF RunStarts
  <2> QED BY <2>4, <2>5, <2>6, <2>7, <2>8
<1>3. ASSUME NEW r \in Run, RunRefused(r) \/ Spawns(r) PROVE Parts' /\ UNCHANGED sessionVars
  <2>1. /\ run[r].at \in {"planning", "appended"} /\ run'[r].at = "done"
        /\ run'[r].session = run[r].session
        /\ \A other \in Run \ {r} : run'[other] = run[other]
    BY <1>0, <1>3 DEF RunRefused, Spawns, RunCall
  <2>2. UNCHANGED <<sessionVars, store, job, opened, closes>>
    BY <1>3 DEF RunRefused, Spawns, auditVars
  <2>3. /\ run[r].at = "appended" => poller'.at # "off"
        /\ poller.at # "off" => poller'.at # "off"
    BY <1>0, <1>3 DEF RunRefused, Spawns, TypeOK
  <2>4. RowsHeld' /\ OnlyOwnRows'
    BY <1>h, <2>1, <2>2 DEF sessionVars, flowVars
  <2>5. NoJobForgotten'
    BY <1>0, <2>1, <2>2, JobHasRun DEF NoJobForgotten
  <2>6. NoLostWakeup'
    BY <1>0, <1>p, <2>1, <2>2, <2>3 DEF NoLostWakeup, sessionVars
  <2> QED BY <2>2, <2>4, <2>5, <2>6
<1>4. ASSUME NEW r \in Run, Opens(r) PROVE Parts' /\ UNCHANGED sessionVars
  <2>1. PICK eligible \in (SUBSET JobsOf(r)) \ {{}} :
          /\ job' = [j \in Job |-> IF j \in eligible THEN "queued"
                                   ELSE IF j \in JobsOf(r) THEN "skipped" ELSE job[j]]
          /\ opened' = opened \union eligible
    BY <1>4 DEF Opens
  <2>2. /\ run[r].at = "planning" /\ run'[r].at = "sending"
        /\ run'[r].session = run[r].session
        /\ \A other \in Run \ {r} : run'[other] = run[other]
        /\ UNCHANGED <<sessionVars, store, closes, poller>>
    BY <1>0, <1>4 DEF Opens, RunCall
  <2>3. /\ \A j \in JobsOf(r) : /\ j \notin opened /\ j \notin store.rows
                                /\ closes[j] = 0 /\ RunOf(j) = r
        /\ \A j \in Job \ JobsOf(r) : /\ RunOf(j) \in Run \ {r} /\ job'[j] = job[j]
                                      /\ (j \in opened' <=> j \in opened)
    BY <1>0, <2>1, <2>2, JobHasRun DEF JobsOf, InDispatch, ClosedWhenSettled
  <2>4. RowsHeld' /\ OnlyOwnRows'
    BY <1>h, <2>2 DEF sessionVars, flowVars
  <2>5. NoJobForgotten'
    BY <1>0, <2>1, <2>2, <2>3 DEF NoJobForgotten
  <2>6. NoLostWakeup'
    <3>1. \A j \in store.rows : job'[j] = job[j]
      BY <1>0, <2>3
    <3> QED BY <1>0, <1>p, <2>2, <3>1 DEF NoLostWakeup, sessionVars
  <2> QED BY <2>2, <2>4, <2>5, <2>6
<1>5. ASSUME NEW r \in Run, Appends(r) PROVE Parts' /\ UNCHANGED sessionVars
  <2>1. /\ AllReported(r) /\ run[r].session = Now
        /\ UNCHANGED <<sessionVars, job, opened, closes, poller>>
    BY <1>5 DEF Appends, auditVars
  <2>2. /\ run[r].at = "sending" /\ run'[r].at = "appended"
        /\ run'[r].session = run[r].session
        /\ \A other \in Run \ {r} : run'[other] = run[other]
    BY <1>0, <1>5 DEF Appends, RunCall, AllReported
  <2>3. \A s \in Saver : saving[s] \in Between
    BY <1>0, <2>1, <2>2 DEF RowsHeld
  <2>4. store.rows = {} \/ store.tenant = tenant
    BY <1>0, <2>3 DEF RowsHeld
  <2>5. PICK gone \in SUBSET (store.rows \union JobsOf(r)) :
          /\ \A j \in gone : job[j] \in Settled
          /\ store'.tenant = tenant /\ store'.rows = (store.rows \union JobsOf(r)) \ gone
    <3>1. (IF store.tenant = run[r].session.tenant THEN store.rows ELSE {}) = store.rows
      BY <2>1, <2>4
    <3> QED BY <1>5, <2>1, <3>1 DEF Appends, Trimmed
  <2>6. /\ \A j \in JobsOf(r) : RunOf(j) = r /\ j \in Job /\ job[j] \notin Queued
        /\ \A j \in Job \ JobsOf(r) : RunOf(j) \in Run \ {r}
    BY <2>1, JobHasRun DEF JobsOf, AllReported
  <2>7. RowsHeld'
    BY <1>0, <2>1, <2>2, <2>4, <2>5, <2>6, JobHasRun DEF RowsHeld, sessionVars, flowVars
  <2>8. OnlyOwnRows'
    BY <1>0, <2>1, <2>2, <2>5, <2>6 DEF OnlyOwnRows, sessionVars, flowVars
  <2>9. NoJobForgotten'
    <3>1. ASSUME NEW j \in Job, j \in opened, closes[j] = 0
          PROVE  run'[RunOf(j)].at = "sending" \/ (j \in store'.rows /\ job[j] \in Unsettled)
      <4>1. CASE j \in JobsOf(r)
        BY <1>0, <2>5, <2>6, <3>1, <4>1 DEF ClosedWhenSettled, JobAt
      <4>2. CASE j \notin JobsOf(r)
        <5>0. NoJobForgotten
          BY <1>0
        <5>1. run[RunOf(j)].at = "sending" \/ (j \in store.rows /\ job[j] \in Unsettled)
          BY <3>1, <5>0 DEF NoJobForgotten
        <5>2. run'[RunOf(j)] = run[RunOf(j)]
          BY <2>2, <2>6, <4>2
        <5>3. j \in store.rows /\ job[j] \in Unsettled => j \in store'.rows
          BY <2>5
        <5> QED BY <5>1, <5>2, <5>3
      <4> QED BY <4>1, <4>2
    <3> QED BY <1>0, <2>1, <3>1 DEF NoJobForgotten
  <2>10. NoLostWakeup'
    BY <2>2 DEF NoLostWakeup
  <2> QED BY <2>1, <2>7, <2>8, <2>9, <2>10
<1>6. ASSUME NEW r \in Run, AppendRefused(r) PROVE Parts' /\ UNCHANGED sessionVars
  <2>1. /\ AllReported(r)
        /\ UNCHANGED <<sessionVars, job, opened, store, poller>>
        /\ closes' = [j \in Job |-> IF j \in {k \in JobsOf(r) : job[k] \in Unsettled}
                                    THEN closes[j] + 1 ELSE closes[j]]
    BY <1>6 DEF AppendRefused, Close
  <2>2. /\ run[r].at = "sending" /\ run'[r].at = "done"
        /\ run'[r].session = run[r].session
        /\ \A other \in Run \ {r} : run'[other] = run[other]
    BY <1>0, <1>6 DEF AppendRefused, RunCall, AllReported
  <2>3. \A j \in JobsOf(r) : /\ j \in Job /\ RunOf(j) = r /\ job[j] \notin Queued
                             /\ j \in opened => closes'[j] = 1
                             /\ j \notin opened => closes'[j] = 0
    <3>1. ASSUME NEW j \in JobsOf(r)
          PROVE  j \in Job /\ RunOf(j) = r /\ job[j] \notin Queued /\ job[j] \in JobAt
      BY <1>0, <2>1 DEF JobsOf, AllReported
    <3>2. ASSUME NEW j \in JobsOf(r), j \in opened PROVE closes'[j] = 1
      BY <1>0, <2>1, <2>2, <3>1, <3>2 DEF ClosedWhenSettled, JobAt
    <3>3. ASSUME NEW j \in JobsOf(r), j \notin opened PROVE closes'[j] = 0
      BY <1>0, <2>1, <2>2, <3>1, <3>3 DEF ClosedWhenSettled
    <3> QED BY <3>1, <3>2, <3>3
  <2>4. \A j \in Job \ JobsOf(r) : RunOf(j) \in Run \ {r} /\ closes'[j] = closes[j]
    BY <1>0, <2>1, JobHasRun DEF JobsOf
  <2>5. RowsHeld' /\ OnlyOwnRows'
    BY <1>h, <2>1, <2>2 DEF sessionVars, flowVars
  <2>6. NoJobForgotten'
    <3>1. ASSUME NEW j \in JobsOf(r)
          PROVE  /\ closes'[j] <= IF j \in opened' THEN 1 ELSE 0
                 /\ j \in opened' => closes'[j] # 0
      <4>1. UNCHANGED opened
        BY <2>1
      <4>2. CASE j \in opened
        BY <2>3, <4>1, <4>2
      <4>3. CASE j \notin opened
        BY <2>3, <4>1, <4>3
      <4> QED BY <4>2, <4>3
    <3>2. ASSUME NEW j \in Job \ JobsOf(r) PROVE closes'[j] = closes[j] /\ run'[RunOf(j)] = run[RunOf(j)]
      BY <2>2, <2>4
    <3> QED BY <1>0, <2>1, <3>1, <3>2 DEF NoJobForgotten
  <2>7. NoLostWakeup'
    BY <1>0, <1>p, <2>1, <2>2 DEF NoLostWakeup, sessionVars
  <2> QED BY <2>1, <2>5, <2>6, <2>7
<1>7. ASSUME Wakes \/ StopsIfIdle PROVE Parts' /\ UNCHANGED sessionVars
  <2>1. UNCHANGED <<sessionVars, run, job, store, opened, closes>>
    BY <1>7 DEF Wakes, StopsIfIdle, dispatchVars, auditVars
  <2>2. Pending # {} => poller'.at # "off"
    BY <1>0, <1>7 DEF Wakes, StopsIfIdle, TypeOK
  <2>3. RowsHeld' /\ OnlyOwnRows'
    BY <1>h, <2>1 DEF sessionVars, flowVars
  <2>4. NoJobForgotten'
    BY <1>0, <2>1 DEF NoJobForgotten
  <2>5. NoLostWakeup'
    BY <1>p, <2>1, <2>2 DEF NoLostWakeup, sessionVars
  <2> QED BY <2>1, <2>3, <2>4, <2>5
<1>8. ASSUME Ticks PROVE Parts' /\ UNCHANGED sessionVars
  <2>1. PICK applied \in SUBSET (poller.rows \intersect store.rows) :
          /\ job' = [j \in Job |-> IF j \in applied THEN "settled" ELSE job[j]]
          /\ closes' = [j \in Job |-> IF j \in applied THEN closes[j] + 1 ELSE closes[j]]
    BY <1>8, TickApplies
  <2>2. UNCHANGED <<sessionVars, run, store, opened>> /\ poller'.at # "off"
    BY <1>0, <1>8 DEF Ticks, TypeOK
  <2>3. /\ \A j \in applied : job[j] \in Unsettled /\ j \in opened /\ closes'[j] = 1
        /\ \A j \in Job \ applied : job'[j] = job[j] /\ closes'[j] = closes[j]
    BY <1>0, <2>1 DEF ReadsUnsettled, ClosedWhenSettled
  <2>4. RowsHeld' /\ OnlyOwnRows'
    BY <1>h, <2>2 DEF sessionVars, flowVars
  <2>5. NoJobForgotten'
    BY <1>0, <2>2, <2>3 DEF NoJobForgotten
  <2>6. NoLostWakeup'
    BY <2>2 DEF NoLostWakeup
  <2> QED BY <2>2, <2>4, <2>5, <2>6
<1>9. ASSUME ClearHistory PROVE Parts' /\ UNCHANGED sessionVars
  <2>1. /\ UNCHANGED <<sessionVars, run, job, opened, closes, poller>>
        /\ store'.tenant = store.tenant /\ store'.rows = {j \in store.rows : job[j] \notin Settled}
    BY <1>0, <1>9 DEF ClearHistory, TypeOK, dispatchVars, auditVars
  <2>2. RowsHeld'
    BY <1>0, <2>1 DEF RowsHeld, sessionVars, flowVars
  <2>3. OnlyOwnRows'
    BY <1>0, <2>1 DEF OnlyOwnRows, sessionVars, flowVars
  <2>4. NoJobForgotten'
    BY <1>0, <2>1 DEF NoJobForgotten
  <2>5. NoLostWakeup'
    <3>1. Pending' # {} => Pending # {}
      BY <2>1 DEF Pending, sessionVars
    <3> QED BY <1>0, <2>1, <3>1 DEF NoLostWakeup
  <2> QED BY <2>1, <2>2, <2>3, <2>4, <2>5
<1>10. ASSUME UNCHANGED vars PROVE Parts' /\ UNCHANGED sessionVars
  <2>1. UNCHANGED <<sessionVars, run, job, store, opened, closes, poller>>
    BY <1>10 DEF vars, dispatchVars, auditVars
  <2>2. RowsHeld' /\ OnlyOwnRows'
    BY <1>h, <2>1 DEF sessionVars, flowVars
  <2>3. NoJobForgotten' /\ NoLostWakeup'
    BY <1>0, <1>p, <2>1 DEF NoJobForgotten, NoLostWakeup, sessionVars
  <2> QED BY <2>1, <2>2, <2>3
<1>11. ASSUME SessionStep, UNCHANGED run
       PROVE  /\ SessionInv'
              /\ \A r \in Run : run[r].at # "idle" => HeldBySaves(run[r].session)'
  <2>1. SessionInv'
    BY <1>0, <1>11, SessionInvStep
  <2>2. ASSUME NEW r \in Run, run[r].at # "idle" PROVE HeldBySaves(run[r].session)'
    <3>1. HeldBySaves(run[r].session) /\ run[r].session \in SessionId
      BY <1>0, <2>2 DEF RowsHeld
    <3>2. ASSUME NEW session \in SessionId, HeldBySaves(session) PROVE HeldBySaves(session)'
      BY <1>0, <1>11, <3>2, HeldStep
    <3> QED BY <1>11, <3>1, <3>2
  <2> QED BY <1>11, <2>1, <2>2
<1>12. ASSUME Clears PROVE SessionInv' /\ Parts'
  <2>1. /\ UNCHANGED <<run, job, opened, poller>> /\ store'.rows = {} /\ SessionStep
        /\ closes' = [j \in Job |-> IF j \in {k \in store.rows : job[k] \in Unsettled}
                                    THEN closes[j] + 1 ELSE closes[j]]
    BY <1>12 DEF Clears, Close, NoStore, dispatchVars, SessionStep
  <2>2. RowsHeld' /\ SessionInv'
    BY <1>0, <1>11, <2>1 DEF RowsHeld
  <2>3. OnlyOwnRows'
    BY <2>1 DEF OnlyOwnRows
  <2>4. NoJobForgotten'
    <3>1. ASSUME NEW j \in Job, j \in store.rows, job[j] \in Unsettled
          PROVE  closes'[j] = 1 /\ j \in opened
      BY <1>0, <2>1, <3>1 DEF ClosedWhenSettled
    <3>2. ASSUME NEW j \in Job, ~(j \in store.rows /\ job[j] \in Unsettled)
          PROVE  closes'[j] = closes[j]
      BY <2>1, <3>2
    <3> QED BY <1>0, <2>1, <3>1, <3>2 DEF NoJobForgotten
  <2>5. Pending' = {}
    BY <2>1 DEF Pending
  <2> QED BY <2>2, <2>3, <2>4, <2>5 DEF NoLostWakeup
<1>13. ASSUME Flows PROVE SessionInv' /\ Parts'
  <2>1. UNCHANGED <<run, job, store, opened, closes, poller>> /\ FlowStep /\ SessionStep
    BY <1>13 DEF Flows, dispatchVars, auditVars, SessionStep
  <2>2. DOMAIN saving = Saver
    BY <1>0 DEF TypeOK, SessionTypeOK
  <2>3. \/ UNCHANGED tenant /\ \A s \in Saver : saving'[s] \in Between => saving[s] \in Between
        \/ /\ \A s \in Saver : saving[s] \in Between
           /\ tenant' # tenant
           /\ \E s \in Saver : saving'[s] \notin Between
    BY <2>1, <2>2 DEF FlowStep, Publish, ApplySettings, SaveBumps, SignBumps, Logout, SignIn,
       Login, LoginFails, Restore, GrantDies, Between, flowVars
  <2>4. RowsHeld'
    BY <1>0, <1>11, <2>1, <2>3 DEF RowsHeld
  <2>5. OnlyOwnRows'
    BY <1>0, <2>1, LiveOrEnding DEF OnlyOwnRows, TypeOK
  <2>6. NoJobForgotten'
    BY <1>0, <2>1 DEF NoJobForgotten
  <2>7. NoLostWakeup'
    <3>1. Pending' # {} => Pending # {}
      BY <1>0, <2>1, <2>3 DEF Pending, RowsHeld
    <3> QED BY <1>0, <2>1, <3>1 DEF NoLostWakeup
  <2> QED BY <1>11, <2>1, <2>4, <2>5, <2>6, <2>7
<1> QED
  BY <1>u, <1>1, <1>2, <1>3, <1>4, <1>5, <1>6, <1>7, <1>8, <1>9, <1>10, <1>12, <1>13
  DEF Next, RunStep, PollerStep

-----------------------------------------------------------------------------
(* The strengthened invariant holds at the start.                           *)
LEMMA Starts == Init => IInv
<1> SUFFICES ASSUME Init PROVE IInv
  OBVIOUS
<1> USE DEF Queued, Unsettled, Settled
<1>1. SessionInv /\ SessionTypeOK
  BY SessionStarts DEF Init, SessionInv
<1>2. TypeOK
  BY <1>1, Start DEF Init, TypeOK, RunAt, JobAt
<1>3. /\ \A r \in Run : run[r].at = "idle"
      /\ \A j \in Job : job[j] = "none" /\ closes[j] = 0 /\ acted[j] = 0
      /\ store.rows = {} /\ poller.rows = {} /\ opened = {}
  BY DEF Init, NoStore
<1>4. InDispatch /\ ClosedWhenSettled /\ ReadsUnsettled /\ ActsOnce
  BY <1>3, JobHasRun DEF InDispatch, ClosedWhenSettled, ReadsUnsettled, ActsOnce
<1>5. RowsHeld /\ NoJobForgotten /\ OnlyOwnRows
  BY <1>3 DEF RowsHeld, NoJobForgotten, OnlyOwnRows
<1>6. NoLostWakeup
  BY <1>3 DEF NoLostWakeup, Pending
<1> QED BY <1>1, <1>2, <1>4, <1>5, <1>6 DEF IInv, BatchInv

(* The type invariant, of every run of ActionJobs.                          *)
THEOREM TypeCorrect == Spec => []TypeOK
<1>1. Init => TypeOK
  BY Starts DEF IInv, BatchInv
<1> QED BY <1>1, TypeStep, PTL DEF Spec

(* No action reaches its device twice, and no row claims that an action     *)
(* that did reach it was not sent: whatever is retried, panics, or ends the *)
(* session, and whenever the operator starts what.                          *)
THEOREM NeverActsTwice == Spec => []ActsOnce
<1>1. Init => BatchInv
  BY Starts DEF IInv
<1>2. BatchInv => ActsOnce
  BY DEF BatchInv
<1> QED BY <1>1, <1>2, BatchStep, PTL DEF Spec

(* The invariant that is inductive when no run is begun inside a save.      *)
LEMMA Inductive ==
    ASSUME ~StartsMidSave
    PROVE  Spec => []IInv
<1>1. IInv /\ [Next]_vars => IInv'
  BY RowsStep
<1> QED BY <1>1, Starts, PTL DEF Spec

(* Every job with an opening record has had its one closing record, or is   *)
(* still somebody's to close, if no run is begun inside a save.             *)
THEOREM EveryJobIsSomebodys ==
    ASSUME ~StartsMidSave
    PROVE  Spec => []NoJobForgotten
<1>1. IInv => NoJobForgotten
  BY DEF IInv
<1> QED BY <1>1, Inductive, PTL

(* The job store holds the live session's rows only, or is about to be      *)
(* emptied.                                                                 *)
THEOREM RowsAreTheSessions ==
    ASSUME ~StartsMidSave
    PROVE  Spec => []OnlyOwnRows
<1>1. IInv => OnlyOwnRows
  BY DEF IInv
<1> QED BY <1>1, Inductive, PTL

(* A row that waits for its outcome has a poller, or is about to get one.   *)
THEOREM RowsArePolled ==
    ASSUME ~StartsMidSave
    PROVE  Spec => []NoLostWakeup
<1>1. IInv => NoLostWakeup
  BY DEF IInv
<1> QED BY <1>1, Inductive, PTL

-----------------------------------------------------------------------------
(* Closing records written for jobs that are open close them in the trail.  *)
LEMMA ClosesInTrail ==
    ASSUME TypeOK, NEW js \in SUBSET opened, \A j \in js : closes[j] = 0, UNCHANGED opened,
           closes' = [j \in Job |-> IF j \in js THEN closes[j] + 1 ELSE closes[j]]
    PROVE  Audit!Next \/ UNCHANGED Trail
<1>0. js \subseteq Job /\ closes \in [Job -> Nat]
  BY DEF TypeOK
<1>1. CASE js = {}
  <2>1. closes' = closes
    BY <1>0, <1>1
  <2> QED BY <2>1 DEF Trail
<1>2. CASE js # {}
  <2>1. \A j \in js : Trail[j] = "open"
    BY <1>0 DEF Trail
  <2>2. Trail' = [j \in Job |-> IF j \notin opened THEN "none"
                                ELSE IF closes'[j] = 0 THEN "open" ELSE "closed"]
    BY DEF Trail
  <2>3. \A j \in Job : closes'[j] = 0 <=> closes[j] = 0 /\ j \notin js
    BY <1>0
  <2>4. Trail' = [j \in Job |-> IF j \in js THEN "closed" ELSE Trail[j]]
    BY <1>0, <2>2, <2>3 DEF Trail
  <2>5. Audit!Close(js)
    BY <1>2, <2>1, <2>4 DEF Audit!Close
  <2> QED BY <1>0, <2>5 DEF Audit!Next
<1> QED BY <1>1, <1>2

(* Every step of the write path is a step of the audit trail.               *)
LEMMA TrailStep == BatchInv /\ [Next]_vars => Audit!Next \/ UNCHANGED Trail
<1> SUFFICES ASSUME BatchInv, [Next]_vars PROVE Audit!Next \/ UNCHANGED Trail
  OBVIOUS
<1> USE DEF Queued, Unsettled, Settled
<1>0. /\ TypeOK /\ InDispatch /\ ClosedWhenSettled /\ ReadsUnsettled
      /\ job \in [Job -> JobAt] /\ closes \in [Job -> Nat] /\ poller.rows \subseteq Job
      /\ store.rows \subseteq Job /\ opened \subseteq Job
  BY DEF BatchInv, TypeOK
<1>1. ASSUME NEW j \in Job, TaskStep(j) PROVE Audit!Next \/ UNCHANGED Trail
  <2>1. job[j] \in Queued /\ UNCHANGED opened
    BY <1>0, <1>1, TaskMoves
  <2>2. j \in opened /\ closes[j] = 0
    BY <1>0, <2>1 DEF ClosedWhenSettled
  <2>3. PICK state \in Queued \union Unsettled \union {"failed", "skipped"} :
           closes' = [k \in Job |-> IF k = j /\ state \in Settled
                                   THEN closes[k] + 1 ELSE closes[k]]
    BY <1>0, <1>1, TaskMoves
  <2> DEFINE js == IF state \in Settled THEN {j} ELSE {}
  <2>4. closes' = [k \in Job |-> IF k \in js THEN closes[k] + 1 ELSE closes[k]]
    BY <2>3
  <2>5. js \subseteq opened /\ \A k \in js : closes[k] = 0
    BY <2>2
  <2> HIDE DEF js
  <2> QED BY <1>0, <2>1, <2>4, <2>5, ClosesInTrail
<1>2. ASSUME NEW r \in Run, Opens(r) PROVE Audit!Next \/ UNCHANGED Trail
  <2>1. PICK eligible \in (SUBSET JobsOf(r)) \ {{}} : opened' = opened \union eligible
    BY <1>2 DEF Opens
  <2>2. /\ \A j \in JobsOf(r) : j \in Job /\ j \notin opened /\ closes[j] = 0
        /\ eligible \subseteq JobsOf(r) /\ eligible # {} /\ UNCHANGED closes
    <3>1. run[r].at = "planning" /\ UNCHANGED closes
      BY <1>2 DEF Opens
    <3>2. \A j \in JobsOf(r) : j \in Job /\ j \notin opened /\ closes[j] = 0
      BY <1>0, <3>1 DEF JobsOf, InDispatch, ClosedWhenSettled
    <3>3. eligible \subseteq JobsOf(r) /\ eligible # {}
      OBVIOUS
    <3> QED BY <3>1, <3>2, <3>3
  <2>3. \A j \in eligible : Trail[j] = "none"
    BY <2>2 DEF Trail
  <2>4. Trail' = [j \in Job |-> IF j \in eligible THEN "open" ELSE Trail[j]]
    BY <2>1, <2>2 DEF Trail
  <2>5. Audit!Open(eligible)
    BY <2>2, <2>3, <2>4 DEF Audit!Open
  <2>6. eligible \in SUBSET Job
    BY <2>2
  <2> QED BY <2>5, <2>6 DEF Audit!Next
<1>3. ASSUME NEW r \in Run, AppendRefused(r) PROVE Audit!Next \/ UNCHANGED Trail
  <2> DEFINE js == {j \in JobsOf(r) : job[j] \in Unsettled}
  <2>1. /\ run[r].at = "sending" /\ UNCHANGED opened
        /\ closes' = [j \in Job |-> IF j \in js THEN closes[j] + 1 ELSE closes[j]]
    BY <1>3 DEF AppendRefused, Close, AllReported
  <2>2. js \subseteq opened /\ \A j \in js : closes[j] = 0
    BY <1>0, <2>1 DEF JobsOf, ClosedWhenSettled
  <2> HIDE DEF js
  <2> QED BY <1>0, <2>1, <2>2, ClosesInTrail
<1>4. CASE Ticks
  <2>1. PICK applied \in SUBSET (poller.rows \intersect store.rows) :
           closes' = [j \in Job |-> IF j \in applied THEN closes[j] + 1 ELSE closes[j]]
    BY <1>4, TickApplies
  <2>2. applied \subseteq opened /\ (\A j \in applied : closes[j] = 0) /\ UNCHANGED opened
    BY <1>0, <1>4 DEF Ticks, ReadsUnsettled, ClosedWhenSettled
  <2> QED BY <1>0, <2>1, <2>2, ClosesInTrail
<1>5. CASE Clears
  <2> DEFINE js == {j \in store.rows : job[j] \in Unsettled}
  <2>1. /\ UNCHANGED opened
        /\ closes' = [j \in Job |-> IF j \in js THEN closes[j] + 1 ELSE closes[j]]
    BY <1>5 DEF Clears, Close
  <2>2. js \subseteq opened /\ \A j \in js : closes[j] = 0
    BY <1>0 DEF ClosedWhenSettled
  <2> HIDE DEF js
  <2> QED BY <1>0, <2>1, <2>2, ClosesInTrail
<1>6. ASSUME UNCHANGED auditVars PROVE UNCHANGED Trail
  BY <1>6 DEF Trail, auditVars
<1> QED
  BY <1>1, <1>2, <1>3, <1>4, <1>5, <1>6
  DEF Next, RunStep, PollerStep, RunStarts, RunRefused, Appends, Spawns, Wakes, StopsIfIdle,
      ClearHistory, Flows, vars

(* The write path implements the audit trail's promise of order: a job is   *)
(* opened once and closed once, after it was opened.  (That it is closed in *)
(* the end is left to TLC.)                                                 *)
THEOREM ImplementsAuditTrail == Spec => Audit!InOrder
<1>1. Init => BatchInv /\ Audit!Init
  <2>1. Init => \A j \in Job : Trail[j] = "none"
    BY DEF Init, Trail
  <2> QED BY <2>1, Starts DEF IInv, Audit!Init, Trail, Init
<1>2. BatchInv /\ [Next]_vars => [Audit!Next]_Trail
  BY TrailStep
<1> QED BY <1>1, <1>2, BatchStep, PTL DEF Spec, Audit!InOrder
=============================================================================
