------------------------------ MODULE AuditTrail ------------------------------
(***************************************************************************)
(* What the action audit log promises of the jobs in it: a job's opening   *)
(* "dispatching" record is written once, before anything is sent; it gets  *)
(* one closing record, and it always gets it.                              *)
(***************************************************************************)
CONSTANT Job

VARIABLE trail   \* per job: "none", "open" or "closed"

Init == trail = [j \in Job |-> "none"]

(* A batch writes its opening records in one go.                           *)
Open(js) ==
    /\ js # {}
    /\ \A j \in js : trail[j] = "none"
    /\ trail' = [j \in Job |-> IF j \in js THEN "open" ELSE trail[j]]

(* Records are closed one by one at dispatch, and together at a tick of the *)
(* poller or the end of a session.                                         *)
Close(js) ==
    /\ js # {}
    /\ \A j \in js : trail[j] = "open"
    /\ trail' = [j \in Job |-> IF j \in js THEN "closed" ELSE trail[j]]

Next == \E js \in SUBSET Job : Open(js) \/ Close(js)

EveryOpeningIsClosed == \A j \in Job : trail[j] = "open" ~> trail[j] = "closed"

InOrder == Init /\ [][Next]_trail
Spec == InOrder /\ EveryOpeningIsClosed
=============================================================================
