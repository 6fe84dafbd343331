--------------------------- MODULE ApprovalProofs ----------------------------
(* Approval is well typed, and an approval is used once, for what was shown *)
(* and under the session and grant it was given in, for every number of     *)
(* plans, runs, saves and sign-ins.                                         *)
(* And the action bar, where a plan comes from: what is sent is what was    *)
(* ticked for it, whatever changes between two steps.                       *)
EXTENDS Approval, SessionProofs, ActionBar, FiniteSetTheorems

USE FirstAssumption, GrantAssumption, PlanAssumption DEF Grant, SessionId

(* A call before it has started, and one that is over, is well typed.       *)
LEMMA Dummies == /\ NoSession \in SessionId
                 /\ Empty \in Slot
                 /\ Over \in PlanCall /\ Over \in RunCall
                 /\ NoCall \in PlanCall /\ NoCall \in RunCall
<1>1. NoSession \in SessionId
  BY DEF NoSession
<1>2. Empty \in Slot
  BY <1>1 DEF Empty, Slot
<1>3. NoGrant \in Grant \union {NoGrant} /\ FirstTenant \in Tenant
  OBVIOUS
<1>4. Over \in PlanCall /\ Over \in RunCall
  BY <1>1, <1>3 DEF Over, Fresh, PlanCall, RunCall
<1>5. NoCall \in PlanCall /\ NoCall \in RunCall
  BY <1>1, <1>3 DEF NoCall, Fresh, PlanCall, RunCall
<1> QED BY <1>1, <1>2, <1>4, <1>5

(* The strengthened invariant holds at the start.                           *)
LEMMA Starts == Init => IInv
<1> SUFFICES ASSUME Init PROVE IInv
  OBVIOUS
<1>1. SessionInv /\ SessionTypeOK
  BY SessionStarts DEF Init, SessionInv
<1>2. TypeOK
  BY <1>1, Dummies DEF Init, TypeOK, NoCall
<1>3. /\ \A p \in Plan : plan[p].at = "idle"
      /\ \A r \in Run : run[r].at = "idle"
      /\ slot = Empty /\ sent = {}
  BY DEF Init, NoCall, Fresh
<1>4. SlotIsShown /\ ConfirmedAsShown /\ UsedOnce /\ SentHasPlan /\ ApprovalIsLive
  BY <1>3 DEF SlotIsShown, ConfirmedAsShown, UsedOnce, Used, SentHasPlan, ApprovalIsLive,
              Confirmed
<1>5. AllHeld /\ SameGrant /\ ConfirmedInSession /\ SentAsApproved
  BY <1>3 DEF AllHeld, SameGrant, ConfirmedInSession, SentAsApproved, Confirmed
<1> QED BY <1>1, <1>2, <1>4, <1>5 DEF IInv, OnceInv

(* Every step leaves every variable in its type.                            *)
LEMMA TypeStep == TypeOK /\ [Next]_vars => TypeOK'
<1> SUFFICES ASSUME TypeOK, [Next]_vars PROVE TypeOK'
  OBVIOUS
<1> USE DEF TypeOK, Slot, sessionVars, flowVars
<1>1. Empty \in Slot /\ Over \in PlanCall /\ Over \in RunCall
  BY Dummies
<1>1a. Now \in SessionId
  BY DEF Now, SessionTypeOK
<1>2. UNCHANGED sessionVars => SessionTypeOK'
  BY DEF SessionTypeOK
<1>3. ASSUME NEW p \in Plan, PlanStarts(p) PROVE TypeOK'
  <2>1. \A q \in Request :
           [at |-> "building", token |-> NoPlan, request |-> q, default |-> "none",
            session |-> Now, url |-> FirstTenant, grant |-> auth.grant] \in PlanCall
    BY <1>1a DEF PlanCall, SessionTypeOK
  <2> QED BY <2>1, <1>2, <1>3 DEF PlanStarts
<1>4. ASSUME NEW p \in Plan, PlanStores(p) PROVE TypeOK'
  <2>1. plan[p] \in PlanCall
    OBVIOUS
  <2>2. [plan[p] EXCEPT !.at = "shown", !.default = default] \in PlanCall
    BY <2>1 DEF PlanCall
  <2>3. [token |-> p, request |-> plan[p].request, default |-> default,
         session |-> plan[p].session] \in Slot
    BY <2>1 DEF PlanCall
  <2> QED BY <2>2, <2>3, <1>1, <1>2, <1>4 DEF PlanStores
<1>5. ASSUME NEW p \in Plan, PlanFails(p) PROVE TypeOK'
  BY <1>1, <1>2, <1>5 DEF PlanFails
<1>6. ASSUME NEW r \in Run, RunStarts(r) PROVE TypeOK'
  <2>1. \A q \in Request, token \in Plan \union {NoPlan} :
           [at |-> "building", token |-> token, request |-> q, default |-> "none",
            session |-> Now, url |-> FirstTenant, grant |-> NoGrant] \in RunCall
    BY <1>1a DEF RunCall
  <2> QED BY <2>1, <1>2, <1>6 DEF RunStarts, Shown
<1>7. ASSUME NEW r \in Run, RunConsumes(r) PROVE TypeOK'
  <2>1. [run[r] EXCEPT !.at = "queued", !.default = default] \in RunCall
    BY run[r] \in RunCall DEF RunCall
  <2> QED BY <2>1, <1>1, <1>2, <1>7 DEF RunConsumes
<1>8. ASSUME NEW r \in Run, RunFails(r) PROVE TypeOK'
  BY <1>1, <1>2, <1>8 DEF RunFails
<1>9. ASSUME NEW r \in Run, Turn(r) PROVE TypeOK'
  <2>1. [run[r] EXCEPT !.at = "asking", !.url = auth.tenant] \in RunCall
    BY run[r] \in RunCall DEF RunCall, SessionTypeOK
  <2> QED BY <2>1, <1>1, <1>2, <1>9 DEF Turn
<1>10. ASSUME NEW r \in Run, GetsToken(r) PROVE TypeOK'
  <2>1. [run[r] EXCEPT !.at = "armed", !.grant = auth.grant] \in RunCall
    BY run[r] \in RunCall DEF RunCall, SessionTypeOK
  <2> QED BY <2>1, <1>1, <1>2, <1>10 DEF GetsToken
<1>11. ASSUME NEW r \in Run, Sends(r) PROVE TypeOK'
  <2>1. [run[r] EXCEPT !.at = "waiting"] \in RunCall
    BY run[r] \in RunCall DEF RunCall
  <2>2. [run |-> r, token |-> run[r].token,
         request |-> run[r].request, default |-> run[r].default,
         url |-> run[r].url, grant |-> run[r].grant] \in Attempt
    BY run[r] \in RunCall DEF RunCall, Attempt
  <2> QED BY <2>1, <2>2, <1>1, <1>2, <1>11 DEF Sends
<1>12. ASSUME NEW r \in Run, Rejected(r) PROVE TypeOK'
  <2>1. [run[r] EXCEPT !.at = "asking", !.grant = NoGrant] \in RunCall
    BY run[r] \in RunCall DEF RunCall
  <2> QED BY <2>1, <1>1, <1>2, <1>12 DEF Rejected
<1>13. ASSUME NEW r \in Run, Replied(r) PROVE TypeOK'
  BY <1>1, <1>2, <1>13 DEF Replied
<1>14. CASE Expires BY <1>1, <1>2, <1>14 DEF Expires
<1>15. CASE ClearHistory BY <1>1, <1>2, <1>15 DEF ClearHistory
<1>16. CASE ChangeDefault BY <1>2, <1>16 DEF ChangeDefault
<1>17. CASE Clears BY SessionTypeStep, <1>1, <1>17 DEF Clears, SessionStep
<1>18. CASE Flows BY SessionTypeStep, <1>18 DEF Flows, SessionStep
<1>19. CASE UNCHANGED vars BY <1>2, <1>19 DEF vars
<1> QED
  BY <1>3, <1>4, <1>5, <1>6, <1>7, <1>8, <1>9, <1>10, <1>11, <1>12, <1>13, <1>14, <1>15,
     <1>16, <1>17, <1>18, <1>19 DEF Next

(* An approval is used once and is a live session's, after every step.      *)
LEMMA OnceStep == OnceInv /\ [Next]_vars => OnceInv'
<1> DEFINE Parts == /\ SlotIsShown /\ ConfirmedAsShown /\ UsedOnce /\ SentHasPlan
                    /\ ApprovalIsLive
<1> SUFFICES ASSUME OnceInv, [Next]_vars PROVE Parts'
  BY TypeStep DEF OnceInv
<1>0. TypeOK /\ TypeOK' /\ Parts
  BY TypeStep DEF OnceInv
<1>t. /\ plan \in [Plan -> PlanCall] /\ run \in [Run -> RunCall] /\ slot \in Slot
      /\ sent \subseteq Attempt
      /\ plan' \in [Plan -> PlanCall] /\ run' \in [Run -> RunCall] /\ slot' \in Slot
  BY <1>0 DEF TypeOK
<1> USE DEF SlotIsShown, ConfirmedAsShown, UsedOnce, Used, SentHasPlan, ApprovalIsLive,
            Confirmed, Current, Now, ClearDue, BumpDue, sessionVars, flowVars
<1>3. ASSUME NEW p \in Plan, PlanStarts(p) PROVE Parts'
  BY <1>0, <1>t, <1>3 DEF PlanStarts, PlanCall
<1>4. ASSUME NEW p \in Plan, PlanStores(p) PROVE Parts'
  <2>1. CASE Current(plan[p].session)
    <3>0. plan' = [plan EXCEPT ![p] = [@ EXCEPT !.at = "shown", !.default = default]]
      BY <1>4, <2>1 DEF PlanStores
    <3>1. /\ plan'[p].at = "shown" /\ plan'[p].default = default
          /\ plan'[p].request = plan[p].request /\ plan'[p].session = plan[p].session
          /\ \A q \in Plan \ {p} : plan'[q] = plan[q]
      BY <1>t, <3>0, plan[p] \in PlanCall DEF PlanCall
    <3>2. /\ UNCHANGED <<run, sent, sessionVars>> /\ plan[p].at = "building"
          /\ slot' = [token |-> p, request |-> plan[p].request, default |-> default,
                      session |-> plan[p].session]
      BY <1>4, <2>1 DEF PlanStores
    <3>3. SlotIsShown' /\ ApprovalIsLive'
      BY <2>1, <3>1, <3>2
    <3>4. ConfirmedAsShown' /\ SentHasPlan'
      BY <1>0, <3>1, <3>2
    <3>5. UsedOnce'
      BY <1>0, <3>1, <3>2
    <3> QED BY <3>3, <3>4, <3>5
  <2>2. CASE ~Current(plan[p].session)
    <3>1. /\ plan' = [plan EXCEPT ![p] = Over] /\ plan[p].at = "building"
          /\ UNCHANGED <<slot, run, sent, sessionVars>>
      BY <1>4, <2>2 DEF PlanStores
    <3>2. Over.at = "done"
      BY DEF Over, Fresh
    <3> QED BY <1>0, <1>t, <3>1, <3>2
  <2> QED BY <2>1, <2>2
<1>5. ASSUME NEW p \in Plan, PlanFails(p) PROVE Parts'
  BY <1>0, <1>t, <1>5 DEF PlanFails, PlanCall, Over, Fresh
<1>6. ASSUME NEW r \in Run, RunStarts(r) PROVE Parts'
  BY <1>0, <1>t, <1>6 DEF RunStarts, RunCall, Shown
<1>7. ASSUME NEW r \in Run, RunConsumes(r) PROVE Parts'
  BY <1>0, <1>t, <1>7 DEF RunConsumes, RunCall, Authorized, Over, Fresh, Empty
<1>8. ASSUME NEW r \in Run, RunFails(r) PROVE Parts'
  BY <1>0, <1>t, <1>8 DEF RunFails, RunCall, Over, Fresh
<1>9. ASSUME NEW r \in Run, Turn(r) PROVE Parts'
  BY <1>0, <1>t, <1>9 DEF Turn, RunCall, Over, Fresh
<1>10. ASSUME NEW r \in Run, GetsToken(r) PROVE Parts'
  BY <1>0, <1>t, <1>10 DEF GetsToken, RunCall, Over, Fresh
<1>11. ASSUME NEW r \in Run, Sends(r) PROVE Parts'
  <2>1. CASE Current(run[r].session)
    <3> DEFINE s == [run |-> r, token |-> run[r].token, request |-> run[r].request,
                     default |-> run[r].default, url |-> run[r].url, grant |-> run[r].grant]
    <3>1. /\ run'[r].at = "waiting" /\ run'[r].default = run[r].default
          /\ run'[r].request = run[r].request /\ run'[r].token = run[r].token
          /\ \A other \in Run \ {r} : run'[other] = run[other]
      BY <1>t, <1>11, <2>1 DEF Sends, RunCall
    <3>2. UNCHANGED <<plan, slot, sessionVars>> /\ run[r].at = "armed"
          /\ sent' = sent \union {s} /\ s.run = r /\ s.token = run[r].token
      BY <1>11, <2>1 DEF Sends
    <3> HIDE DEF s
    <3>3. SlotIsShown' /\ ApprovalIsLive'
      BY <1>0, <3>2
    <3>4. ConfirmedAsShown' /\ SentHasPlan'
      BY <1>0, <3>1, <3>2
    <3>5. \A other \in Run, p \in Plan : Used(other, p)' => Used(other, p)
      BY <3>1, <3>2
    <3>6. UsedOnce'
      BY <1>0, <3>2, <3>5
    <3> QED BY <3>3, <3>4, <3>6
  <2>2. CASE ~Current(run[r].session)
    <3>1. /\ run' = [run EXCEPT ![r] = Over] /\ run[r].at = "armed"
          /\ UNCHANGED <<slot, plan, sent, sessionVars>>
      BY <1>11, <2>2 DEF Sends
    <3>2. Over.at = "done"
      BY DEF Over, Fresh
    <3> QED BY <1>0, <1>t, <3>1, <3>2
  <2> QED BY <2>1, <2>2
<1>12. ASSUME NEW r \in Run, Rejected(r) PROVE Parts'
  BY <1>0, <1>t, <1>12 DEF Rejected, RunCall
<1>13. ASSUME NEW r \in Run, Replied(r) PROVE Parts'
  BY <1>0, <1>t, <1>13 DEF Replied, RunCall, Over, Fresh
<1>14. CASE Expires BY <1>0, <1>t, <1>14 DEF Expires, Empty
<1>15. CASE ClearHistory BY <1>0, <1>t, <1>15 DEF ClearHistory, Empty
<1>16. CASE ChangeDefault BY <1>0, <1>16 DEF ChangeDefault
<1>17. CASE Clears BY <1>0, <1>t, <1>17 DEF Clears, Empty
<1>18. CASE Flows
  <2>1. SlotIsShown' /\ ConfirmedAsShown' /\ UsedOnce' /\ SentHasPlan'
    BY <1>0, <1>18 DEF Flows
  <2>2. /\ UNCHANGED slot /\ FlowStep /\ ApprovalIsLive
        /\ DOMAIN saving = Saver /\ DOMAIN signing = Signer
    BY <1>0, <1>18 DEF Flows, TypeOK, SessionTypeOK
  <2>3. ASSUME NEW s \in Saver, Publish(s) \/ ApplySettings(s) PROVE ApprovalIsLive'
    BY <2>2, <2>3 DEF Publish, ApplySettings
  <2>4. ASSUME NEW s \in Saver, SaveBumps(s) PROVE ApprovalIsLive'
    BY <2>2, <2>4 DEF SaveBumps
  <2>5. ASSUME NEW g \in Signer, SignBumps(g) PROVE ApprovalIsLive'
    BY <2>2, <2>5 DEF SignBumps
  <2>6. ASSUME NEW g \in Signer, Logout(g) \/ SignIn(g) \/ Login(g) \/ LoginFails(g)
        PROVE ApprovalIsLive'
    BY <2>2, <2>6 DEF Logout, SignIn, Login, LoginFails
  <2>7. ASSUME Restore \/ GrantDies PROVE ApprovalIsLive'
    BY <2>2, <2>7 DEF Restore, GrantDies
  <2> QED BY <2>1, <2>2, <2>3, <2>4, <2>5, <2>6, <2>7 DEF FlowStep
<1>19. CASE UNCHANGED vars BY <1>0, <1>19 DEF vars
<1> QED
  BY <1>3, <1>4, <1>5, <1>6, <1>7, <1>8, <1>9, <1>10, <1>11, <1>12, <1>13, <1>14, <1>15,
     <1>16, <1>17, <1>18, <1>19 DEF Next

(* With no plan or run begun inside a save, a sign-in or a sign-out, what   *)
(* is sent is what was approved, where and as whom it was approved, after   *)
(* every step.                                                              *)
LEMMA ApprovedStep ==
    ASSUME ~StartsMidSave, ~StartsMidSign
    PROVE  IInv /\ [Next]_vars => IInv'
<1> DEFINE Parts == AllHeld /\ SameGrant /\ ConfirmedInSession /\ SentAsApproved
<1> SUFFICES ASSUME IInv, [Next]_vars PROVE SessionInv' /\ Parts'
  BY OnceStep DEF IInv
<1>0. OnceInv /\ SessionInv /\ Parts
  BY DEF IInv
<1>t. /\ plan \in [Plan -> PlanCall] /\ run \in [Run -> RunCall] /\ slot \in Slot
      /\ sent \subseteq Attempt /\ SlotIsShown /\ ConfirmedAsShown /\ SentHasPlan
  BY <1>0 DEF OnceInv, TypeOK
<1>s. /\ \A p \in Plan : plan[p].session \in SessionId
      /\ \A r \in Run : run[r].session \in SessionId
  BY <1>t DEF PlanCall, RunCall
<1> USE DEF Held, HeldBySaves, HeldBySigns, BumpDue, Current, Now
<1>u. ASSUME UNCHANGED sessionVars PROVE SessionInv'
  BY <1>0, <1>u DEF SessionInv, SessionTypeOK, SavesInTurn, GrantIsSaved, sessionVars, flowVars
<1>n. ASSUME Allowed PROVE Held(Now) /\ auth.grant # NoGrant
  BY <1>n, <1>0 DEF Allowed, MayStart, SessionInv, SessionTypeOK
<1>g. saved[auth.tenant] \in {auth.grant, NoGrant} \/ auth.grant = NoGrant
  BY <1>0 DEF SessionInv, GrantIsSaved
<1>3. ASSUME NEW p \in Plan, PlanStarts(p) PROVE Parts'
  <2>1. PICK q \in Request : plan' = [plan EXCEPT ![p] =
           [at |-> "building", token |-> NoPlan, request |-> q, default |-> "none",
            session |-> Now, url |-> FirstTenant, grant |-> auth.grant]]
    BY <1>3 DEF PlanStarts
  <2>2. /\ plan[p].at = "idle" /\ Allowed
        /\ UNCHANGED <<tenant, epoch, auth, saved, saving, aim, signing, slot, run, sent>>
    BY <1>3 DEF PlanStarts, sessionVars, flowVars
  <2>3. /\ plan'[p].at = "building" /\ plan'[p].session = Now /\ plan'[p].grant = auth.grant
        /\ \A other \in Plan \ {p} : plan'[other] = plan[other]
    BY <1>t, <2>1
  <2>5. AllHeld'
    <3>1. ASSUME NEW x \in Plan, plan'[x].at \in {"building", "shown"}
          PROVE Held(plan[x].session)'
      BY <3>1, <1>0, <1>n, <2>2, <2>3 DEF AllHeld
    <3> QED BY <3>1, <1>0, <2>2 DEF AllHeld
  <2>6. SameGrant'
    BY <1>0, <1>n, <1>g, <2>2, <2>3 DEF SameGrant
  <2>7. ConfirmedInSession'
    BY <1>0, <1>t, <2>2, <2>3 DEF ConfirmedInSession, ConfirmedAsShown
  <2>8. SentAsApproved'
    BY <1>0, <1>t, <2>2, <2>3 DEF SentAsApproved, SentHasPlan
  <2> QED BY <2>5, <2>6, <2>7, <2>8
<1>4. ASSUME NEW p \in Plan, PlanStores(p) \/ PlanFails(p) PROVE Parts'
  <2>1. /\ plan[p].at = "building"
        /\ UNCHANGED <<tenant, epoch, auth, saved, saving, aim, signing, run, sent>>
        /\ \/ plan' = [plan EXCEPT ![p] = [@ EXCEPT !.at = "shown", !.default = default]]
           \/ plan' = [plan EXCEPT ![p] = Over]
    BY <1>4 DEF PlanStores, PlanFails, sessionVars, flowVars
  <2>2. /\ \/ plan'[p].at = "done"
           \/ plan'[p].session = plan[p].session /\ plan'[p].grant = plan[p].grant
        /\ \A other \in Plan \ {p} : plan'[other] = plan[other]
    <3>1. Over.at = "done"
      BY DEF Over, Fresh
    <3>2. CASE plan' = [plan EXCEPT ![p] = Over]
      BY <1>t, <3>1, <3>2
    <3>3. CASE plan' = [plan EXCEPT ![p] = [@ EXCEPT !.at = "shown", !.default = default]]
      BY <1>t, <3>3, plan[p] \in PlanCall DEF PlanCall
    <3> QED BY <2>1, <3>2, <3>3
  <2>3. AllHeld'
    BY <1>0, <2>1, <2>2 DEF AllHeld
  <2>4. SameGrant'
    BY <1>0, <2>1, <2>2 DEF SameGrant
  <2>5. ConfirmedInSession' /\ SentAsApproved'
    BY <1>0, <1>t, <2>1, <2>2 DEF ConfirmedInSession, ConfirmedAsShown, SentAsApproved, SentHasPlan
  <2> QED BY <2>3, <2>4, <2>5
<1>5. ASSUME NEW r \in Run, RunStarts(r) PROVE Parts'
  <2>1. /\ Allowed
        /\ UNCHANGED <<tenant, epoch, auth, saved, saving, aim, signing, plan, slot, sent>>
    BY <1>5 DEF RunStarts, sessionVars, flowVars
  <2>2. /\ run'[r].at = "building" /\ run'[r].session = Now
        /\ \A other \in Run \ {r} : run'[other] = run[other]
    BY <1>t, <1>5 DEF RunStarts
  <2>3. AllHeld'
    BY <1>0, <1>n, <2>1, <2>2 DEF AllHeld
  <2>4. SameGrant' /\ SentAsApproved'
    BY <1>0, <2>1 DEF SameGrant, SentAsApproved
  <2>5. ConfirmedInSession'
    BY <1>0, <2>1, <2>2 DEF ConfirmedInSession, Confirmed
  <2> QED BY <2>3, <2>4, <2>5
<1>e. ASSUME NEW r \in Run, run' = [run EXCEPT ![r] = Over],
             UNCHANGED <<tenant, epoch, auth, saved, saving, aim, signing, plan, sent>>
      PROVE  Parts'
  <2>1. /\ run'[r].at = "done"
        /\ \A other \in Run \ {r} : run'[other] = run[other]
    BY <1>t, <1>e DEF Over, Fresh
  <2>2. AllHeld' /\ ConfirmedInSession'
    BY <1>0, <1>e, <2>1 DEF AllHeld, ConfirmedInSession, Confirmed
  <2>3. SameGrant' /\ SentAsApproved'
    BY <1>0, <1>e DEF SameGrant, SentAsApproved
  <2> QED BY <2>2, <2>3
<1>6. ASSUME NEW r \in Run, RunConsumes(r) PROVE Parts'
  <2>1. /\ run[r].at = "building"
        /\ UNCHANGED <<tenant, epoch, auth, saved, saving, aim, signing, plan, sent>>
        /\ run' = [run EXCEPT ![r] = IF Authorized(r)
                      THEN [@ EXCEPT !.at = "queued", !.default = default] ELSE Over]
    BY <1>6 DEF RunConsumes, sessionVars, flowVars
  <2>2. CASE ~Authorized(r)
    BY <1>e, <2>1, <2>2
  <2>3. CASE Authorized(r)
    <3>1. /\ run'[r].at = "queued" /\ run'[r].session = run[r].session
          /\ run'[r].token = run[r].token
          /\ \A other \in Run \ {r} : run'[other] = run[other]
      BY <1>t, <2>1, <2>3, run[r] \in RunCall DEF RunCall
    <3>2. plan[run[r].token].session = Now
      BY <1>t, <2>3 DEF Authorized, SlotIsShown
    <3>3. AllHeld'
      BY <1>0, <2>1, <3>1 DEF AllHeld, Confirmed
    <3>4. ConfirmedInSession'
      BY <1>0, <2>1, <3>1, <3>2 DEF ConfirmedInSession, Confirmed
    <3>5. SameGrant' /\ SentAsApproved'
      BY <1>0, <2>1 DEF SameGrant, SentAsApproved
    <3> QED BY <3>3, <3>4, <3>5
  <2> QED BY <2>2, <2>3
<1>7. ASSUME NEW r \in Run, RunFails(r) \/ Replied(r) PROVE Parts'
  BY <1>e, <1>7 DEF RunFails, Replied, sessionVars, flowVars
<1>q. ASSUME NEW r \in Run, run[r].at \in Confirmed, run'[r].at \in Confirmed,
             run'[r].session = run[r].session, run'[r].token = run[r].token,
             \A other \in Run \ {r} : run'[other] = run[other],
             UNCHANGED <<tenant, epoch, auth, saved, saving, aim, signing, plan>>,
             run[r].session = Now =>
                /\ run'[r].at # "queued" => run'[r].url = plan[run[r].token].session.tenant
                /\ run'[r].at = "armed" => run'[r].grant = plan[run[r].token].grant
      PROVE  AllHeld' /\ ConfirmedInSession' /\ SameGrant'
  <2>1. AllHeld'
    BY <1>0, <1>q DEF AllHeld
  <2>2. ConfirmedInSession'
    BY <1>0, <1>q DEF ConfirmedInSession
  <2>3. SameGrant'
    BY <1>0, <1>q DEF SameGrant
  <2> QED BY <2>1, <2>2, <2>3
<1>8. ASSUME NEW r \in Run, Turn(r) PROVE Parts'
  <2>1. /\ run[r].at = "queued"
        /\ UNCHANGED <<tenant, epoch, auth, saved, saving, aim, signing, plan, sent>>
        /\ run' = [run EXCEPT ![r] = IF Current(@.session)
                      THEN [@ EXCEPT !.at = "asking", !.url = auth.tenant] ELSE Over]
    BY <1>8 DEF Turn, sessionVars, flowVars
  <2>2. CASE ~Current(run[r].session)
    BY <1>e, <2>1, <2>2, <1>t
  <2>3. CASE Current(run[r].session)
    <3>1. run' = [run EXCEPT ![r] = [@ EXCEPT !.at = "asking", !.url = auth.tenant]]
      BY <2>1, <2>3, <1>t
    <3>2. /\ run'[r].at = "asking" /\ run'[r].session = run[r].session
          /\ run'[r].token = run[r].token /\ run'[r].url = auth.tenant
          /\ \A other \in Run \ {r} : run'[other] = run[other]
      BY <1>t, <3>1, run[r] \in RunCall DEF RunCall
    <3>3. auth.tenant = run[r].session.tenant /\ plan[run[r].token].session = run[r].session
      BY <1>0, <1>t, <2>1, <2>3
      DEF SessionInv, SavesInTurn, AllHeld, ConfirmedInSession, Confirmed, Between
    <3>4. AllHeld' /\ ConfirmedInSession' /\ SameGrant'
      BY <1>q, <2>1, <3>2, <3>3 DEF Confirmed
    <3> QED BY <1>0, <2>1, <3>4 DEF SentAsApproved
  <2> QED BY <2>2, <2>3
<1>9. ASSUME NEW r \in Run, GetsToken(r) PROVE Parts'
  <2> DEFINE Usable == auth.tenant = run[r].url /\ auth.grant # NoGrant
  <2>1. /\ run[r].at = "asking"
        /\ UNCHANGED <<tenant, epoch, auth, saved, saving, aim, signing, plan, sent>>
        /\ Usable => run' = [run EXCEPT ![r] = [@ EXCEPT !.at = "armed", !.grant = auth.grant]]
        /\ ~Usable => run' = [run EXCEPT ![r] = Over]
    BY <1>t, <1>9 DEF GetsToken, sessionVars, flowVars
  <2>2. CASE ~Usable
    BY <1>e, <2>1, <2>2
  <2>3. CASE Usable
    <3>1. /\ run'[r].at = "armed" /\ run'[r].session = run[r].session
          /\ run'[r].token = run[r].token /\ run'[r].url = run[r].url
          /\ run'[r].grant = auth.grant
          /\ \A other \in Run \ {r} : run'[other] = run[other]
      <4>1. run' = [run EXCEPT ![r] = [@ EXCEPT !.at = "armed", !.grant = auth.grant]]
        BY <2>1, <2>3
      <4> QED BY <1>t, <4>1, run[r] \in RunCall DEF RunCall
    <3>2. plan[run[r].token].at = "shown" /\ run[r].token \in Plan
      BY <1>t, <2>1 DEF ConfirmedAsShown, Confirmed
    <3>3. run[r].session = Now => /\ plan[run[r].token].session = Now
                                  /\ run[r].url = plan[run[r].token].session.tenant
                                  /\ auth.grant = plan[run[r].token].grant
      BY <1>0, <2>1, <2>3, <3>2 DEF ConfirmedInSession, SameGrant, Confirmed
    <3>4. AllHeld' /\ ConfirmedInSession' /\ SameGrant'
      BY <1>q, <2>1, <3>1, <3>3 DEF Confirmed
    <3> QED BY <1>0, <2>1, <3>4 DEF SentAsApproved
  <2> QED BY <2>2, <2>3
<1>10. ASSUME NEW r \in Run, Sends(r) PROVE Parts'
  <2>1. /\ run[r].at = "armed"
        /\ UNCHANGED <<tenant, epoch, auth, saved, saving, aim, signing, plan>>
    BY <1>10 DEF Sends, sessionVars, flowVars
  <2>2. CASE ~Current(run[r].session)
    BY <1>e, <1>10, <2>1, <2>2 DEF Sends
  <2>3. CASE Current(run[r].session)
    <3> DEFINE s == [run |-> r, token |-> run[r].token, request |-> run[r].request,
                     default |-> run[r].default, url |-> run[r].url, grant |-> run[r].grant]
    <3>1. run' = [run EXCEPT ![r] = [@ EXCEPT !.at = "waiting"]] /\ sent' = sent \union {s}
      BY <1>10, <2>3 DEF Sends
    <3>2. /\ run'[r].at = "waiting" /\ run'[r].session = run[r].session
          /\ run'[r].token = run[r].token /\ run'[r].url = run[r].url
          /\ \A other \in Run \ {r} : run'[other] = run[other]
      BY <1>t, <3>1, run[r] \in RunCall DEF RunCall
    <3>3. LET p == plan[run[r].token]
          IN  /\ run[r].token \in Plan /\ p.at = "shown"
              /\ run[r].request = p.request /\ run[r].default = p.default
              /\ run[r].url = p.session.tenant /\ run[r].grant = p.grant
      BY <1>0, <1>t, <2>1, <2>3 DEF ConfirmedInSession, ConfirmedAsShown, Confirmed
    <3>4. AllHeld' /\ ConfirmedInSession' /\ SameGrant'
      BY <1>q, <2>1, <3>2, <3>3 DEF Confirmed
    <3>5. SentAsApproved'
      BY <1>0, <2>1, <3>1, <3>3, NoPlan \notin Plan DEF SentAsApproved
    <3> QED BY <3>4, <3>5
  <2> QED BY <2>2, <2>3
<1>11. ASSUME NEW r \in Run, Rejected(r) PROVE Parts'
  <2>1. /\ run[r].at = "waiting"
        /\ UNCHANGED <<tenant, epoch, auth, saved, saving, aim, signing, plan, sent>>
        /\ run' = [run EXCEPT ![r] = [@ EXCEPT !.at = "asking", !.grant = NoGrant]]
    BY <1>11 DEF Rejected, sessionVars, flowVars
  <2>2. /\ run'[r].at = "asking" /\ run'[r].session = run[r].session
        /\ run'[r].token = run[r].token /\ run'[r].url = run[r].url
        /\ \A other \in Run \ {r} : run'[other] = run[other]
    BY <1>t, <2>1, run[r] \in RunCall DEF RunCall
  <2>3. run[r].session = Now => run[r].url = plan[run[r].token].session.tenant
    BY <1>0, <2>1 DEF ConfirmedInSession, Confirmed
  <2>4. AllHeld' /\ ConfirmedInSession' /\ SameGrant'
    BY <1>q, <2>1, <2>2, <2>3 DEF Confirmed
  <2> QED BY <1>0, <2>1, <2>4 DEF SentAsApproved
<1>12. ASSUME Expires \/ ClearHistory \/ ChangeDefault \/ UNCHANGED vars PROVE Parts'
  <2>1. UNCHANGED <<tenant, epoch, auth, saved, saving, aim, signing, plan, run, sent>>
    BY <1>12 DEF Expires, ClearHistory, ChangeDefault, vars, sessionVars, flowVars
  <2> QED BY <1>0, <2>1 DEF AllHeld, SameGrant, ConfirmedInSession, SentAsApproved
<1>13. ASSUME Clears \/ Flows PROVE SessionInv' /\ Parts'
  <2>1. SessionStep /\ UNCHANGED <<plan, run, sent>>
    BY <1>13 DEF Clears, Flows, SessionStep
  <2>2. SessionInv'
    BY <1>0, <2>1, SessionInvStep
  <2>3. ASSUME NEW session \in SessionId, Held(session)
        PROVE  /\ Held(session)'
               /\ Current(session)' =>
                     /\ Current(session)
                     /\ auth'.tenant = auth.tenant
                     /\ auth'.grant \in {auth.grant, saved[auth.tenant], NoGrant}
                     /\ saved'[auth.tenant] \in {saved[auth.tenant], NoGrant}
    BY <1>0, <2>1, <2>3, HeldStep, HeldBySignsStep
  <2>4. AllHeld'
    BY <1>0, <1>s, <2>1, <2>3 DEF AllHeld
  <2>5. SameGrant'
    BY <1>0, <1>s, <2>1, <2>3 DEF SameGrant, AllHeld
  <2>6. ConfirmedInSession'
    BY <1>0, <1>s, <2>1, <2>3 DEF ConfirmedInSession, AllHeld
  <2>7. SentAsApproved'
    BY <1>0, <2>1 DEF SentAsApproved
  <2> QED BY <2>2, <2>4, <2>5, <2>6, <2>7
<1>14. ASSUME UNCHANGED sessionVars, Parts' PROVE SessionInv' /\ Parts'
  BY <1>14, <1>u
<1> QED
  <2>1. CASE UNCHANGED sessionVars /\ ~(Clears \/ Flows)
    BY <2>1, <1>14, <1>3, <1>4, <1>5, <1>6, <1>7, <1>8, <1>9, <1>10, <1>11, <1>12 DEF Next
  <2>2. UNCHANGED sessionVars \/ Clears \/ Flows
    BY DEF Next, PlanStarts, PlanStores, PlanFails, RunStarts, RunConsumes, RunFails, Turn,
       GetsToken, Sends, Rejected, Replied, Expires, ClearHistory, ChangeDefault, vars
  <2> QED BY <1>13, <2>1, <2>2

(* The type invariant, of every run of Approval.                            *)
THEOREM TypeCorrect == Spec => []TypeOK
<1>1. Init => TypeOK
  BY Starts DEF IInv, OnceInv
<1> QED BY <1>1, TypeStep, PTL DEF Spec

(* A token confirms one run_action call: however plans, runs, saves and     *)
(* sign-ins interleave, whatever the operator starts when, all the attempts *)
(* made under one approval are of one run (consume_confirm_token takes the  *)
(* slot, whatever it then decides).                                         *)
THEOREM ApprovedOnce == Spec => []OneRunPerApproval
<1>1. Init => OnceInv
  BY Starts DEF IInv
<1>2. OnceInv => OneRunPerApproval
  BY DEF OnceInv, TypeOK, Attempt, UsedOnce, Used, SentHasPlan, OneRunPerApproval
<1> QED BY <1>1, <1>2, OnceStep, PTL DEF Spec

(* No approval is left in the slot for a session that is over.              *)
THEOREM ApprovalEndsWithItsSession == Spec => []ApprovalIsLive
<1>1. Init => OnceInv
  BY Starts DEF IInv
<1>2. OnceInv => ApprovalIsLive
  BY DEF OnceInv
<1> QED BY <1>1, <1>2, OnceStep, PTL DEF Spec

(* What leaves is what was shown, to the instance and with the grant it was *)
(* approved under, on every attempt: as long as no plan or run is started   *)
(* between the first and the last step of a save or of a sign-in.           *)
THEOREM WhatIsSentWasApproved ==
    ASSUME ~StartsMidSave, ~StartsMidSign
    PROVE  Spec => []SentAsApproved
<1>1. IInv /\ [Next]_vars => IInv'
  BY ApprovedStep
<1>2. IInv => SentAsApproved
  BY DEF IInv
<1> QED BY <1>1, <1>2, Starts, PTL DEF Spec

-----------------------------------------------------------------------------
(* The action bar.                                                         *)

\* What a device that was ticked for some patches may be told of.
NamesOf(patches) == UNION {{p.kb, p.name} : p \in patches}

\* The request asks for devices that were ticked for it, and of each for what was ticked.
AsTicked(q, meant) ==
    /\ q.kind \in ActionKind /\ q.dryRun \in BOOLEAN /\ q.overrideWindow \in BOOLEAN
    /\ q.devices \in Seq(BarDevice) /\ Requested(q) \subseteq DOMAIN meant
    /\ \A d \in Requested(q) : TargetsOf(q, d) \subseteq NamesOf(meant[d])

\* The request sends a device what it was sent before.
Repeats(q, d, was) ==
    /\ was = [payload |-> [script |-> was.payload.script, runAs |-> was.payload.runAs],
               parameters |-> Parameters(q, d), forced |-> q.forced, reason |-> q.reason]
    /\ \A w \in Worlds : was.payload.runAs = ResolveRunAs(q, w.settings)
    /\ q.kind \notin Remediations => was.payload.script = q.script

SelectionInv ==
    /\ DOMAIN selected \subseteq BarDevice /\ \A d \in DOMAIN selected : selected[d] # {}
    /\ override \in BOOLEAN /\ consent = override

PlanInv ==
    pending # NoPlanShown =>
        /\ pending = [request |-> pending.request, blockers |-> pending.blockers,
                      warnings |-> pending.warnings, payload |-> pending.payload,
                      spent |-> pending.spent, meant |-> pending.meant, retried |-> pending.retried]
        /\ AsTicked(pending.request, pending.meant)
        /\ pending.request.overrideWindow => consent
        /\ \A d \in DOMAIN pending.retried : pending.retried[d] # NothingSent =>
             ~pending.request.overrideWindow /\ Repeats(pending.request, d, pending.retried[d])

\* A job says what it was sent, and what it repeats.
SentAs(q, w, d) == [payload |-> Payload(q, w), parameters |-> Parameters(q, d), forced |-> q.forced,
                    reason |-> q.reason]
JobInv(q, w, d, job) ==
    /\ job = [kind |-> q.kind, dryRun |-> q.dryRun,
              record |-> JobRequest(q, ResolveRunAs(q, w.settings), d),
              sent |-> job.sent, state |-> job.state, before |-> job.before]
    /\ job.sent # NothingSent =>
         /\ job.sent = SentAs(q, w, d) /\ d \in Eligible(q, w)
         /\ q.kind \in Remediations => TargetsOf(q, d) # {}
         /\ q.dryRun => Parameters(q, d).dryRun
    /\ job.before # NothingSent => ~q.overrideWindow /\ Repeats(q, d, job.before)

BatchInv ==
    batch # NoBatch =>
        /\ batch = [request |-> batch.request, world |-> batch.world, meant |-> batch.meant,
                    consent |-> batch.consent, jobs |-> batch.jobs]
        /\ batch.world \in Worlds /\ Blockers(batch.request, batch.world) = {}
        /\ AsTicked(batch.request, batch.meant)
        /\ batch.request.overrideWindow => batch.consent
        /\ DOMAIN batch.jobs = Requested(batch.request)
        /\ \A d \in DOMAIN batch.jobs : JobInv(batch.request, batch.world, d, batch.jobs[d])

BarInv == SelectionInv /\ PlanInv /\ BatchInv

\* The place of each number in a finite set, counted from the least: every place is one
\* number's.
LEMMA EveryPlaceIsTaken ==
    ASSUME NEW S, S \subseteq Nat, IsFiniteSet(S)
    PROVE  /\ Cardinality(S) \in Nat
           /\ \A d \in S : Cardinality({e \in S : e <= d}) \in 1..Cardinality(S)
           /\ \A d, e \in S : Cardinality({x \in S : x <= d}) = Cardinality({x \in S : x <= e})
                                 => d = e
           /\ \A i \in 1..Cardinality(S) :
                  \E d \in S : Cardinality({e \in S : e <= d}) = i
<1> DEFINE Below(d) == {e \in S : e <= d}
           R == [d \in S |-> Cardinality(Below(d))]
<1>1. Cardinality(S) \in Nat
  BY FS_CardinalityType
<1>2. \A d \in S : /\ IsFiniteSet(Below(d)) /\ Cardinality(Below(d)) \in Nat
                   /\ Cardinality(Below(d)) <= Cardinality(S) /\ Cardinality(Below(d)) # 0
  <2> TAKE d \in S
  <2>1. Below(d) \in SUBSET S /\ d \in Below(d)
    OBVIOUS
  <2>2. IsFiniteSet(Below(d)) /\ Cardinality(Below(d)) <= Cardinality(S)
    BY <2>1, FS_Subset
  <2>3. Cardinality(Below(d)) \in Nat /\ Cardinality(Below(d)) # 0
    BY <2>1, <2>2, FS_CardinalityType, FS_EmptySet
  <2> QED BY <2>2, <2>3
<1>3. \A d, e \in S : d < e => Cardinality(Below(d)) # Cardinality(Below(e))
  <2> SUFFICES ASSUME NEW d \in S, NEW e \in S, d < e
               PROVE  Cardinality(Below(d)) # Cardinality(Below(e))
    OBVIOUS
  <2>1. Below(d) \in SUBSET Below(e)
    <3>1. \A x \in S : x <= d => x <= e
      OBVIOUS
    <3> QED BY <3>1
  <2>2. e \in Below(e) /\ e \notin Below(d)
    OBVIOUS
  <2>3. Cardinality(Below(e)) = Cardinality(Below(d)) => Below(e) = Below(d)
    BY <1>2, <2>1, FS_Subset
  <2> QED BY <2>2, <2>3
<1>4. \A d, e \in S : Cardinality(Below(d)) = Cardinality(Below(e)) => d = e
  <2>1. \A d, e \in S : d < e \/ e < d \/ d = e
    OBVIOUS
  <2> QED BY <1>3, <2>1
<1>5. R \in [S -> 1..Cardinality(S)]
  BY <1>1, <1>2
<1>6. R \in Injection(S, 1..Cardinality(S))
  BY <1>4, <1>5 DEF Injection, IsInjective
<1>7. IsFiniteSet(1..Cardinality(S)) /\ Cardinality(1..Cardinality(S)) = Cardinality(S)
  BY <1>1, FS_Interval
<1>8. R \in Surjection(S, 1..Cardinality(S))
  BY <1>6, <1>7, FS_Injection
<1>9. \A i \in 1..Cardinality(S) : \E d \in S : Cardinality(Below(d)) = i
  BY <1>8 DEF Surjection
<1>10. \A d \in S : Cardinality(Below(d)) \in 1..Cardinality(S)
  BY <1>1, <1>2
<1> QED BY <1>1, <1>4, <1>9, <1>10

\* InOrder lists each element of a finite set once.
LEMMA OrderIsASequence ==
    ASSUME NEW S, S \subseteq Nat, IsFiniteSet(S)
    PROVE  /\ InOrder(S) \in Seq(S) /\ Len(InOrder(S)) = Cardinality(S)
           /\ {InOrder(S)[i] : i \in DOMAIN InOrder(S)} = S
<1> DEFINE Place(d) == Cardinality({e \in S : e <= d})
           At(i) == CHOOSE d \in S : Place(d) = i
<1>1. /\ Cardinality(S) \in Nat
      /\ \A d \in S : Place(d) \in 1..Cardinality(S)
      /\ \A d, e \in S : Place(d) = Place(e) => d = e
      /\ \A i \in 1..Cardinality(S) : \E d \in S : Place(d) = i
  BY EveryPlaceIsTaken
<1>2. InOrder(S) = [i \in 1..Cardinality(S) |-> At(i)]
  BY DEF InOrder
<1> HIDE DEF Place
<1>3. \A i \in 1..Cardinality(S) : At(i) \in S /\ Place(At(i)) = i
  BY <1>1
<1>4. \A d \in S : Place(d) \in 1..Cardinality(S) /\ At(Place(d)) = d
  BY <1>1, <1>3
<1> HIDE DEF At
<1>5. InOrder(S) \in Seq(S) /\ Len(InOrder(S)) = Cardinality(S)
  BY <1>1, <1>2, <1>3
<1>6. DOMAIN InOrder(S) = 1..Cardinality(S) /\ \A i \in 1..Cardinality(S) : InOrder(S)[i] = At(i)
  BY <1>2
<1>7. {InOrder(S)[i] : i \in DOMAIN InOrder(S)} = S
  <2>1. \A i \in DOMAIN InOrder(S) : InOrder(S)[i] \in S
    BY <1>3, <1>6
  <2>2. \A d \in S : Place(d) \in DOMAIN InOrder(S) /\ InOrder(S)[Place(d)] = d
    BY <1>4, <1>6
  <2> QED BY <2>1, <2>2
<1> QED BY <1>5, <1>7

\* A finite set of numbers has a least one.
LEMMA LeastOfFinite ==
    ASSUME NEW S, S \subseteq Nat, IsFiniteSet(S), S # {}
    PROVE  \E d \in S : \A e \in S : d <= e
<1> DEFINE Below(d) == {e \in S : e <= d}
<1>1. /\ Cardinality(S) \in Nat
      /\ \A i \in 1..Cardinality(S) : \E d \in S : Cardinality(Below(d)) = i
  BY EveryPlaceIsTaken
<1>2. Cardinality(S) # 0
  BY FS_EmptySet
<1>3. PICK d \in S : Cardinality(Below(d)) = 1
  BY <1>1, <1>2
<1>4. IsFiniteSet(Below(d)) /\ d \in Below(d)
  <2>1. Below(d) \in SUBSET S /\ d \in Below(d)
    OBVIOUS
  <2> QED BY <2>1, FS_Subset
<1>5. PICK x : Below(d) = {x}
  BY <1>3, <1>4, FS_Singleton
<1>6. \A e \in S : e <= d => e = d
  BY <1>4, <1>5
<1>7. \A e \in S : d <= e
  BY <1>6
<1> QED BY <1>7

LEMMA SeqIsFunction ==
    ASSUME NEW T, NEW s \in Seq(T)
    PROVE  s \in [1..Len(s) -> T]
OBVIOUS

LEMMA SeqOfMore ==
    ASSUME NEW S, NEW T, S \subseteq T, NEW s \in Seq(S)
    PROVE  s \in Seq(T)
<1>1. Len(s) \in Nat /\ \A i \in 1..Len(s) : s[i] \in T
  OBVIOUS
<1>2. s = [i \in 1..Len(s) |-> s[i]]
  OBVIOUS
<1> QED BY <1>1, <1>2

\* A sequence as long as the set of its elements names each once.
LEMMA NamedOnce ==
    ASSUME NEW T, NEW s \in Seq(T), NEW E, E = {s[i] : i \in DOMAIN s}, Len(s) = Cardinality(E),
           NEW d \in E, NEW places, places = {i \in DOMAIN s : s[i] = d}
    PROVE  Cardinality(places) = 1
<1>1. Len(s) \in Nat /\ DOMAIN s = 1..Len(s)
  OBVIOUS
<1>2. IsFiniteSet(1..Len(s)) /\ Cardinality(1..Len(s)) = Len(s)
  BY <1>1, FS_Interval
<1>3. s \in Surjection(1..Len(s), E)
  <2>1. s \in [1..Len(s) -> E]
    <3>1. s \in [1..Len(s) -> T]
      BY SeqIsFunction
    <3>2. \A i \in 1..Len(s) : s[i] \in E
      BY <1>1
    <3> QED BY <3>1, <3>2
  <2>2. \A t \in E : \E i \in 1..Len(s) : s[i] = t
    BY <1>1
  <2> QED BY <2>1, <2>2 DEF Surjection
<1>4. s \in Injection(1..Len(s), E)
  BY <1>2, <1>3, FS_SurjSameCardinalityImpliesInj
<1>5. \A i, k \in 1..Len(s) : s[i] = s[k] => i = k
  BY <1>1, <1>4 DEF Injection, IsInjective
<1>6. PICK i \in 1..Len(s) : s[i] = d
  BY <1>1
<1>7. places = {i}
  BY <1>1, <1>5, <1>6
<1> QED BY <1>7, FS_Singleton

-----------------------------------------------------------------------------
(* The maintenance window                                                  *)

LEMMA Remainder ==
    ASSUME NEW a \in Int, NEW m \in Nat \ {0}, NEW k \in Int, 0 <= a - k * m, a - k * m < m
    PROVE  a % m = a - k * m
<1>1. a % m \in 0..(m - 1) /\ a \div m \in Int /\ a = m * (a \div m) + (a % m)
  OBVIOUS
<1>2. PICK q \in Int, r \in Int : q = a \div m /\ r = a % m
  BY <1>1
<1>3. 0 <= r /\ r < m /\ a = m * q + r
  BY <1>1, <1>2
<1>4. ~(q > k)
  <2>1. q > k => m * q >= m * (k + 1)
    OBVIOUS
  <2> QED BY <1>3, <2>1
<1>5. ~(q < k)
  <2>1. q < k => m * k >= m * (q + 1)
    OBVIOUS
  <2> QED BY <1>3, <2>1
<1>6. q = k
  BY <1>4, <1>5
<1> QED BY <1>2, <1>3, <1>6

\* When the planner has the window open, it is: one of its days began as long ago as the
\* window is yet to last.
LEMMA OpenIsInWindow ==
    ASSUME NEW w, IsWorld(w), WindowIsOpen(w.settings, w.day, w.minute)
    PROVE  InWindow(w.settings, w.day, w.minute)
<1> DEFINE m == MinutesPerDay
           start == w.settings.start
           end == w.settings.end
           day == w.day
           minute == w.minute
<1>1. /\ m \in Nat \ {0} /\ start \in 0..(m - 1) /\ end \in 0..(m - 1)
      /\ day \in 0..6 /\ minute \in 0..(m - 1) /\ w.settings.days \subseteq Int
  <2>1. MinutesPerDay \in Nat \ {0}
    BY ClockAssumption
  <2>2. w.settings.start \in 0..(MinutesPerDay - 1) /\ w.settings.end \in 0..(MinutesPerDay - 1)
        /\ w.minute \in 0..(MinutesPerDay - 1)
    BY DEF IsWorld
  <2>2a. w.day \in 0..6
    <3>1. w.day \in 0..(DaysPerWeek - 1)
      BY DEF IsWorld
    <3>2. DaysPerWeek - 1 = 6
      BY DEF DaysPerWeek
    <3> QED BY <3>1, <3>2
  <2>3. w.settings.days \subseteq Int
    BY DEF IsWorld
  <2> QED BY <2>1, <2>2, <2>2a, <2>3
<1>2. ASSUME NEW d \in w.settings.days, NEW since \in Int, NEW lasts \in Int,
             ((day - d) * m + minute - start) % (7 * m) = since,
             (end - start) % m = lasts, since < lasts
      PROVE  InWindow(w.settings, w.day, w.minute)
  BY <1>2 DEF InWindow, DaysPerWeek
<1>3. CASE start <= end
  <2>1. day \in w.settings.days /\ start <= minute /\ minute < end
    BY <1>3 DEF WindowIsOpen
  <2>2. (day - day) * m = 0 /\ 7 * m \in Nat \ {0}
    BY <1>1
  <2>3. minute - start \in Int /\ 0 <= minute - start /\ minute - start < 7 * m
        /\ minute - start < end - start
    BY <1>1, <2>1
  <2>4. ((day - day) * m + minute - start) % (7 * m) = minute - start
    <3>1. PICK a \in Int, b \in Nat \ {0} : a = (day - day) * m + minute - start /\ b = 7 * m
      BY <1>1, <2>2
    <3>2. a = minute - start /\ 0 <= a - 0 * b /\ a - 0 * b < b
      BY <2>2, <2>3, <3>1
    <3>3. a % b = a - 0 * b
      BY <3>2, Remainder
    <3> QED BY <3>1, <3>2, <3>3
  <2>5. (end - start) % m = end - start
    <3>1. PICK a \in Int : a = end - start
      BY <1>1
    <3>2. 0 <= a - 0 * m /\ a - 0 * m < m
      BY <1>1, <1>3, <3>1
    <3>3. a % m = a - 0 * m
      BY <1>1, <3>2, Remainder
    <3> QED BY <1>1, <3>1, <3>3
  <2>6. end - start \in Int
    BY <1>1
  <2> HIDE DEF m, start, end, day, minute
  <2> QED BY <1>2, <2>1, <2>3, <2>4, <2>5, <2>6
<1>4. CASE ~(start <= end)
  <2>1. (end - start) % m = end - start + m /\ end - start + m \in Int
    <3>1. PICK a \in Int : a = end - start
      BY <1>1
    <3>2. 0 <= a - (-1) * m /\ a - (-1) * m < m
      BY <1>1, <1>4, <3>1
    <3>3. a % m = a - (-1) * m
      BY <1>1, <3>2, Remainder
    <3> QED BY <1>1, <3>1, <3>2, <3>3
  <2>2. CASE day \in w.settings.days /\ start <= minute
    <3>1. 0 <= minute - start /\ minute - start < 7 * m /\ minute - start < end - start + m
          /\ minute - start \in Int
      BY <1>1, <2>2
    <3>2. ((day - day) * m + minute - start) % (7 * m) = minute - start
      <4>1. PICK a \in Int, b \in Nat \ {0} : a = (day - day) * m + minute - start /\ b = 7 * m
        BY <1>1
      <4>2. a = minute - start /\ 0 <= a - 0 * b /\ a - 0 * b < b
        BY <1>1, <3>1, <4>1
      <4>3. a % b = a - 0 * b
        BY <4>2, Remainder
      <4> QED BY <4>1, <4>2, <4>3
    <3> HIDE DEF m, start, end, day, minute
    <3> QED BY <1>2, <2>1, <2>2, <3>1, <3>2
  <2>3. CASE (day + 6) % 7 \in w.settings.days /\ minute < end
    <3>1. PICK d \in Int, k \in Int :
            d = (day + 6) % 7 /\ (day - d) * m + minute - start = (1 + 7 * k) * m + minute - start
      <4>1. CASE day = 0
        <5>1. (day + 6) % 7 = 6
          BY <4>1
        <5>2. (day - 6) * m + minute - start = (1 + 7 * (-1)) * m + minute - start
          BY <4>1
        <5> WITNESS 6 \in Int, -1 \in Int
        <5> QED BY <4>1, <5>1, <5>2
      <4>2. CASE day # 0
        <5>1. day \in 1..6
          BY <1>1, <4>2
        <5>2. (day + 6) % 7 = day - 1 /\ day - 1 \in Int
          BY <5>1
        <5>3. day - (day - 1) = 1 + 7 * 0
          BY <5>1
        <5>4. (day - (day - 1)) * m + minute - start = (1 + 7 * 0) * m + minute - start
          BY <5>3
        <5>5. PICK e \in Int : e = day - 1
          BY <5>1
        <5> WITNESS e \in Int, 0 \in Int
        <5> QED BY <5>2, <5>4, <5>5
      <4> QED BY <4>1, <4>2
    <3>2. (1 + 7 * k) * m + minute - start = (m + minute - start) + k * (7 * m)
      <4>1. (1 + 7 * k) * m = m + k * (7 * m)
        BY <1>1
      <4> QED BY <1>1, <4>1
    <3>3. 0 <= m + minute - start /\ m + minute - start < 7 * m
          /\ m + minute - start < end - start + m /\ m + minute - start \in Int
      BY <1>1, <1>4, <2>3
    <3>4. ((day - d) * m + minute - start) % (7 * m) = m + minute - start
      <4>1. PICK a \in Int, b \in Nat \ {0} : a = (day - d) * m + minute - start /\ b = 7 * m
        BY <1>1
      <4>2. a = (m + minute - start) + k * b
        BY <3>1, <3>2, <4>1
      <4>3. PICK c \in Int : c = m + minute - start
        BY <3>3
      <4>4. k * b \in Int /\ a - k * b = c /\ 0 <= c /\ c < b
        BY <3>3, <4>1, <4>2, <4>3
      <4>5. a % b = a - k * b
        BY <4>4, Remainder
      <4> QED BY <4>1, <4>3, <4>4, <4>5
    <3> HIDE DEF m, start, end, day, minute
    <3> QED BY <1>2, <2>1, <2>3, <3>1, <3>3, <3>4
  <2> QED BY <1>4, <2>2, <2>3 DEF WindowIsOpen, DaysPerWeek
<1> QED BY <1>3, <1>4

-----------------------------------------------------------------------------
(* The requests                                                            *)

LEMMA TargetsAreTicked ==
    ASSUME NEW sel, NEW wantOs, NEW d \in DOMAIN TargetsByDevice(sel, wantOs)
    PROVE  /\ d \in DOMAIN sel /\ TargetsByDevice(sel, wantOs)[d] # {}
           /\ TargetsByDevice(sel, wantOs)[d] \subseteq NamesOf(sel[d])
<1> DEFINE T(e) == {IF wantOs THEN p.kb ELSE p.name : p \in {x \in sel[e] : x.os = wantOs}} \ {NoKb}
           targets == [e \in DOMAIN sel |-> T(e)]
<1>1. TargetsByDevice(sel, wantOs) = [e \in {x \in DOMAIN sel : targets[x] # {}} |-> targets[e]]
  BY DEF TargetsByDevice
<1>2. d \in DOMAIN sel /\ targets[d] # {} /\ TargetsByDevice(sel, wantOs)[d] = targets[d]
  BY <1>1
<1>3. targets[d] = T(d)
  BY <1>2
<1>4. T(d) \subseteq NamesOf(sel[d])
  BY DEF NamesOf
<1> HIDE DEF targets, T
<1> QED BY <1>2, <1>3, <1>4

\* The targets of a request, by kind.
BuiltTargets(kind, sel, opts) ==
    IF kind \in Remediations THEN RemediationTargets(sel, kind)
    ELSE IF kind = "Script" /\ opts.kbTargeting THEN TargetsByDevice(sel, TRUE) ELSE NothingTicked
BuiltFor(kind, sel) == IF kind \in Remediations THEN DOMAIN RemediationTargets(sel, kind) ELSE DOMAIN sel

LEMMA BuiltRequest ==
    ASSUME NEW kind \in ActionKind, NEW sel, NEW opts, IsOptions(opts),
           NEW q, q = BuildActionRequest(kind, sel, opts)
    PROVE  /\ q.kind = kind /\ q.devices = InOrder(BuiltFor(kind, sel))
           /\ q.targets = BuiltTargets(kind, sel, opts)
           /\ q.overrideWindow = opts.overrideWindow /\ q.dryRun = (RunsAScript(kind) /\ opts.dryRun)
           /\ q.typed = (kind = "Script" /\ opts.typed)
           /\ q.script = IF kind = "Script" THEN opts.script ELSE NoScript
<1>1. PICK devices : devices = InOrder(BuiltFor(kind, sel))
  OBVIOUS
<1>2. PICK targets : targets = BuiltTargets(kind, sel, opts)
  OBVIOUS
<1>3. PICK scripted : scripted = RunsAScript(kind)
  OBVIOUS
<1>4. q = [NewRequest(kind, devices)
           EXCEPT !.targets = targets,
                  !.includeOffline = opts.includeOffline,
                  !.overrideWindow = opts.overrideWindow,
                  !.dryRun = scripted /\ opts.dryRun,
                  !.reboot = scripted /\ opts.reboot,
                  !.runAs = IF scripted THEN opts.runAs ELSE "",
                  !.forced = kind = "Reboot" /\ opts.forced,
                  !.reason = kind = "Reboot" /\ opts.reason,
                  !.script = IF kind = "Script" THEN opts.script ELSE NoScript,
                  !.typed = kind = "Script" /\ opts.typed]
  <2>1. devices = InOrder(IF kind \in Remediations
                          THEN DOMAIN (IF kind \in Remediations THEN RemediationTargets(sel, kind)
                                       ELSE IF kind = "Script" /\ opts.kbTargeting
                                            THEN TargetsByDevice(sel, TRUE) ELSE NothingTicked)
                          ELSE DOMAIN sel)
    BY <1>1 DEF BuiltFor
  <2> QED BY <1>2, <1>3, <2>1 DEF BuildActionRequest, BuiltTargets
<1> QED BY <1>1, <1>2, <1>3, <1>4 DEF NewRequest

\* A request built from what is ticked asks for that.
LEMMA BuiltAsTicked ==
    ASSUME NEW kind \in ActionKind, NEW sel, DOMAIN sel \subseteq BarDevice, NEW opts, IsOptions(opts),
           NEW q, q = BuildActionRequest(kind, sel, opts)
    PROVE  /\ AsTicked(q, sel) /\ q.overrideWindow = opts.overrideWindow
           /\ Requested(q) = BuiltFor(kind, sel) /\ Len(q.devices) = Cardinality(Requested(q))
<1>1. /\ q.kind = kind /\ q.devices = InOrder(BuiltFor(kind, sel))
      /\ q.targets = BuiltTargets(kind, sel, opts)
      /\ q.overrideWindow = opts.overrideWindow /\ q.dryRun = (RunsAScript(kind) /\ opts.dryRun)
  BY BuiltRequest
<1>2. BuiltFor(kind, sel) \subseteq DOMAIN sel
  BY TargetsAreTicked DEF BuiltFor, RemediationTargets
<1>3. PICK S : S = BuiltFor(kind, sel)
  OBVIOUS
<1>4. S \subseteq BarDevice /\ S \subseteq Nat /\ IsFiniteSet(S)
  <2>1. S \in SUBSET BarDevice
    BY <1>2, <1>3
  <2> QED BY <2>1, BarAssumption, FS_Subset
<1>5. /\ InOrder(S) \in Seq(S) /\ Len(InOrder(S)) = Cardinality(S)
      /\ {InOrder(S)[i] : i \in DOMAIN InOrder(S)} = S
  BY <1>4, OrderIsASequence
<1>6. q.devices \in Seq(BarDevice)
  <2>1. InOrder(S) \in Seq(BarDevice)
    BY <1>4, <1>5, SeqOfMore
  <2> QED BY <1>1, <1>3, <2>1
<1>7. Requested(q) = S
  BY <1>1, <1>3, <1>5 DEF Requested
<1>8. \A d : TargetsOf(q, d) \subseteq NamesOf(sel[d])
  <2> TAKE d
  <2>1. CASE d \notin DOMAIN q.targets
    BY <2>1 DEF TargetsOf
  <2>2. CASE d \in DOMAIN q.targets
    <3>1. PICK wantOs : q.targets = TargetsByDevice(sel, wantOs)
      BY <1>1, <2>2 DEF BuiltTargets, RemediationTargets, NothingTicked
    <3> QED BY <2>2, <3>1, TargetsAreTicked DEF TargetsOf
  <2> QED BY <2>1, <2>2
<1>9. q.dryRun \in BOOLEAN /\ q.overrideWindow \in BOOLEAN
  BY <1>1 DEF IsOptions
<1> QED BY <1>1, <1>2, <1>3, <1>5, <1>6, <1>7, <1>8, <1>9 DEF AsTicked

LEMMA OfferedOptions ==
    ASSUME NEW opts, IsOptions(opts), NEW settings
    PROVE  /\ IsOptions(Offered(opts, settings))
           /\ Offered(opts, settings).overrideWindow => opts.overrideWindow
           /\ Offered(opts, settings).dryRun = opts.dryRun
           /\ Offered(opts, settings).typed = opts.typed
           /\ Offered(opts, settings).script = opts.script
<1>1. PICK a \in BOOLEAN, b \in BOOLEAN, c \in BOOLEAN :
        /\ a = (opts.overrideWindow /\ settings.windowRequired /\ settings.allowOverride)
        /\ b = (opts.includeOffline /\ settings.allowOffline)
        /\ c = (opts.kbTargeting /\ opts.script \in settings.kbScripts)
  OBVIOUS
<1>2. Offered(opts, settings) = [opts EXCEPT !.overrideWindow = a, !.includeOffline = b,
                                             !.kbTargeting = c]
  BY <1>1 DEF Offered
<1> QED BY <1>1, <1>2 DEF IsOptions

LEMMA WithOverride ==
    ASSUME NEW opts, IsOptions(opts), NEW yes \in BOOLEAN
    PROVE  /\ IsOptions([opts EXCEPT !.overrideWindow = yes])
           /\ [opts EXCEPT !.overrideWindow = yes].overrideWindow = yes
BY DEF IsOptions

\* What a retry asks for, from the jobs of a batch.
RetryOf(q, jobs, retried) ==
    \E f \in retried :
        /\ q.kind = jobs[f].kind /\ q.devices = InOrder(retried)
        /\ q.dryRun = jobs[f].dryRun /\ q.overrideWindow = FALSE
        /\ q.script = jobs[f].record.script /\ q.typed = jobs[f].record.typed
        /\ q.runAs = jobs[f].record.runAs /\ q.reboot = jobs[f].record.reboot
        /\ q.forced = jobs[f].record.forced /\ q.reason = jobs[f].record.reason
        /\ \A d \in retried : TargetsOf(q, d) = jobs[d].record.targets

LEMMA RetriedRequest ==
    ASSUME NEW jobs, NEW retried, retried \subseteq DOMAIN jobs, retried # {},
           retried \subseteq Nat, IsFiniteSet(retried),
           NEW q, q = RetryRequest(jobs, retried)
    PROVE  RetryOf(q, jobs, retried)
<1> DEFINE f == CHOOSE d \in retried : \A e \in retried : d <= e
           targets == [d \in {e \in retried : jobs[e].record.targets # {}} |-> jobs[d].record.targets]
<1>1. f \in retried
  BY LeastOfFinite
<1>2. PICK first, record : first = jobs[f] /\ record = first.record
  OBVIOUS
<1>3. PICK told1 : told1 = targets
  OBVIOUS
<1>4. PICK devices : devices = InOrder(retried)
  OBVIOUS
<1>5. q = [NewRequest(first.kind, devices)
           EXCEPT !.targets = told1, !.script = record.script, !.typed = record.typed,
                  !.runAs = record.runAs, !.reboot = record.reboot, !.forced = record.forced,
                  !.reason = record.reason, !.includeOffline = record.includeOffline,
                  !.dryRun = first.dryRun]
  BY <1>2, <1>3, <1>4 DEF RetryRequest
<1>6. /\ q.kind = first.kind /\ q.devices = devices /\ q.dryRun = first.dryRun
      /\ q.overrideWindow = FALSE /\ q.script = record.script /\ q.typed = record.typed
      /\ q.runAs = record.runAs /\ q.reboot = record.reboot /\ q.forced = record.forced
      /\ q.reason = record.reason /\ q.targets = told1
  BY <1>5 DEF NewRequest
<1>7. \A d \in retried : TargetsOf(q, d) = jobs[d].record.targets
  BY <1>3, <1>6 DEF TargetsOf
<1> HIDE DEF f, targets
<1> QED BY <1>1, <1>2, <1>4, <1>6, <1>7 DEF RetryOf

\* A retry of jobs of one batch asks for what they were ticked for, and sends each what
\* it was sent.
LEMMA RetryRepeats ==
    ASSUME BatchInv, batch # NoBatch, NEW retried, retried \subseteq DOMAIN batch.jobs, retried # {},
           NEW q, q = RetryRequest(batch.jobs, retried)
    PROVE  /\ AsTicked(q, batch.meant) /\ q.overrideWindow = FALSE
           /\ \A d \in retried : batch.jobs[d].sent # NothingSent => Repeats(q, d, batch.jobs[d].sent)
<1> DEFINE r == batch.request
           w == batch.world
           jobs == batch.jobs
<1>1. /\ w \in Worlds /\ AsTicked(r, batch.meant) /\ DOMAIN jobs = Requested(r)
      /\ \A d \in DOMAIN jobs : JobInv(r, w, d, jobs[d])
  BY DEF BatchInv
<1>2. Requested(r) \subseteq BarDevice
  BY <1>1 DEF AsTicked, Requested
<1>3. retried \subseteq Nat /\ IsFiniteSet(retried) /\ retried \subseteq BarDevice
  <2>1. retried \in SUBSET BarDevice
    BY <1>1, <1>2
  <2> QED BY <2>1, BarAssumption, FS_Subset
<1>4. \A d \in DOMAIN jobs :
        /\ jobs[d].kind = r.kind /\ jobs[d].dryRun = r.dryRun
        /\ jobs[d].record.script = r.script /\ jobs[d].record.typed = IsTyped(r)
        /\ jobs[d].record.runAs = ResolveRunAs(r, w.settings)
        /\ jobs[d].record.reboot = r.reboot /\ jobs[d].record.forced = r.forced
        /\ jobs[d].record.reason = r.reason /\ jobs[d].record.targets = TargetsOf(r, d)
  <2> TAKE d \in DOMAIN jobs
  <2>1. JobInv(r, w, d, jobs[d])
    BY <1>1
  <2>2. PICK job : job = jobs[d]
    OBVIOUS
  <2>3. job = [kind |-> r.kind, dryRun |-> r.dryRun,
               record |-> JobRequest(r, ResolveRunAs(r, w.settings), d),
               sent |-> job.sent, state |-> job.state, before |-> job.before]
    BY <2>1, <2>2 DEF JobInv
  <2>4. job.kind = r.kind /\ job.dryRun = r.dryRun
        /\ job.record = JobRequest(r, ResolveRunAs(r, w.settings), d)
    BY <2>3
  <2> QED BY <2>2, <2>4 DEF JobRequest
<1>5. /\ q.kind = r.kind /\ q.devices = InOrder(retried) /\ q.dryRun = r.dryRun
      /\ q.overrideWindow = FALSE /\ q.script = r.script /\ q.typed = IsTyped(r)
      /\ q.runAs = ResolveRunAs(r, w.settings) /\ q.reboot = r.reboot /\ q.forced = r.forced
      /\ q.reason = r.reason /\ \A d \in retried : TargetsOf(q, d) = TargetsOf(r, d)
  <2>0. PICK js : js = jobs
    OBVIOUS
  <2>0a. retried \subseteq DOMAIN js /\ q = RetryRequest(js, retried)
    BY <2>0
  <2>0b. RetryOf(q, js, retried)
    BY <1>3, <2>0a, RetriedRequest
  <2>1. PICK f \in retried :
             /\ q.kind = jobs[f].kind /\ q.devices = InOrder(retried)
             /\ q.dryRun = jobs[f].dryRun /\ q.overrideWindow = FALSE
             /\ q.script = jobs[f].record.script /\ q.typed = jobs[f].record.typed
             /\ q.runAs = jobs[f].record.runAs /\ q.reboot = jobs[f].record.reboot
             /\ q.forced = jobs[f].record.forced /\ q.reason = jobs[f].record.reason
             /\ \A d \in retried : TargetsOf(q, d) = jobs[d].record.targets
    BY <2>0, <2>0b DEF RetryOf
  <2> HIDE DEF jobs, r, w
  <2>2. retried \subseteq DOMAIN jobs
    BY DEF jobs
  <2>3. f \in DOMAIN jobs
    BY <2>2
  <2> QED BY <1>4, <2>1, <2>2, <2>3
<1>6. /\ InOrder(retried) \in Seq(retried)
      /\ {InOrder(retried)[i] : i \in DOMAIN InOrder(retried)} = retried
  BY <1>3, OrderIsASequence
<1>7. q.devices \in Seq(BarDevice) /\ Requested(q) = retried
  BY <1>3, <1>5, <1>6, SeqOfMore DEF Requested
<1>8. AsTicked(q, batch.meant)
  BY <1>1, <1>5, <1>7 DEF AsTicked
<1>9. IsTyped(q) = IsTyped(r) /\ \A d \in retried : Parameters(q, d) = Parameters(r, d)
  <2>1. IsTyped(q) = IsTyped(r)
    BY <1>5 DEF IsTyped
  <2> QED BY <1>5, <2>1 DEF Parameters
<1>10. \A v \in Worlds : ResolveRunAs(q, v.settings) = ResolveRunAs(r, w.settings)
  <2> TAKE v \in Worlds
  <2>1. CASE ~RunsAScript(r.kind)
    BY <1>5, <2>1 DEF ResolveRunAs
  <2>2. CASE RunsAScript(r.kind)
    <3>1. w.settings.runAs # ""
      BY <1>1, BarAssumption DEF IsWorld
    <3>2. ResolveRunAs(r, w.settings) # ""
      BY <2>2, <3>1 DEF ResolveRunAs
    <3> QED BY <1>5, <2>2, <3>2 DEF ResolveRunAs
  <2> QED BY <2>1, <2>2
<1>11. ASSUME NEW d \in retried, jobs[d].sent # NothingSent
       PROVE  Repeats(q, d, jobs[d].sent)
  <2>1. JobInv(r, w, d, jobs[d])
    BY <1>1
  <2>2. PICK was : was = jobs[d].sent
    OBVIOUS
  <2>3. was = SentAs(r, w, d)
    BY <1>11, <2>1, <2>2 DEF JobInv
  <2>4. /\ was.payload = [script |-> ResolveScript(r, w.settings), runAs |-> ResolveRunAs(r, w.settings)]
        /\ was.parameters = Parameters(r, d) /\ was.forced = r.forced /\ was.reason = r.reason
        /\ was = [payload |-> was.payload, parameters |-> was.parameters, forced |-> was.forced,
                  reason |-> was.reason]
    BY <2>3 DEF SentAs, Payload
  <2>5. was.payload.script = ResolveScript(r, w.settings)
        /\ was.payload.runAs = ResolveRunAs(r, w.settings)
    BY <2>4
  <2>6. q.kind \notin Remediations => was.payload.script = q.script
    BY <1>5, <2>5 DEF ResolveScript
  <2> HIDE DEF r, w, jobs
  <2>7. was = [payload |-> [script |-> was.payload.script, runAs |-> was.payload.runAs],
               parameters |-> Parameters(q, d), forced |-> q.forced, reason |-> q.reason]
    BY <1>5, <1>9, <2>4, <2>5
  <2> QED BY <1>10, <2>2, <2>5, <2>6, <2>7 DEF Repeats
<1> QED BY <1>5, <1>8, <1>11

-----------------------------------------------------------------------------
(* The selection, and the plan                                             *)

LEMMA BarStarts == BarInit => BarInv
<1> SUFFICES ASSUME BarInit PROVE BarInv
  OBVIOUS
<1>1. DOMAIN selected = {}
  BY DEF BarInit, NothingTicked
<1>2. SelectionInv
  BY <1>1 DEF BarInit, SelectionInv
<1>3. PlanInv /\ BatchInv
  BY DEF BarInit, PlanInv, BatchInv
<1> QED BY <1>2, <1>3 DEF BarInv

\* What is ticked stays ticked for something.
LEMMA TickingKeeps ==
    ASSUME NEW sel, DOMAIN sel \subseteq BarDevice, \A e \in DOMAIN sel : sel[e] # {},
           NEW d \in BarDevice, NEW patches
    PROVE  /\ DOMAIN WithTicks(sel, d, patches) \subseteq BarDevice
           /\ \A e \in DOMAIN WithTicks(sel, d, patches) : WithTicks(sel, d, patches)[e] # {}
<1>1. CASE patches = {}
  <2>1. WithTicks(sel, d, patches) = [e \in (DOMAIN sel) \ {d} |-> IF e = d THEN patches ELSE sel[e]]
    BY <1>1 DEF WithTicks
  <2> QED BY <2>1
<1>2. CASE patches # {}
  <2>1. WithTicks(sel, d, patches)
            = [e \in (DOMAIN sel) \union {d} |-> IF e = d THEN patches ELSE sel[e]]
    BY <1>2 DEF WithTicks
  <2> QED BY <1>2, <2>1
<1> QED BY <1>1, <1>2

LEMMA SelectionMoves ==
    BarInv /\ (TicksRows \/ TicksOverride \/ Refreshes \/ ClearsSelection \/ BarSessionEnds) => BarInv'
<1> SUFFICES ASSUME BarInv, TicksRows \/ TicksOverride \/ Refreshes \/ ClearsSelection \/ BarSessionEnds
             PROVE  BarInv'
  OBVIOUS
<1> USE DEF BarInv
<1>1. CASE TicksRows
  <2>1. PICK row \in BarRows : selected' \in {RowsTicked(selected, row[1], {row[2]}),
                                              RowsUnticked(selected, row[1], {row[2]})}
    BY <1>1 DEF TicksRows
  <2>2. UNCHANGED <<override, consent, pending, batch>>
    BY <1>1 DEF TicksRows
  <2>3. row[1] \in BarDevice
    BY BarAssumption
  <2>4. \/ selected' = selected
        \/ \E patches : selected' = WithTicks(selected, row[1], patches)
    BY <2>1 DEF RowsTicked, RowsUnticked
  <2>5. DOMAIN selected' \subseteq BarDevice /\ \A e \in DOMAIN selected' : selected'[e] # {}
    BY <2>3, <2>4, TickingKeeps DEF SelectionInv
  <2>6. SelectionInv'
    BY <2>2, <2>5 DEF SelectionInv
  <2>7. PlanInv' /\ BatchInv'
    BY <2>2 DEF PlanInv, BatchInv
  <2> QED BY <2>6, <2>7
<1>2. CASE TicksOverride
  <2>1. pending = NoPlanShown /\ UNCHANGED <<selected, pending, batch>>
        /\ override' = ~override /\ consent' = ~override
    BY <1>2 DEF TicksOverride
  <2>2. SelectionInv'
    BY <2>1 DEF SelectionInv
  <2>3. PlanInv' /\ BatchInv'
    BY <2>1 DEF PlanInv, BatchInv
  <2> QED BY <2>2, <2>3
<1>3. CASE Refreshes
  <2>1. PICK d \in DOMAIN selected : \E rows \in SUBSET RowsOf(d) :
           selected' = PrunedFromReads(selected, [e \in {d} |-> rows])
    BY <1>3 DEF Refreshes
  <2>2. PICK listed : selected' = PrunedFromReads(selected, listed)
    BY <2>1
  <2>3. UNCHANGED <<override, consent, pending, batch>>
    BY <1>3 DEF Refreshes
  <2>4. PICK left : left = [e \in DOMAIN selected |->
                             IF e \in DOMAIN listed THEN selected[e] \intersect listed[e] ELSE selected[e]]
    OBVIOUS
  <2>4a. selected' = [e \in {x \in DOMAIN selected : left[x] # {}} |-> left[e]]
    BY <2>2, <2>4 DEF PrunedFromReads
  <2>5. SelectionInv'
    BY <2>3, <2>4a DEF SelectionInv
  <2>6. PlanInv' /\ BatchInv'
    BY <2>3 DEF PlanInv, BatchInv
  <2> QED BY <2>5, <2>6
<1>4. CASE ClearsSelection
  <2>1. DOMAIN selected' = {} /\ UNCHANGED <<override, consent, pending, batch>>
    BY <1>4 DEF ClearsSelection, NothingTicked
  <2>2. SelectionInv'
    BY <2>1 DEF SelectionInv
  <2>3. PlanInv' /\ BatchInv'
    BY <2>1 DEF PlanInv, BatchInv
  <2> QED BY <2>2, <2>3
<1>5. CASE BarSessionEnds
  <2>1. DOMAIN selected' = {} /\ override' = FALSE /\ consent' = FALSE
        /\ pending' = NoPlanShown /\ batch' = NoBatch
    BY <1>5 DEF BarSessionEnds, NothingTicked
  <2>2. SelectionInv'
    BY <2>1 DEF SelectionInv
  <2>3. PlanInv' /\ BatchInv'
    BY <2>1 DEF PlanInv, BatchInv
  <2> QED BY <2>2, <2>3
<1> QED BY <1>1, <1>2, <1>3, <1>4, <1>5

\* A plan shown of a request that asks for what was ticked.
LEMMA ShownPlan ==
    ASSUME NEW q, NEW w, NEW meant, NEW retried, Shows(q, w, meant, retried), AsTicked(q, meant),
           q.overrideWindow => consent',
           \A d \in DOMAIN retried : retried[d] # NothingSent
                                        => ~q.overrideWindow /\ Repeats(q, d, retried[d])
    PROVE  PlanInv'
<1>1. pending' = [request |-> q, blockers |-> Blockers(q, w), warnings |-> Warnings(q, w),
                  payload |-> Payload(q, w), spent |-> FALSE, meant |-> meant, retried |-> retried]
  BY DEF Shows
<1>2. pending'.request = q /\ pending'.meant = meant /\ pending'.retried = retried
  BY <1>1
<1>3. pending' = [request |-> pending'.request, blockers |-> pending'.blockers,
                  warnings |-> pending'.warnings, payload |-> pending'.payload,
                  spent |-> pending'.spent, meant |-> pending'.meant, retried |-> pending'.retried]
  BY <1>1
<1>4. AsTicked(pending'.request, pending'.meant)
  BY <1>2
<1>5. PlanInv' <=> (pending' # NoPlanShown =>
        /\ pending' = [request |-> pending'.request, blockers |-> pending'.blockers,
                       warnings |-> pending'.warnings, payload |-> pending'.payload,
                       spent |-> pending'.spent, meant |-> pending'.meant,
                       retried |-> pending'.retried]
        /\ AsTicked(pending'.request, pending'.meant)
        /\ pending'.request.overrideWindow => consent'
        /\ \A d \in DOMAIN pending'.retried : pending'.retried[d] # NothingSent =>
             ~pending'.request.overrideWindow /\ Repeats(pending'.request, d, pending'.retried[d]))
  BY DEF PlanInv, AsTicked, Repeats, Requested, TargetsOf, NamesOf, Parameters, ResolveRunAs
<1>6. (pending'.request.overrideWindow => consent')
      /\ \A d \in DOMAIN pending'.retried : pending'.retried[d] # NothingSent =>
             ~pending'.request.overrideWindow /\ Repeats(pending'.request, d, pending'.retried[d])
  BY <1>2
<1> QED BY <1>3, <1>4, <1>5, <1>6

LEMMA OpensPlanKeeps == BarInv /\ OpensPlan => BarInv'
<1> SUFFICES ASSUME BarInv, OpensPlan PROVE BarInv'
  OBVIOUS
<1> USE DEF BarInv
<1>1. UNCHANGED <<selected, override, consent, batch>>
  BY DEF OpensPlan
<1>2. PICK kind \in BarKinds, opts \in BarOptions, w \in Worlds :
         LET offered == Offered([opts EXCEPT !.overrideWindow = override], w.settings)
         IN  \/ /\ DOMAIN selected # {}
                /\ ~KindDisabled(kind, selected, w.settings)
                /\ ~DryRunDisabled(kind, opts, w.settings, w.library)
                /\ Shows(BuildActionRequest(kind, selected, offered), w, selected, NothingTicked)
             \/ /\ DeviceSelectionAllows(kind)
                /\ \E devices \in (SUBSET (BarDevice \ {OrphanDevice})) \ {{}} :
                     LET chosen == [d \in devices |-> {}]
                     IN  Shows(BuildActionRequest(kind, chosen, offered), w, chosen, NothingTicked)
  BY DEF OpensPlan
<1>3. PICK offered : offered = Offered([opts EXCEPT !.overrideWindow = override], w.settings)
  OBVIOUS
<1>4. PICK sel : /\ DOMAIN sel \subseteq BarDevice
                 /\ Shows(BuildActionRequest(kind, sel, offered), w, sel, NothingTicked)
  <2>1. CASE Shows(BuildActionRequest(kind, selected, offered), w, selected, NothingTicked)
    BY <2>1 DEF SelectionInv
  <2>2. CASE \E devices \in (SUBSET (BarDevice \ {OrphanDevice})) \ {{}} :
               Shows(BuildActionRequest(kind, [d \in devices |-> {}], offered), w,
                     [d \in devices |-> {}], NothingTicked)
    <3>1. PICK devices \in SUBSET (BarDevice \ {OrphanDevice}) :
               Shows(BuildActionRequest(kind, [d \in devices |-> {}], offered), w,
                     [d \in devices |-> {}], NothingTicked)
      BY <2>2
    <3>2. PICK chosen : chosen = [d \in devices |-> {}]
      OBVIOUS
    <3>3. DOMAIN chosen \subseteq BarDevice
      BY <3>2
    <3>4. Shows(BuildActionRequest(kind, chosen, offered), w, chosen, NothingTicked)
      BY <3>1, <3>2
    <3> QED BY <3>3, <3>4
  <2> QED BY <1>2, <1>3, <2>1, <2>2
<1>5. IsOptions(offered) /\ (offered.overrideWindow => override)
  <2>1. IsOptions(opts) /\ override \in BOOLEAN
    BY BarAssumption DEF SelectionInv
  <2>2. PICK o : o = [opts EXCEPT !.overrideWindow = override]
    OBVIOUS
  <2>3. IsOptions(o) /\ o.overrideWindow = override
    BY <2>1, <2>2, WithOverride
  <2> QED BY <1>3, <2>2, <2>3, OfferedOptions
<1>6. PICK q : q = BuildActionRequest(kind, sel, offered)
  OBVIOUS
<1>7. kind \in ActionKind
  BY BarAssumption
<1>8. AsTicked(q, sel) /\ q.overrideWindow = offered.overrideWindow
  BY <1>4, <1>5, <1>6, <1>7, BuiltAsTicked
<1>9. q.overrideWindow => consent'
  BY <1>1, <1>5, <1>8 DEF SelectionInv
<1>10. DOMAIN NothingTicked = {}
  BY DEF NothingTicked
<1>11. PlanInv'
  BY <1>4, <1>6, <1>8, <1>9, <1>10, ShownPlan
<1>12. SelectionInv' /\ BatchInv'
  BY <1>1 DEF SelectionInv, BatchInv
<1> QED BY <1>11, <1>12

LEMMA RetriesJobsKeeps == BarInv /\ RetriesJobs => BarInv'
<1> SUFFICES ASSUME BarInv, RetriesJobs PROVE BarInv'
  OBVIOUS
<1> USE DEF BarInv
<1>1. UNCHANGED <<selected, override, consent>> /\ batch' = NoBatch
  BY DEF RetriesJobs
<1>2. PICK retried, w :
        /\ retried \subseteq DOMAIN batch.jobs /\ retried # {}
        /\ Shows(RetryRequest(batch.jobs, retried), w, batch.meant,
                 [d \in retried |-> batch.jobs[d].sent])
  <2>1. PICK retried \in {{d \in DOMAIN batch.jobs : Retryable(batch.jobs[d])}}
                          \union {{d} : d \in {e \in DOMAIN batch.jobs : Retryable(batch.jobs[e])}},
             w \in Worlds :
             /\ retried # {}
             /\ Shows(RetryRequest(batch.jobs, retried), w, batch.meant,
                      [d \in retried |-> batch.jobs[d].sent])
    BY DEF RetriesJobs
  <2>2. retried \subseteq DOMAIN batch.jobs
    OBVIOUS
  <2> QED BY <2>1, <2>2
<1>3. batch # NoBatch
  <2>1. DOMAIN batch.jobs # {}
    BY <1>2
  <2>2. DOMAIN NoBatch.jobs = {}
    BY DEF NoBatch, NothingTicked
  <2> QED BY <2>1, <2>2
<1>4. PICK q : q = RetryRequest(batch.jobs, retried)
  OBVIOUS
<1>5. /\ AsTicked(q, batch.meant) /\ q.overrideWindow = FALSE
      /\ \A d \in retried : batch.jobs[d].sent # NothingSent => Repeats(q, d, batch.jobs[d].sent)
  BY <1>2, <1>3, <1>4, RetryRepeats
<1>6. PICK before : before = [d \in retried |-> batch.jobs[d].sent]
  OBVIOUS
<1>7. \A d \in DOMAIN before : before[d] # NothingSent
                                        => ~q.overrideWindow /\ Repeats(q, d, before[d])
  BY <1>5, <1>6
<1>8. PICK meant : meant = batch.meant
  OBVIOUS
<1>9. Shows(q, w, meant, before) /\ AsTicked(q, meant) /\ (q.overrideWindow => consent')
  BY <1>2, <1>4, <1>5, <1>6, <1>8
<1>10. PlanInv'
  BY <1>7, <1>9, ShownPlan
<1>11. SelectionInv' /\ BatchInv'
  BY <1>1 DEF SelectionInv, BatchInv
<1> QED BY <1>10, <1>11

LEMMA PlanMoves == BarInv /\ (CancelsPlan \/ Replans) => BarInv'
<1> SUFFICES ASSUME BarInv, CancelsPlan \/ Replans PROVE BarInv'
  OBVIOUS
<1> USE DEF BarInv
<1>1. UNCHANGED <<selected, override, consent, batch>>
  BY DEF CancelsPlan, Replans
<1>2. SelectionInv' /\ BatchInv'
  BY <1>1 DEF SelectionInv, BatchInv
<1>3. CASE CancelsPlan
  <2>1. pending' = NoPlanShown
    BY <1>3 DEF CancelsPlan
  <2> QED BY <1>2, <2>1 DEF PlanInv
<1>4. CASE Replans
  <2>1. PICK w \in Worlds : Shows(pending.request, w, pending.meant, pending.retried)
    BY <1>4 DEF Replans
  <2>2. pending # NoPlanShown
    BY <1>4 DEF Replans
  <2>3. PICK q, meant, retried : q = pending.request /\ meant = pending.meant
                                 /\ retried = pending.retried
    OBVIOUS
  <2>4. /\ AsTicked(q, meant) /\ (q.overrideWindow => consent')
        /\ \A d \in DOMAIN retried : retried[d] # NothingSent
                                        => ~q.overrideWindow /\ Repeats(q, d, retried[d])
    BY <1>1, <2>2, <2>3 DEF PlanInv
  <2>5. PlanInv'
    BY <2>1, <2>3, <2>4, ShownPlan
  <2> QED BY <1>2, <2>5
<1> QED BY <1>3, <1>4

-----------------------------------------------------------------------------
(* The dispatch                                                            *)

\* A job is of its request, is sent what the request says or nothing, and repeats what
\* its device was sent before.
LEMMA NewJob ==
    ASSUME NEW q, NEW w, NEW retried, NEW d \in Requested(q),
           \A e \in DOMAIN retried : retried[e] # NothingSent
                                        => ~q.overrideWindow /\ Repeats(q, e, retried[e])
    PROVE  JobInv(q, w, d, Job(q, w, retried, d))
<1>1. PICK message, state, before :
        /\ message = (IF d \in Skipped(q, w) THEN NothingSent ELSE Perform(q, Payload(q, w), d).sent)
        /\ state = (IF d \in Skipped(q, w) THEN "Skipped" ELSE Perform(q, Payload(q, w), d).state)
        /\ before = (IF d \in DOMAIN retried THEN retried[d] ELSE NothingSent)
  OBVIOUS
<1>2. PICK record : record = JobRequest(q, ResolveRunAs(q, w.settings), d)
  OBVIOUS
<1>3. PICK job : job = Job(q, w, retried, d)
  OBVIOUS
<1>4. job = [kind |-> q.kind, dryRun |-> q.dryRun, record |-> record, sent |-> message,
             state |-> state, before |-> before]
  BY <1>1, <1>2, <1>3 DEF Job
<1>5. job.sent = message /\ job.state = state /\ job.before = before
  BY <1>4
<1>6. ASSUME message # NothingSent
      PROVE  /\ message = SentAs(q, w, d) /\ d \in Eligible(q, w)
             /\ q.kind \in Remediations => TargetsOf(q, d) # {}
             /\ q.dryRun => Parameters(q, d).dryRun
  <2>1. d \notin Skipped(q, w) /\ message = Perform(q, Payload(q, w), d).sent
    BY <1>1, <1>6
  <2>2. PICK refused : refused = (\/ q.kind \in Remediations /\ TargetsOf(q, d) = {}
                                  \/ q.dryRun /\ ~Parameters(q, d).dryRun)
    OBVIOUS
  <2>3. message = IF refused THEN NothingSent
               ELSE [payload |-> Payload(q, w), parameters |-> Parameters(q, d),
                     forced |-> q.forced, reason |-> q.reason]
    BY <2>1, <2>2 DEF Perform
  <2>4. ~refused
    BY <1>6, <2>3
  <2>5. d \in Eligible(q, w)
    BY <2>1 DEF Skipped
  <2> QED BY <2>2, <2>3, <2>4, <2>5 DEF SentAs
<1>7. before # NothingSent => ~q.overrideWindow /\ Repeats(q, d, before)
  BY <1>1
<1>8. JobInv(q, w, d, job)
  BY <1>2, <1>4, <1>5, <1>6, <1>7 DEF JobInv
<1> QED BY <1>3, <1>8

\* A batch with these parts keeps the invariant.
LEMMA BatchMade ==
    ASSUME NEW q, NEW w \in Worlds, NEW meant, NEW agreed, NEW jobs,
           batch' = [request |-> q, world |-> w, meant |-> meant, consent |-> agreed, jobs |-> jobs],
           Blockers(q, w) = {}, AsTicked(q, meant), q.overrideWindow => agreed,
           DOMAIN jobs = Requested(q), \A d \in DOMAIN jobs : JobInv(q, w, d, jobs[d])
    PROVE  BatchInv'
<1>1. /\ batch'.request = q /\ batch'.world = w /\ batch'.meant = meant
      /\ batch'.consent = agreed /\ batch'.jobs = jobs
  OBVIOUS
<1>2. BatchInv' <=> (batch' # NoBatch =>
        /\ batch' = [request |-> batch'.request, world |-> batch'.world, meant |-> batch'.meant,
                     consent |-> batch'.consent, jobs |-> batch'.jobs]
        /\ batch'.world \in Worlds /\ Blockers(batch'.request, batch'.world) = {}
        /\ AsTicked(batch'.request, batch'.meant)
        /\ batch'.request.overrideWindow => batch'.consent
        /\ DOMAIN batch'.jobs = Requested(batch'.request)
        /\ \A d \in DOMAIN batch'.jobs : JobInv(batch'.request, batch'.world, d, batch'.jobs[d]))
  BY DEF BatchInv
<1>3. Blockers(batch'.request, batch'.world) = {} /\ AsTicked(batch'.request, batch'.meant)
  BY <1>1
<1>4. \A d \in DOMAIN batch'.jobs : JobInv(batch'.request, batch'.world, d, batch'.jobs[d])
  BY <1>1
<1>5. batch' = [request |-> batch'.request, world |-> batch'.world, meant |-> batch'.meant,
                consent |-> batch'.consent, jobs |-> batch'.jobs]
  BY <1>1
<1>6. DOMAIN batch'.jobs = Requested(batch'.request)
  BY <1>1
<1> QED BY <1>1, <1>2, <1>3, <1>4, <1>5, <1>6

LEMMA ConfirmsPlanKeeps == BarInv /\ ConfirmsPlan => BarInv'
<1> SUFFICES ASSUME BarInv, ConfirmsPlan PROVE BarInv'
  OBVIOUS
<1> USE DEF BarInv
<1>1. pending # NoPlanShown /\ UNCHANGED selected
  BY DEF ConfirmsPlan
<1>2. PICK q, meant, retried : q = pending.request /\ meant = pending.meant
                               /\ retried = pending.retried
  OBVIOUS
<1>3. /\ AsTicked(q, meant) /\ (q.overrideWindow => consent)
      /\ \A d \in DOMAIN retried : retried[d] # NothingSent
                                      => ~q.overrideWindow /\ Repeats(q, d, retried[d])
  BY <1>1, <1>2 DEF PlanInv
<1>4. PICK w \in Worlds :
        LET stopped == \/ Blockers(q, w) # {}
                       \/ IsMutating(q.kind) /\ Payload(q, w) # pending.payload
        IN  IF stopped
            THEN pending' = [pending EXCEPT !.spent = TRUE] /\ UNCHANGED <<override, consent, batch>>
            ELSE /\ pending' = NoPlanShown
                 /\ batch' = [request |-> q, world |-> w, meant |-> pending.meant, consent |-> consent,
                              jobs |-> [d \in Requested(q) |-> Job(q, w, pending.retried, d)]]
                 /\ override' = FALSE
                 /\ consent' = FALSE
  BY <1>2 DEF ConfirmsPlan
<1>5. CASE pending' = [pending EXCEPT !.spent = TRUE] /\ UNCHANGED <<override, consent, batch>>
  <2>1. pending = [request |-> q, blockers |-> pending.blockers, warnings |-> pending.warnings,
                   payload |-> pending.payload, spent |-> pending.spent, meant |-> meant,
                   retried |-> retried]
    BY <1>1, <1>2 DEF PlanInv
  <2>1a. PICK stops, warns, payload, spent :
           pending = [request |-> q, blockers |-> stops, warnings |-> warns, payload |-> payload,
                      spent |-> spent, meant |-> meant, retried |-> retried]
    BY <2>1
  <2>1b. PICK after : after = [[request |-> q, blockers |-> stops, warnings |-> warns,
                            payload |-> payload, spent |-> spent, meant |-> meant,
                            retried |-> retried] EXCEPT !.spent = TRUE]
    OBVIOUS
  <2>1c. after = [request |-> q, blockers |-> stops, warnings |-> warns, payload |-> payload,
                spent |-> TRUE, meant |-> meant, retried |-> retried]
    BY <2>1b
  <2>1d. pending' = after
    BY <1>5, <2>1a, <2>1b
  <2>2. pending' = [request |-> q, blockers |-> stops, warnings |-> warns,
                    payload |-> payload, spent |-> TRUE, meant |-> meant,
                    retried |-> retried]
    BY <2>1c, <2>1d
  <2>3. pending'.request = q /\ pending'.meant = meant /\ pending'.retried = retried
    BY <2>2
  <2>4. pending' = [request |-> pending'.request, blockers |-> pending'.blockers,
                    warnings |-> pending'.warnings, payload |-> pending'.payload,
                    spent |-> pending'.spent, meant |-> pending'.meant,
                    retried |-> pending'.retried]
    BY <2>2
  <2>5. /\ AsTicked(pending'.request, pending'.meant)
        /\ (pending'.request.overrideWindow => consent')
        /\ \A d \in DOMAIN pending'.retried : pending'.retried[d] # NothingSent =>
             ~pending'.request.overrideWindow /\ Repeats(pending'.request, d, pending'.retried[d])
    BY <1>3, <1>5, <2>3
  <2>6. PlanInv' <=> (pending' # NoPlanShown =>
        /\ pending' = [request |-> pending'.request, blockers |-> pending'.blockers,
                       warnings |-> pending'.warnings, payload |-> pending'.payload,
                       spent |-> pending'.spent, meant |-> pending'.meant,
                       retried |-> pending'.retried]
        /\ AsTicked(pending'.request, pending'.meant)
        /\ pending'.request.overrideWindow => consent'
        /\ \A d \in DOMAIN pending'.retried : pending'.retried[d] # NothingSent =>
             ~pending'.request.overrideWindow /\ Repeats(pending'.request, d, pending'.retried[d]))
    BY DEF PlanInv, AsTicked, Repeats, Requested, TargetsOf, NamesOf, Parameters, ResolveRunAs
  <2>7. PlanInv'
    BY <2>4, <2>5, <2>6
  <2>8. SelectionInv' /\ BatchInv'
    BY <1>1, <1>5 DEF SelectionInv, BatchInv
  <2> QED BY <2>7, <2>8
<1>6. CASE /\ Blockers(q, w) = {} /\ pending' = NoPlanShown
           /\ batch' = [request |-> q, world |-> w, meant |-> pending.meant, consent |-> consent,
                        jobs |-> [d \in Requested(q) |-> Job(q, w, pending.retried, d)]]
           /\ override' = FALSE /\ consent' = FALSE
  <2>1. PICK jobs : jobs = [d \in Requested(q) |-> Job(q, w, retried, d)]
    OBVIOUS
  <2>2. DOMAIN jobs = Requested(q) /\ \A d \in DOMAIN jobs : JobInv(q, w, d, jobs[d])
    <3>1. DOMAIN jobs = Requested(q) /\ \A d \in Requested(q) : jobs[d] = Job(q, w, retried, d)
      BY <2>1
    <3>2. \A d \in Requested(q) : JobInv(q, w, d, Job(q, w, retried, d))
      BY <1>3, NewJob
    <3> QED BY <3>1, <3>2
  <2>3. PICK agreed : agreed = consent
    OBVIOUS
  <2>4. batch' = [request |-> q, world |-> w, meant |-> meant, consent |-> agreed, jobs |-> jobs]
    BY <1>2, <1>6, <2>1, <2>3
  <2>5. BatchInv'
    BY <1>3, <1>6, <2>2, <2>3, <2>4, BatchMade
  <2>6. SelectionInv' /\ PlanInv'
    BY <1>1, <1>6 DEF SelectionInv, PlanInv
  <2> QED BY <2>5, <2>6
<1>7. \/ pending' = [pending EXCEPT !.spent = TRUE] /\ UNCHANGED <<override, consent, batch>>
      \/ /\ Blockers(q, w) = {} /\ pending' = NoPlanShown
         /\ batch' = [request |-> q, world |-> w, meant |-> pending.meant, consent |-> consent,
                      jobs |-> [d \in Requested(q) |-> Job(q, w, pending.retried, d)]]
         /\ override' = FALSE /\ consent' = FALSE
  BY <1>4
<1> QED BY <1>5, <1>6, <1>7

LEMMA JobsEndKeeps == BarInv /\ JobsEnd => BarInv'
<1> SUFFICES ASSUME BarInv, JobsEnd PROVE BarInv'
  OBVIOUS
<1> USE DEF BarInv
<1>1. UNCHANGED <<selected, override, consent, pending>>
      /\ \E d \in DOMAIN batch.jobs : batch.jobs[d].state = "Queued"
  BY DEF JobsEnd
<1>2. PICK failing :
         batch' = [batch EXCEPT !.jobs = [d \in DOMAIN batch.jobs |->
                     IF batch.jobs[d].state # "Queued" THEN batch.jobs[d]
                     ELSE [batch.jobs[d] EXCEPT !.state = IF d \in failing THEN "Failed" ELSE "Completed"]]]
  BY DEF JobsEnd
<1>3. batch # NoBatch
  <2>1. DOMAIN NoBatch.jobs = {}
    BY DEF NoBatch, NothingTicked
  <2> QED BY <1>1, <2>1
<1>4. PICK q, w, meant, agreed, old : /\ q = batch.request /\ w = batch.world /\ meant = batch.meant
                                      /\ agreed = batch.consent /\ old = batch.jobs
  OBVIOUS
<1>5. /\ batch = [request |-> q, world |-> w, meant |-> meant, consent |-> agreed, jobs |-> old]
      /\ w \in Worlds /\ Blockers(q, w) = {} /\ AsTicked(q, meant) /\ (q.overrideWindow => agreed)
      /\ DOMAIN old = Requested(q) /\ \A d \in DOMAIN old : JobInv(q, w, d, old[d])
  BY <1>3, <1>4 DEF BatchInv
<1>6. PICK jobs : jobs = [d \in DOMAIN old |->
                     IF old[d].state # "Queued" THEN old[d]
                     ELSE [old[d] EXCEPT !.state = IF d \in failing THEN "Failed" ELSE "Completed"]]
  OBVIOUS
<1>7. batch' = [request |-> q, world |-> w, meant |-> meant, consent |-> agreed, jobs |-> jobs]
  <2>1. batch' = [batch EXCEPT !.jobs = jobs]
    BY <1>2, <1>4, <1>6
  <2> QED BY <1>5, <2>1
<1>8. ASSUME NEW d \in DOMAIN old PROVE JobInv(q, w, d, jobs[d])
  <2>1. PICK job : job = old[d]
    OBVIOUS
  <2>2. JobInv(q, w, d, job)
    BY <1>5, <2>1
  <2>3. \/ jobs[d] = job \/ \E state : jobs[d] = [job EXCEPT !.state = state]
    BY <1>6, <2>1
  <2>4. ASSUME NEW state, jobs[d] = [job EXCEPT !.state = state] PROVE JobInv(q, w, d, jobs[d])
    <3>1. PICK new : new = [job EXCEPT !.state = state]
      OBVIOUS
    <3>2. PICK record : record = JobRequest(q, ResolveRunAs(q, w.settings), d)
      OBVIOUS
    <3>3. job = [kind |-> q.kind, dryRun |-> q.dryRun, record |-> record, sent |-> job.sent,
                 state |-> job.state, before |-> job.before]
      BY <2>2, <3>2 DEF JobInv
    <3>4. new = [kind |-> q.kind, dryRun |-> q.dryRun, record |-> record, sent |-> job.sent,
                 state |-> state, before |-> job.before]
      BY <3>1, <3>3
    <3>5. new.sent = job.sent /\ new.before = job.before /\ new.state = state
      BY <3>4
    <3>6. JobInv(q, w, d, new)
      BY <2>2, <3>2, <3>4, <3>5 DEF JobInv
    <3> QED BY <2>4, <3>1, <3>6
  <2> QED BY <2>2, <2>3, <2>4
<1>9. DOMAIN jobs = DOMAIN old
  BY <1>6
<1>10. BatchInv'
  BY <1>5, <1>7, <1>8, <1>9, BatchMade
<1>11. SelectionInv' /\ PlanInv'
  BY <1>1 DEF SelectionInv, PlanInv
<1> QED BY <1>10, <1>11

LEMMA ClearsJobsKeeps == BarInv /\ ClearsJobs => BarInv'
BY DEF BarInv, ClearsJobs, SelectionInv, PlanInv, BatchInv

LEMMA BarMoves == BarInv /\ [BarNext]_barVars => BarInv'
<1> SUFFICES ASSUME BarInv, [BarNext]_barVars PROVE BarInv'
  OBVIOUS
<1>1. CASE UNCHANGED barVars
  BY <1>1 DEF barVars, BarInv, SelectionInv, PlanInv, BatchInv
<1>2. CASE BarNext
  BY <1>2, SelectionMoves, OpensPlanKeeps, RetriesJobsKeeps, PlanMoves, ConfirmsPlanKeeps, JobsEndKeeps,
     ClearsJobsKeeps DEF BarNext
<1> QED BY <1>1, <1>2

LEMMA BarKeeps == BarSpec => []BarInv
<1> QED BY BarStarts, BarMoves, PTL DEF BarSpec

-----------------------------------------------------------------------------
(* What the invariant promises                                             *)

\* What each reason for a stop says.
LEMMA WhatStops ==
    ASSUME NEW q, NEW w
    PROVE  LET stops == Blockers(q, w)
           IN  /\ "device repeated" \in stops <=> Len(q.devices) # Cardinality(Requested(q))
               /\ "not a KB" \in stops <=> UsesKbs(q.kind) /\ Garbled \in ComposedTargets(q)
               /\ "window shut" \in stops <=> WindowIsShut(q, w) /\ ~WindowOverridden(q, w)
               /\ "no dry run" \in stops <=> DryRunRefused(q, w)
               /\ "no remediation script" \in stops <=>
                    q.kind \in Remediations /\ RemediationScript(q.kind, w.settings) = NoScript
               /\ "no target" \in stops <=> q.kind \in Remediations /\ ComposedTargets(q) = {}
               /\ "device without target" \in stops <=>
                    /\ q.kind \in Remediations /\ ComposedTargets(q) # {}
                    /\ UntargetedDevices(q, w) # {}
<1>1. PICK none, twice, notKb, many, orgs, shut, refused :
        /\ none = If(Eligible(q, w) = {}, "no device")
        /\ twice = If(Len(q.devices) # Cardinality(Requested(q)), "device repeated")
        /\ notKb = If(UsesKbs(q.kind) /\ Garbled \in ComposedTargets(q), "not a KB")
        /\ many = If(IsMutating(q.kind) /\ Len(Turns(q, w)) > w.settings.maxDevices, "too many devices")
        /\ orgs = If(IsMutating(q.kind) /\ Cardinality(Organizations(q, w)) > w.settings.maxOrgs,
                     "too many organizations")
        /\ shut = If(WindowIsShut(q, w) /\ ~WindowOverridden(q, w), "window shut")
        /\ refused = If(DryRunRefused(q, w), "no dry run")
  OBVIOUS
<1>2. \A x : x \in ActionBlockers(q, w) <=> \/ x \in none \/ x \in twice \/ x \in notKb \/ x \in many
                                           \/ x \in orgs \/ x \in shut \/ x \in refused
  BY <1>1 DEF ActionBlockers
<1>3. /\ none \subseteq {"no device"} /\ many \subseteq {"too many devices"}
      /\ orgs \subseteq {"too many organizations"}
      /\ twice = IF Len(q.devices) # Cardinality(Requested(q)) THEN {"device repeated"} ELSE {}
      /\ notKb = IF UsesKbs(q.kind) /\ Garbled \in ComposedTargets(q) THEN {"not a KB"} ELSE {}
      /\ shut = IF WindowIsShut(q, w) /\ ~WindowOverridden(q, w) THEN {"window shut"} ELSE {}
      /\ refused = IF DryRunRefused(q, w) THEN {"no dry run"} ELSE {}
  BY <1>1 DEF If
<1>4. \A x : x \in RemediationBlockers(q, w) <=>
        \/ /\ q.kind \in Remediations /\ RemediationScript(q.kind, w.settings) = NoScript
           /\ x = "no remediation script"
        \/ q.kind \in Remediations /\ ComposedTargets(q) = {} /\ x = "no target"
  BY DEF RemediationBlockers, If
<1>5. \A x : x \in RequestBlockers(q, w) =>
        \/ x \in {"no script", "no reason"}
        \/ /\ q.kind \in Remediations /\ ComposedTargets(q) # {} /\ UntargetedDevices(q, w) # {}
           /\ x = "device without target"
  BY DEF RequestBlockers, If
<1>6. q.kind \in Remediations /\ ComposedTargets(q) # {} /\ UntargetedDevices(q, w) # {}
         => "device without target" \in RequestBlockers(q, w)
  BY DEF RequestBlockers, If
<1>7. \A x : x \in Blockers(q, w) <=> \/ x \in ActionBlockers(q, w) \/ x \in RemediationBlockers(q, w)
                                     \/ x \in RequestBlockers(q, w)
  BY DEF Blockers
<1>8. ASSUME NEW x \in {"device repeated", "not a KB", "window shut", "no dry run"}
      PROVE  x \in Blockers(q, w) <=> x \in ActionBlockers(q, w)
  <2>1. x \notin {"no remediation script", "no target", "no script", "no reason", "device without target"}
    OBVIOUS
  <2> QED BY <1>4, <1>5, <1>7, <2>1
<1>8a. /\ none \subseteq {"no device"} /\ twice \subseteq {"device repeated"} /\ notKb \subseteq {"not a KB"}
       /\ many \subseteq {"too many devices"} /\ orgs \subseteq {"too many organizations"}
       /\ shut \subseteq {"window shut"} /\ refused \subseteq {"no dry run"}
  BY <1>3
<1>8b. "device repeated" \in ActionBlockers(q, w) <=> "device repeated" \in twice
  <2>1. "device repeated" \notin {"no device", "not a KB", "too many devices", "too many organizations", "window shut", "no dry run"}
    OBVIOUS
  <2>2. "device repeated" \notin none /\ "device repeated" \notin notKb /\ "device repeated" \notin many
        /\ "device repeated" \notin orgs /\ "device repeated" \notin shut /\ "device repeated" \notin refused
    BY <1>8a, <2>1
  <2> QED BY <1>2, <2>2
<1>8c. "not a KB" \in ActionBlockers(q, w) <=> "not a KB" \in notKb
  <2>1. "not a KB" \notin {"no device", "device repeated", "too many devices", "too many organizations", "window shut", "no dry run"}
    OBVIOUS
  <2>2. "not a KB" \notin none /\ "not a KB" \notin twice /\ "not a KB" \notin many
        /\ "not a KB" \notin orgs /\ "not a KB" \notin shut /\ "not a KB" \notin refused
    BY <1>8a, <2>1
  <2> QED BY <1>2, <2>2
<1>8d. "window shut" \in ActionBlockers(q, w) <=> "window shut" \in shut
  <2>1. "window shut" \notin {"no device", "device repeated", "not a KB", "too many devices", "too many organizations", "no dry run"}
    OBVIOUS
  <2>2. "window shut" \notin none /\ "window shut" \notin twice /\ "window shut" \notin notKb
        /\ "window shut" \notin many /\ "window shut" \notin orgs /\ "window shut" \notin refused
    BY <1>8a, <2>1
  <2> QED BY <1>2, <2>2
<1>8e. "no dry run" \in ActionBlockers(q, w) <=> "no dry run" \in refused
  <2>1. "no dry run" \notin {"no device", "device repeated", "not a KB", "too many devices", "too many organizations", "window shut"}
    OBVIOUS
  <2>2. "no dry run" \notin none /\ "no dry run" \notin twice /\ "no dry run" \notin notKb
        /\ "no dry run" \notin many /\ "no dry run" \notin orgs /\ "no dry run" \notin shut
    BY <1>8a, <2>1
  <2> QED BY <1>2, <2>2
<1>9. ActionBlockers(q, w) \intersect {"no remediation script", "no target", "device without target"}
        = {}
  BY <1>2, <1>3
<1>10. /\ "no remediation script" \in Blockers(q, w) <=> "no remediation script" \in RemediationBlockers(q, w)
       /\ "no target" \in Blockers(q, w) <=> "no target" \in RemediationBlockers(q, w)
  <2>1. "no remediation script" \notin RequestBlockers(q, w) /\ "no target" \notin RequestBlockers(q, w)
    BY DEF RequestBlockers, If
  <2> QED BY <1>7, <1>9, <2>1
<1>10a. "device without target" \in Blockers(q, w) <=> "device without target" \in RequestBlockers(q, w)
  <2>1. "device without target" \notin RemediationBlockers(q, w)
    BY DEF RemediationBlockers, If
  <2> QED BY <1>7, <1>9, <2>1
<1>10b. /\ "no remediation script" \in RemediationBlockers(q, w) <=>
             q.kind \in Remediations /\ RemediationScript(q.kind, w.settings) = NoScript
        /\ "no target" \in RemediationBlockers(q, w) <=>
             q.kind \in Remediations /\ ComposedTargets(q) = {}
  BY DEF RemediationBlockers, If
<1>10c. "device without target" \in RequestBlockers(q, w) <=>
            q.kind \in Remediations /\ ComposedTargets(q) # {} /\ UntargetedDevices(q, w) # {}
  BY <1>5, <1>6
<1>11. /\ "device repeated" \in twice <=> Len(q.devices) # Cardinality(Requested(q))
       /\ "not a KB" \in notKb <=> UsesKbs(q.kind) /\ Garbled \in ComposedTargets(q)
       /\ "window shut" \in shut <=> WindowIsShut(q, w) /\ ~WindowOverridden(q, w)
       /\ "no dry run" \in refused <=> DryRunRefused(q, w)
  BY <1>3
<1>12. /\ "device repeated" \in Blockers(q, w) <=> Len(q.devices) # Cardinality(Requested(q))
       /\ "not a KB" \in Blockers(q, w) <=> UsesKbs(q.kind) /\ Garbled \in ComposedTargets(q)
       /\ "window shut" \in Blockers(q, w) <=> WindowIsShut(q, w) /\ ~WindowOverridden(q, w)
       /\ "no dry run" \in Blockers(q, w) <=> DryRunRefused(q, w)
  BY <1>8, <1>8b, <1>8c, <1>8d, <1>8e, <1>11
<1> QED BY <1>10, <1>10a, <1>10b, <1>10c, <1>12

\* The parameters of one device.
LEMMA WhatIsSent ==
    ASSUME NEW q, q.kind \in ActionKind, q.dryRun \in BOOLEAN, NEW d
    PROVE  LET parameters == Parameters(q, d)
           IN  /\ parameters.targets \subseteq TargetsOf(q, d)
               /\ parameters.dryRun => q.dryRun
               /\ q.kind \in Remediations /\ ~(UsesKbs(q.kind) /\ Garbled \in TargetsOf(q, d))
                    => parameters.targets = TargetsOf(q, d)
<1>1. CASE ~RunsAScript(q.kind)
  <2>1. Parameters(q, d).targets = {} /\ Parameters(q, d).dryRun = FALSE /\ q.kind \notin Remediations
    BY <1>1 DEF Parameters, NoParameters, RunsAScript
  <2> QED BY <2>1
<1>2. CASE RunsAScript(q.kind) /\ IsTyped(q)
  <2>1. Parameters(q, d) = Verbatim /\ q.kind \notin Remediations
    BY <1>2 DEF Parameters, IsTyped, Remediations
  <2>2. Verbatim.targets = {} /\ Verbatim.dryRun = FALSE
    BY DEF Verbatim, NoParameters
  <2> QED BY <2>1, <2>2
<1>3. CASE RunsAScript(q.kind) /\ ~IsTyped(q)
  <2>1. Parameters(q, d) = BuildParameters(q.kind, TargetsOf(q, d), q.reboot, q.dryRun)
    BY <1>3 DEF Parameters
  <2>2. Parameters(q, d).targets = TargetsOf(q, d) \ If(UsesKbs(q.kind), Garbled)
        /\ Parameters(q, d).dryRun = q.dryRun
    BY <2>1 DEF BuildParameters
  <2> QED BY <2>2 DEF If
<1> QED BY <1>1, <1>2, <1>3

\* A batch that was sent.
LEMMA BatchThere ==
    ASSUME BarInv, NEW d \in DOMAIN batch.jobs
    PROVE  /\ batch.world \in Worlds /\ Blockers(batch.request, batch.world) = {}
           /\ AsTicked(batch.request, batch.meant) /\ d \in Requested(batch.request)
           /\ (batch.request.overrideWindow => batch.consent)
           /\ JobInv(batch.request, batch.world, d, batch.jobs[d])
<1>1. batch # NoBatch
  <2>1. DOMAIN NoBatch.jobs = {}
    BY DEF NoBatch, NothingTicked
  <2> QED BY <2>1
<1> QED BY <1>1 DEF BarInv, BatchInv

LEMMA BarHonours == BarInv => HonoursTheWindow
<1> SUFFICES ASSUME BarInv, NEW d \in DOMAIN batch.jobs, WasSent(batch.jobs[d]),
                    IsMutating(batch.request.kind), batch.world.settings.windowRequired,
                    ~InWindow(batch.world.settings, batch.world.day, batch.world.minute)
             PROVE  batch.world.settings.allowOverride /\ batch.consent
  BY DEF HonoursTheWindow
<1>1. PICK q, w : q = batch.request /\ w = batch.world
  OBVIOUS
<1>2. w \in Worlds /\ Blockers(q, w) = {} /\ (q.overrideWindow => batch.consent)
  BY <1>1, BatchThere
<1>3. IsWorld(w)
  BY <1>2, BarAssumption
<1>4. ~WindowIsOpen(w.settings, w.day, w.minute)
  BY <1>1, <1>3, OpenIsInWindow
<1>5. WindowIsShut(q, w)
  BY <1>1, <1>4 DEF WindowIsShut
<1>6. WindowOverridden(q, w)
  BY <1>2, <1>5, WhatStops
<1> QED BY <1>1, <1>2, <1>6 DEF WindowOverridden

LEMMA BarSends == BarInv => SendsWhatWasMeant
<1> SUFFICES ASSUME BarInv PROVE TargetsWereTicked /\ RetriesWhatWasSent
  BY DEF SendsWhatWasMeant
<1>1. ASSUME NEW d \in DOMAIN batch.jobs, NEW q, NEW w, NEW job,
             q = batch.request, w = batch.world, job = batch.jobs[d], WasSent(job)
      PROVE  /\ job.sent = SentAs(q, w, d) /\ d \in Eligible(q, w) /\ job.kind = q.kind
             /\ job.dryRun = q.dryRun /\ w \in Worlds /\ Blockers(q, w) = {}
             /\ AsTicked(q, batch.meant) /\ d \in Requested(q)
             /\ q.kind \in Remediations => TargetsOf(q, d) # {}
             /\ q.dryRun => Parameters(q, d).dryRun
             /\ job.before # NothingSent => ~q.overrideWindow /\ Repeats(q, d, job.before)
             /\ job.sent.payload.script = ResolveScript(q, w.settings)
             /\ job.sent.parameters = Parameters(q, d)
  <2>1. /\ JobInv(q, w, d, job) /\ w \in Worlds /\ Blockers(q, w) = {} /\ AsTicked(q, batch.meant)
        /\ d \in Requested(q)
    BY <1>1, BatchThere
  <2>2. job.sent # NothingSent
    BY <1>1 DEF WasSent
  <2>3. PICK record : record = JobRequest(q, ResolveRunAs(q, w.settings), d)
    OBVIOUS
  <2>4. job = [kind |-> q.kind, dryRun |-> q.dryRun, record |-> record, sent |-> job.sent,
               state |-> job.state, before |-> job.before]
    BY <2>1, <2>3 DEF JobInv
  <2>5. job.kind = q.kind /\ job.dryRun = q.dryRun
    BY <2>4
  <2>6. /\ job.sent = SentAs(q, w, d) /\ d \in Eligible(q, w)
        /\ q.kind \in Remediations => TargetsOf(q, d) # {}
        /\ q.dryRun => Parameters(q, d).dryRun
        /\ job.before # NothingSent => ~q.overrideWindow /\ Repeats(q, d, job.before)
    BY <2>1, <2>2 DEF JobInv
  <2>7. job.sent.payload.script = ResolveScript(q, w.settings) /\ job.sent.parameters = Parameters(q, d)
    BY <2>6 DEF SentAs, Payload
  <2> QED BY <2>1, <2>5, <2>6, <2>7
<1>2. ASSUME NEW d \in DOMAIN batch.jobs, NEW q, NEW w, NEW job,
             q = batch.request, w = batch.world, job = batch.jobs[d], WasSent(job)
      PROVE  /\ d \in DOMAIN batch.meant
             /\ Cardinality({i \in DOMAIN q.devices : q.devices[i] = d}) = 1
             /\ w.fleet[d].online \/ w.settings.allowOffline
             /\ job.sent.parameters.targets \subseteq UNION {{p.kb, p.name} : p \in batch.meant[d]}
             /\ job.kind \in Remediations => job.sent.parameters.targets # {}
             /\ job.dryRun = job.sent.parameters.dryRun
             /\ job.dryRun => w.library[job.sent.payload.script]
  <2>1. /\ job.sent = SentAs(q, w, d) /\ d \in Eligible(q, w) /\ job.kind = q.kind
        /\ job.dryRun = q.dryRun /\ w \in Worlds /\ Blockers(q, w) = {}
        /\ AsTicked(q, batch.meant) /\ d \in Requested(q)
        /\ q.kind \in Remediations => TargetsOf(q, d) # {}
        /\ q.dryRun => Parameters(q, d).dryRun
        /\ job.sent.payload.script = ResolveScript(q, w.settings)
        /\ job.sent.parameters = Parameters(q, d)
    BY <1>1, <1>2
  <2>2. d \in DOMAIN batch.meant /\ TargetsOf(q, d) \subseteq NamesOf(batch.meant[d])
        /\ q.devices \in Seq(BarDevice) /\ q.kind \in ActionKind /\ q.dryRun \in BOOLEAN
    BY <2>1 DEF AsTicked
  <2>3. /\ Len(q.devices) = Cardinality(Requested(q)) /\ ~DryRunRefused(q, w)
        /\ ~(UsesKbs(q.kind) /\ Garbled \in ComposedTargets(q))
    BY <2>1, WhatStops
  <2>4. Cardinality({i \in DOMAIN q.devices : q.devices[i] = d}) = 1
    <3>1. PICK s \in Seq(BarDevice) : s = q.devices
      BY <2>2
    <3>2. PICK named, places : named = Requested(q)
                               /\ places = {i \in DOMAIN q.devices : q.devices[i] = d}
      OBVIOUS
    <3>2a. places = {i \in DOMAIN s : s[i] = d}
      BY <3>1, <3>2
    <3>3. named = {s[i] : i \in DOMAIN s}
      BY <3>1, <3>2 DEF Requested
    <3>4. Len(s) = Cardinality(named) /\ d \in named
      BY <2>1, <2>3, <3>1, <3>2
    <3>5. Cardinality(places) = 1
      BY <3>2a, <3>3, <3>4, NamedOnce
    <3> QED BY <3>2, <3>5
  <2>5. w.fleet[d].online \/ w.settings.allowOffline
    BY <2>1 DEF Eligible
  <2>6. PICK parameters : parameters = Parameters(q, d)
    OBVIOUS
  <2>7. /\ parameters.targets \subseteq TargetsOf(q, d) /\ (parameters.dryRun => q.dryRun)
        /\ q.kind \in Remediations /\ ~(UsesKbs(q.kind) /\ Garbled \in TargetsOf(q, d))
             => parameters.targets = TargetsOf(q, d)
    BY <2>2, <2>6, WhatIsSent
  <2>8. q.kind \in Remediations => ~(UsesKbs(q.kind) /\ Garbled \in TargetsOf(q, d))
    <3>1. ASSUME q.kind \in Remediations PROVE RunsAScript(q.kind) /\ ~IsTyped(q)
      BY <3>1 DEF RunsAScript, IsTyped, Remediations
    <3> QED BY <2>1, <2>3, <3>1 DEF ComposedTargets
  <2>9. job.dryRun => w.library[job.sent.payload.script]
    <3>1. ASSUME q.dryRun PROVE w.library[ResolveScript(q, w.settings)]
      <4>1. DryRunSupport(q, ResolveScript(q, w.settings), w.library) = "Declared"
        BY <2>3, <3>1 DEF DryRunRefused
      <4> QED BY <4>1 DEF DryRunSupport
    <3> QED BY <2>1, <3>1
  <2>10. job.dryRun = job.sent.parameters.dryRun
    <3>1. Parameters(q, d).dryRun \in BOOLEAN
      <4>1. NoParameters.dryRun = FALSE /\ Verbatim.dryRun = FALSE
        BY DEF NoParameters, Verbatim
      <4>2. BuildParameters(q.kind, TargetsOf(q, d), q.reboot, q.dryRun).dryRun = q.dryRun
        BY DEF BuildParameters
      <4> QED BY <2>2, <4>1, <4>2 DEF Parameters
    <3>2. Parameters(q, d).dryRun => q.dryRun
      BY <2>6, <2>7
    <3>3. Parameters(q, d).dryRun = q.dryRun
      BY <2>1, <2>2, <3>1, <3>2
    <3> QED BY <2>1, <3>3
  <2>11. job.sent.parameters.targets \subseteq UNION {{p.kb, p.name} : p \in batch.meant[d]}
    BY <2>1, <2>2, <2>6, <2>7 DEF NamesOf
  <2>12. job.kind \in Remediations => job.sent.parameters.targets # {}
    BY <2>1, <2>6, <2>7, <2>8
  <2> QED BY <2>2, <2>4, <2>5, <2>9, <2>10, <2>11, <2>12
<1>3. TargetsWereTicked
  BY <1>2 DEF TargetsWereTicked, BarInv, SelectionInv
<1>4. ASSUME NEW d \in DOMAIN batch.jobs, NEW q, NEW w, NEW job,
             q = batch.request, w = batch.world, job = batch.jobs[d], WasSent(job),
             job.before # NothingSent
      PROVE  /\ ~WindowOverridden(q, w)
             /\ job.sent = IF job.kind \in Remediations
                           THEN [job.before EXCEPT !.payload.script = job.sent.payload.script]
                           ELSE job.before
  <2>1. /\ job.sent = SentAs(q, w, d) /\ job.kind = q.kind /\ w \in Worlds
        /\ ~q.overrideWindow /\ Repeats(q, d, job.before)
        /\ job.sent.payload.script = ResolveScript(q, w.settings)
    BY <1>1, <1>4
  <2>2. ~WindowOverridden(q, w)
    BY <2>1 DEF WindowOverridden
  <2>3. PICK was, message, script, runAs, parameters, forced, reason :
           /\ was = job.before /\ message = job.sent /\ script = ResolveScript(q, w.settings)
           /\ runAs = ResolveRunAs(q, w.settings) /\ parameters = Parameters(q, d)
           /\ forced = q.forced /\ reason = q.reason
    OBVIOUS
  <2>4. message = [payload |-> [script |-> script, runAs |-> runAs], parameters |-> parameters,
                forced |-> forced, reason |-> reason]
    BY <2>1, <2>3 DEF SentAs, Payload
  <2>5. PICK before : before = was.payload.script
    OBVIOUS
  <2>6. was = [payload |-> [script |-> before, runAs |-> runAs], parameters |-> parameters,
               forced |-> forced, reason |-> reason]
    <3>1. was.payload.runAs = runAs
      BY <2>1, <2>3 DEF Repeats
    <3> QED BY <2>1, <2>3, <2>5, <3>1 DEF Repeats
  <2>7. CASE q.kind \notin Remediations
    <3>1. before = q.script /\ script = q.script
      BY <2>1, <2>3, <2>5, <2>7 DEF Repeats, ResolveScript
    <3> QED BY <2>1, <2>2, <2>3, <2>4, <2>6, <2>7, <3>1
  <2>8. CASE q.kind \in Remediations
    <3>1. [was EXCEPT !.payload.script = script] = message
      BY <2>4, <2>6
    <3>2. job.sent.payload.script = script
      BY <2>1, <2>3
    <3> QED BY <2>1, <2>2, <2>3, <2>8, <3>1, <3>2
  <2> QED BY <2>7, <2>8
<1>5. RetriesWhatWasSent
  BY <1>4 DEF RetriesWhatWasSent
<1> QED BY <1>3, <1>5

LEMMA BarPlans == BarInv => BarAgreesWithPlanner
<1> SUFFICES ASSUME BarInv, NEW kind \in BarKinds, NEW opts \in BarOptions, NEW w \in Worlds,
                    NEW q, q = BuildActionRequest(kind, selected, Offered(opts, w.settings)),
                    NEW stops, stops = Blockers(q, w),
                    NEW script, script = ResolveScript(q, w.settings)
             PROVE  /\ "device repeated" \notin stops
                    /\ KindDisabled(kind, selected, w.settings) <=>
                         stops \intersect {"no remediation script", "no target", "device without target"} # {}
                    /\ DryRunDisabled(kind, opts, w.settings, w.library) => "no dry run" \in stops
                    /\ "no dry run" \in stops /\ script \in DOMAIN w.library
                         => DryRunDisabled(kind, opts, w.settings, w.library)
  BY DEF BarAgreesWithPlanner
<1>1. PICK o : o = Offered(opts, w.settings)
  OBVIOUS
<1>2. /\ IsOptions(o) /\ o.dryRun = opts.dryRun /\ o.typed = opts.typed /\ o.script = opts.script
  BY <1>1, BarAssumption, OfferedOptions
<1>3. kind \in ActionKind /\ q = BuildActionRequest(kind, selected, o) /\ IsWorld(w)
      /\ DOMAIN selected \subseteq BarDevice
  BY <1>1, BarAssumption DEF BarInv, SelectionInv
<1>4. Requested(q) = BuiltFor(kind, selected) /\ Len(q.devices) = Cardinality(Requested(q))
  BY <1>2, <1>3, BuiltAsTicked
<1>5. /\ q.kind = kind /\ q.targets = BuiltTargets(kind, selected, o)
      /\ q.dryRun = (RunsAScript(kind) /\ o.dryRun) /\ q.typed = (kind = "Script" /\ o.typed)
      /\ q.script = IF kind = "Script" THEN o.script ELSE NoScript
  BY <1>2, <1>3, BuiltRequest
<1>6. "device repeated" \notin stops
  BY <1>4, WhatStops
<1>7. /\ "no remediation script" \in stops <=>
           kind \in Remediations /\ RemediationScript(kind, w.settings) = NoScript
      /\ "no target" \in stops <=> kind \in Remediations /\ ComposedTargets(q) = {}
      /\ "device without target" \in stops <=>
           kind \in Remediations /\ ComposedTargets(q) # {} /\ UntargetedDevices(q, w) # {}
      /\ "no dry run" \in stops <=> DryRunRefused(q, w)
  BY <1>5, WhatStops
<1>8. ASSUME kind \in Remediations
      PROVE  /\ ComposedTargets(q) = {} <=> DOMAIN RemediationTargets(selected, kind) = {}
             /\ UntargetedDevices(q, w) = {}
  <2>1. PICK targets : targets = RemediationTargets(selected, kind)
    OBVIOUS
  <2>2. q.targets = targets /\ Requested(q) = DOMAIN targets
    BY <1>4, <1>5, <1>8, <2>1 DEF BuiltTargets, BuiltFor
  <2>3. \A d \in DOMAIN targets : targets[d] # {}
    BY <2>1, TargetsAreTicked DEF RemediationTargets
  <2>4. \A d \in Requested(q) : TargetsOf(q, d) = targets[d] /\ targets[d] # {}
    BY <2>2, <2>3 DEF TargetsOf
  <2>5. ComposedTargets(q) = UNION {TargetsOf(q, d) : d \in Requested(q)}
    BY <1>5, <1>8 DEF ComposedTargets, RunsAScript, IsTyped, Remediations
  <2>6. ComposedTargets(q) = {} <=> DOMAIN targets = {}
    BY <2>2, <2>4, <2>5
  <2>7. UntargetedDevices(q, w) = {}
    BY <2>4 DEF UntargetedDevices, Eligible
  <2> QED BY <2>1, <2>6, <2>7
<1>9. KindDisabled(kind, selected, w.settings) <=>
         stops \intersect {"no remediation script", "no target", "device without target"} # {}
  BY <1>7, <1>8 DEF KindDisabled
<1>10. PICK shown : shown = IF kind \in Remediations THEN RemediationScript(kind, w.settings)
                            ELSE opts.script
  OBVIOUS
<1>11. /\ RunsAScript(kind) => script = shown
       /\ IsTyped(q) <=> kind = "Script" /\ opts.typed
       /\ DryRunDisabled(kind, opts, w.settings, w.library) <=>
            /\ opts.dryRun /\ RunsAScript(kind)
            /\ \/ kind = "Script" /\ opts.typed
               \/ shown \in DOMAIN w.library /\ ~w.library[shown]
       /\ DryRunRefused(q, w) <=>
            q.dryRun /\ ~(RunsAScript(kind) /\ DryRunSupport(q, script, w.library) = "Declared")
       /\ q.dryRun <=> RunsAScript(kind) /\ opts.dryRun
  <2>1. RunsAScript(kind) => script = shown
    BY <1>2, <1>5, <1>10 DEF RunsAScript, ResolveScript
  <2>2. IsTyped(q) <=> kind = "Script" /\ opts.typed
    BY <1>2, <1>5 DEF IsTyped
  <2>3. DryRunDisabled(kind, opts, w.settings, w.library) <=>
            /\ opts.dryRun /\ RunsAScript(kind)
            /\ \/ kind = "Script" /\ opts.typed
               \/ shown \in DOMAIN w.library /\ ~w.library[shown]
    BY <1>10 DEF DryRunDisabled
  <2>4. DryRunRefused(q, w) <=>
            q.dryRun /\ ~(RunsAScript(kind) /\ DryRunSupport(q, script, w.library) = "Declared")
    BY <1>5 DEF DryRunRefused
  <2> QED BY <1>2, <1>5, <2>1, <2>2, <2>3, <2>4
<1>12. /\ IsTyped(q) => DryRunSupport(q, script, w.library) # "Declared"
       /\ ~IsTyped(q) /\ script \in DOMAIN w.library =>
            (DryRunSupport(q, script, w.library) = "Declared" <=> w.library[script])
  <2>1. script \in DOMAIN w.library => script # BuiltIn /\ script # NoScript
    BY <1>3 DEF IsWorld
  <2> QED BY <2>1 DEF DryRunSupport
<1>13. DryRunDisabled(kind, opts, w.settings, w.library) => "no dry run" \in stops
  BY <1>7, <1>11, <1>12
<1>14. "no dry run" \in stops /\ script \in DOMAIN w.library
          => DryRunDisabled(kind, opts, w.settings, w.library)
  BY <1>7, <1>11, <1>12
<1> QED BY <1>6, <1>9, <1>13, <1>14

\* Whatever changes under it, a change is sent outside a required window only when Settings
\* allows an override and it was ticked for that dispatch (planning.rs:448-478, 660-681;
\* state/actions.rs:353-355).
THEOREM TheWindowIsHonoured == BarSpec => []HonoursTheWindow
BY BarKeeps, BarHonours, PTL

\* What a device is sent was ticked for it in the plan that was confirmed, and a retry
\* repeats what was sent (selection.rs:100-125, dispatch.rs:418-445, util/jobs.rs:145-207).
THEOREM WhatWasMeantIsSent == BarSpec => []SendsWhatWasMeant
BY BarKeeps, BarSends, PTL

\* The bar disables a button exactly when the planner would stop its plan for that reason
\* (guardrails.rs:143-170, planning.rs:485-495, 551-578).
THEOREM TheBarAgrees == BarSpec => []BarAgreesWithPlanner
BY BarKeeps, BarPlans, PTL
=============================================================================
