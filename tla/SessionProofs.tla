---------------------------- MODULE SessionProofs ----------------------------
(* What the flows of Session keep true, for every number of saves and sign- *)
(* ins: cited by the proofs of the modules that run under a session.        *)
EXTENDS Session, TLAPS

USE FirstAssumption, GrantAssumption DEF Grant, SessionId, Between

SessionStep == FlowStep \/ ClearStep

(* The session starts well formed (AppState::new).                          *)
LEMMA SessionStarts == SessionInit => SessionInv
BY DEF SessionInit, SessionInv, SessionTypeOK, SavesInTurn, GrantIsSaved

(* Every step of a flow leaves the session well typed.                      *)
LEMMA SessionTypeStep == SessionTypeOK /\ SessionStep => SessionTypeOK'
<1> SUFFICES ASSUME SessionTypeOK, SessionStep PROVE SessionTypeOK'
  OBVIOUS
<1> USE DEF SessionTypeOK, flowVars
<1>1. ASSUME NEW s \in Saver, Publish(s) PROVE SessionTypeOK'
  BY <1>1 DEF Publish
<1>2. ASSUME NEW s \in Saver, ApplySettings(s) PROVE SessionTypeOK'
  BY <1>2 DEF ApplySettings
<1>3. ASSUME NEW s \in Saver, SaveBumps(s) PROVE SessionTypeOK'
  BY <1>3 DEF SaveBumps
<1>4. ASSUME NEW s \in Saver, SaveClears(s) PROVE SessionTypeOK'
  BY <1>4 DEF SaveClears
<1>5. ASSUME NEW g \in Signer, SignBumps(g) PROVE SessionTypeOK'
  BY <1>5 DEF SignBumps
<1>6. ASSUME NEW g \in Signer, SignClears(g) PROVE SessionTypeOK'
  BY <1>6 DEF SignClears
<1>7. ASSUME NEW g \in Signer, Logout(g) PROVE SessionTypeOK'
  BY <1>7 DEF Logout
<1>8. ASSUME NEW g \in Signer, SignIn(g) PROVE SessionTypeOK'
  BY <1>8 DEF SignIn
<1>9. ASSUME NEW g \in Signer, Login(g) PROVE SessionTypeOK'
  BY <1>9 DEF Login
<1>10. ASSUME NEW g \in Signer, LoginFails(g) PROVE SessionTypeOK'
  BY <1>10 DEF LoginFails
<1>11. CASE Restore BY <1>11 DEF Restore
<1>12. CASE GrantDies BY <1>12 DEF GrantDies
<1> QED
  BY <1>1, <1>2, <1>3, <1>4, <1>5, <1>6, <1>7, <1>8, <1>9, <1>10, <1>11, <1>12
  DEF SessionStep, FlowStep, ClearStep

(* Saves stay in turn and the keyring in step, whatever flow moves.         *)
LEMMA SessionInvStep == SessionInv /\ SessionStep => SessionInv'
<1> SUFFICES ASSUME SessionInv, SessionStep PROVE SavesInTurn' /\ GrantIsSaved'
  BY SessionTypeStep DEF SessionInv
<1> USE DEF SessionInv, SessionTypeOK, SavesInTurn, GrantIsSaved, flowVars
<1>1. ASSUME NEW s \in Saver, Publish(s) PROVE SavesInTurn' /\ GrantIsSaved'
  BY <1>1 DEF Publish
<1>2. ASSUME NEW s \in Saver, ApplySettings(s) PROVE SavesInTurn' /\ GrantIsSaved'
  BY <1>2 DEF ApplySettings
<1>3. ASSUME NEW s \in Saver, SaveBumps(s) PROVE SavesInTurn' /\ GrantIsSaved'
  BY <1>3 DEF SaveBumps
<1>4. ASSUME NEW s \in Saver, SaveClears(s) PROVE SavesInTurn' /\ GrantIsSaved'
  BY <1>4 DEF SaveClears
<1>5. ASSUME NEW g \in Signer, SignBumps(g) PROVE SavesInTurn' /\ GrantIsSaved'
  BY <1>5 DEF SignBumps
<1>6. ASSUME NEW g \in Signer, SignClears(g) PROVE SavesInTurn' /\ GrantIsSaved'
  BY <1>6 DEF SignClears
<1>7. ASSUME NEW g \in Signer, Logout(g) PROVE SavesInTurn' /\ GrantIsSaved'
  BY <1>7 DEF Logout
<1>8. ASSUME NEW g \in Signer, SignIn(g) PROVE SavesInTurn' /\ GrantIsSaved'
  BY <1>8 DEF SignIn
<1>9. ASSUME NEW g \in Signer, Login(g) PROVE SavesInTurn' /\ GrantIsSaved'
  BY <1>9 DEF Login
<1>10. ASSUME NEW g \in Signer, LoginFails(g) PROVE SavesInTurn' /\ GrantIsSaved'
  BY <1>10 DEF LoginFails
<1>11. CASE Restore BY <1>11 DEF Restore
<1>12. CASE GrantDies BY <1>12 DEF GrantDies
<1> QED
  BY <1>1, <1>2, <1>3, <1>4, <1>5, <1>6, <1>7, <1>8, <1>9, <1>10, <1>11, <1>12
  DEF SessionStep, FlowStep, ClearStep

(* A session that was sampled outside a save and has gone stale never comes *)
(* back: this is why every store may trust one comparison at its end.       *)
LEMMA HeldStep ==
    ASSUME SessionInv, SessionStep, NEW session \in SessionId, HeldBySaves(session)
    PROVE  /\ HeldBySaves(session)'
           /\ Current(session)' => Current(session)
<1> USE DEF SessionInv, SessionTypeOK, SavesInTurn, HeldBySaves, BumpDue, Current, Now, flowVars
<1>1. ASSUME NEW s \in Saver, Publish(s)
      PROVE HeldBySaves(session)' /\ (Current(session)' => Current(session))
  BY <1>1 DEF Publish
<1>2. ASSUME NEW s \in Saver, ApplySettings(s)
      PROVE HeldBySaves(session)' /\ (Current(session)' => Current(session))
  BY <1>2 DEF ApplySettings
<1>3. ASSUME NEW s \in Saver, SaveBumps(s)
      PROVE HeldBySaves(session)' /\ (Current(session)' => Current(session))
  BY <1>3 DEF SaveBumps
<1>4. ASSUME NEW s \in Saver, SaveClears(s)
      PROVE HeldBySaves(session)' /\ (Current(session)' => Current(session))
  BY <1>4 DEF SaveClears
<1>5. ASSUME NEW g \in Signer, SignBumps(g)
      PROVE HeldBySaves(session)' /\ (Current(session)' => Current(session))
  BY <1>5 DEF SignBumps
<1>6. CASE UNCHANGED <<tenant, epoch, saving>>
  BY <1>6
<1> QED
  BY <1>1, <1>2, <1>3, <1>4, <1>5, <1>6
  DEF SessionStep, FlowStep, ClearStep, SignClears, Logout, SignIn, Login, LoginFails,
      Restore, GrantDies

(* A live session that has no sign-in under way has none after any step     *)
(* that leaves it live, and its grant and keyring are touched by none.      *)
LEMMA HeldBySignsStep ==
    ASSUME SessionInv, SessionStep, NEW session \in SessionId,
           HeldBySaves(session), HeldBySigns(session)
    PROVE  /\ HeldBySigns(session)'
           /\ Current(session)' =>
                 /\ auth'.tenant = auth.tenant
                 /\ auth'.grant \in {auth.grant, saved[auth.tenant], NoGrant}
                 /\ saved'[auth.tenant] \in {saved[auth.tenant], NoGrant}
<1> USE HeldStep
    DEF SessionInv, SessionTypeOK, SavesInTurn, HeldBySaves, HeldBySigns, BumpDue,
        Current, Now, flowVars
<1> DEFINE Kept == /\ HeldBySigns(session)'
                   /\ Current(session)' =>
                         /\ auth'.tenant = auth.tenant
                         /\ auth'.grant \in {auth.grant, saved[auth.tenant], NoGrant}
                         /\ saved'[auth.tenant] \in {saved[auth.tenant], NoGrant}
<1>1. ASSUME NEW s \in Saver, Publish(s) PROVE Kept
  BY <1>1 DEF Publish
<1>2. ASSUME NEW s \in Saver, ApplySettings(s) PROVE Kept
  BY <1>2 DEF ApplySettings
<1>3. ASSUME NEW s \in Saver, SaveBumps(s) PROVE Kept
  BY <1>3 DEF SaveBumps
<1>4. ASSUME NEW s \in Saver, SaveClears(s) PROVE Kept
  BY <1>4 DEF SaveClears
<1>5. ASSUME NEW g \in Signer, SignBumps(g) PROVE Kept
  BY <1>5 DEF SignBumps
<1>6. ASSUME NEW g \in Signer, SignClears(g) PROVE Kept
  BY <1>6 DEF SignClears
<1>7. ASSUME NEW g \in Signer, Logout(g) PROVE Kept
  BY <1>7 DEF Logout
<1>8. ASSUME NEW g \in Signer, SignIn(g) PROVE Kept
  BY <1>8 DEF SignIn
<1>9. ASSUME NEW g \in Signer, Login(g) PROVE Kept
  BY <1>9 DEF Login
<1>10. ASSUME NEW g \in Signer, LoginFails(g) PROVE Kept
  BY <1>10 DEF LoginFails
<1>11. CASE Restore BY <1>11 DEF Restore
<1>12. CASE GrantDies BY <1>12 DEF GrantDies
<1> QED
  BY <1>1, <1>2, <1>3, <1>4, <1>5, <1>6, <1>7, <1>8, <1>9, <1>10, <1>11, <1>12
  DEF SessionStep, FlowStep, ClearStep

(* What a session leaves behind, a row or an approval, is of the live       *)
(* session or about to be cleared, until the step that clears it.           *)
LEMMA LiveOrEnding ==
    ASSUME SessionTypeOK, FlowStep, NEW session, Current(session) \/ ClearDue \/ BumpDue
    PROVE  Current(session)' \/ ClearDue' \/ BumpDue'
<1> USE DEF Current, Now, ClearDue, BumpDue, flowVars
<1>1. DOMAIN saving = Saver /\ DOMAIN signing = Signer
  BY DEF SessionTypeOK
<1>2. ASSUME NEW s \in Saver, Publish(s) \/ ApplySettings(s)
      PROVE Current(session)' \/ ClearDue' \/ BumpDue'
  BY <1>1, <1>2 DEF Publish, ApplySettings
<1>3. ASSUME NEW s \in Saver, SaveBumps(s) PROVE Current(session)' \/ ClearDue' \/ BumpDue'
  BY <1>1, <1>3 DEF SaveBumps
<1>4. ASSUME NEW g \in Signer, SignBumps(g) PROVE Current(session)' \/ ClearDue' \/ BumpDue'
  BY <1>1, <1>4 DEF SignBumps
<1>5. ASSUME NEW g \in Signer, Logout(g) \/ SignIn(g) \/ Login(g) \/ LoginFails(g)
      PROVE Current(session)' \/ ClearDue' \/ BumpDue'
  BY <1>1, <1>5 DEF Logout, SignIn, Login, LoginFails
<1>6. CASE Restore \/ GrantDies
  BY <1>6 DEF Restore, GrantDies
<1> QED BY <1>2, <1>3, <1>4, <1>5, <1>6 DEF FlowStep
=============================================================================
