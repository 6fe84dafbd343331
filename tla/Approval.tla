------------------------------ MODULE Approval -------------------------------
(***************************************************************************)
(* The two-step write path: plan_action builds a plan and issues a token   *)
(* bound to it, the operator confirms, run_action plans again from scratch *)
(* and goes on only if the token still matches (commands/actions/mod.rs,   *)
(* confirm.rs, the confirmation slot of state/jobs.rs), and each attempt   *)
(* of the POST asks for a token and then the send guard (api/mod.rs).      *)
(*                                                                         *)
(* A payload is what request_hash covers: the request, and the choices the *)
(* plan resolves from Settings (the script, the run-as identity), which a  *)
(* save can change between review and confirmation.  What a batch does     *)
(* after its first send is the subject of ActionJobs; here a run is one    *)
(* device's turn, with as many attempts as rejections allow.               *)
(***************************************************************************)
EXTENDS Session

CONSTANTS
    Plan,       \* plan_action calls; each one's token is its name
    Run,        \* run_action calls
    Request,    \* the requests an operator makes
    Default,    \* the Settings choices a plan resolves
    NoPlan      \* no token, or an empty slot

ASSUME PlanAssumption == NoPlan \notin Plan

VARIABLES
    default,   \* AppState::settings: the choices in effect
    slot,      \* AppState::pending_confirm
    plan,      \* per plan_action call: where it is, its session and payload
    run,       \* per run_action call: the same, with the token it presents
    sent       \* every attempt that left, with what it carried

vars == <<sessionVars, default, slot, plan, run, sent>>

NoSession == [tenant |-> FirstTenant, epoch |-> 0]
Empty == [token |-> NoPlan, request |-> "none", default |-> "none", session |-> NoSession]
Fresh(place) == [at |-> place, token |-> NoPlan, request |-> "none", default |-> "none",
                 session |-> NoSession, url |-> FirstTenant, grant |-> NoGrant]
NoCall == Fresh("idle")
Over == Fresh("done")

Init ==
    /\ SessionInit
    /\ default \in Default
    /\ slot = Empty
    /\ plan = [p \in Plan |-> NoCall]
    /\ run = [r \in Run |-> NoCall]
    /\ sent = {}

-----------------------------------------------------------------------------
(* plan_action *)

(* The session is sampled before the plan's fetches.                        *)
PlanStarts(p) ==
    /\ plan[p].at = "idle"
    /\ Allowed
    /\ \E q \in Request :
          plan' = [plan EXCEPT ![p] =
                      [at |-> "building", token |-> NoPlan, request |-> q, default |-> "none",
                       session |-> Now, url |-> FirstTenant, grant |-> auth.grant]]
    /\ UNCHANGED <<sessionVars, default, slot, run, sent>>

(* Mutant of PlanStores: the session is not checked again after the fetches. *)
PlanStoresLate(p) ==
    /\ plan[p].at = "building"
    /\ plan' = [plan EXCEPT ![p] = [@ EXCEPT !.at = "shown", !.default = default]]
    /\ slot' = [token |-> p, request |-> plan[p].request, default |-> default,
                session |-> plan[p].session]
    /\ UNCHANGED <<sessionVars, default, run, sent>>

(* The plan is built and hashed as resolved now; the token is stored, and   *)
(* replaces any earlier one, unless the session has ended.                  *)
PlanStores(p) ==
    /\ plan[p].at = "building"
    /\ IF Current(plan[p].session)
       THEN /\ plan' = [plan EXCEPT ![p] = [@ EXCEPT !.at = "shown", !.default = default]]
            /\ slot' = [token |-> p, request |-> plan[p].request, default |-> default,
                        session |-> plan[p].session]
       ELSE /\ plan' = [plan EXCEPT ![p] = Over]
            /\ UNCHANGED slot
    /\ UNCHANGED <<sessionVars, default, run, sent>>

(* The plan is blocked, or a fetch failed: no token.                        *)
PlanFails(p) ==
    /\ plan[p].at = "building"
    /\ plan' = [plan EXCEPT ![p] = Over]
    /\ UNCHANGED <<sessionVars, default, slot, run, sent>>

(* CONFIRM_TTL has passed.  The code leaves the entry and refuses it when   *)
(* it is taken, which nobody can tell from an empty slot.                   *)
Expires ==
    /\ slot # Empty
    /\ slot' = Empty
    /\ UNCHANGED <<sessionVars, default, plan, run, sent>>

-----------------------------------------------------------------------------
(* run_action *)

Shown == {p \in Plan : plan[p].at = "shown"}

(* The frontend presents some token it has been shown, or none.             *)
RunStarts(r) ==
    /\ run[r].at = "idle"
    /\ Allowed
    /\ \E q \in Request, token \in Shown \union {NoPlan} :
          run' = [run EXCEPT ![r] =
                     [at |-> "building", token |-> token, request |-> q, default |-> "none",
                      session |-> Now, url |-> FirstTenant, grant |-> NoGrant]]
    /\ UNCHANGED <<sessionVars, default, slot, plan, sent>>

(* consume_confirm_token: the plan built again must hash as the one shown.  *)
Authorized(r) ==
    /\ slot # Empty
    /\ slot.token = run[r].token
    /\ slot.request = run[r].request
    /\ slot.default = default
    /\ Current(slot.session)

(* Mutant of RunConsumes: a matching token is not used up.                  *)
RunReads(r) ==
    /\ run[r].at = "building"
    /\ run' = [run EXCEPT ![r] =
                  IF Authorized(r) THEN [@ EXCEPT !.at = "queued", !.default = default]
                                   ELSE Over]
    /\ UNCHANGED <<sessionVars, default, slot, plan, sent>>

(* Whatever the outcome, the slot is taken.  What is dispatched is what the *)
(* plan resolved, never Settings read again.                                *)
RunConsumes(r) ==
    /\ run[r].at = "building"
    /\ slot' = Empty
    /\ run' = [run EXCEPT ![r] =
                  IF Authorized(r) THEN [@ EXCEPT !.at = "queued", !.default = default]
                                   ELSE Over]
    /\ UNCHANGED <<sessionVars, default, plan, sent>>

(* The plan built again is blocked, or a fetch failed; the slot stays.      *)
RunFails(r) ==
    /\ run[r].at = "building"
    /\ run' = [run EXCEPT ![r] = Over]
    /\ UNCHANGED <<sessionVars, default, slot, plan, sent>>

-----------------------------------------------------------------------------
(* one device's turn: send_if_current, then send_with_retry *)

(* A permit is free: the session is checked, and the URL fixed.             *)
Turn(r) ==
    /\ run[r].at = "queued"
    /\ run' = [run EXCEPT ![r] =
                  IF Current(@.session) THEN [@ EXCEPT !.at = "asking", !.url = auth.tenant]
                                        ELSE Over]
    /\ UNCHANGED <<sessionVars, default, slot, plan, sent>>

(* access_token_for: refused once the tenant has moved, or signed out.      *)
GetsToken(r) ==
    /\ run[r].at = "asking"
    /\ run' = [run EXCEPT ![r] =
                  IF auth.tenant = @.url /\ auth.grant # NoGrant
                  THEN [@ EXCEPT !.at = "armed", !.grant = auth.grant]
                  ELSE Over]
    /\ UNCHANGED <<sessionVars, default, slot, plan, sent>>

(* Mutant of Sends: a retry is not asked for its session again.             *)
SendsUnguarded(r) ==
    /\ run[r].at = "armed"
    /\ run' = [run EXCEPT ![r] = [@ EXCEPT !.at = "waiting"]]
    /\ sent' = sent \union {[run |-> r, token |-> run[r].token,
                             request |-> run[r].request, default |-> run[r].default,
                             url |-> run[r].url, grant |-> run[r].grant]}
    /\ UNCHANGED <<sessionVars, default, slot, plan>>

(* The guard, asked with the token in hand, and the attempt.                *)
Sends(r) ==
    /\ run[r].at = "armed"
    /\ IF Current(run[r].session)
       THEN /\ run' = [run EXCEPT ![r] = [@ EXCEPT !.at = "waiting"]]
            /\ sent' = sent \union {[run |-> r, token |-> run[r].token,
                                     request |-> run[r].request, default |-> run[r].default,
                                     url |-> run[r].url, grant |-> run[r].grant]}
       ELSE /\ run' = [run EXCEPT ![r] = Over]
            /\ UNCHANGED sent
    /\ UNCHANGED <<sessionVars, default, slot, plan>>

(* A 429 or a 401: the next attempt asks for a token again.                 *)
Rejected(r) ==
    /\ run[r].at = "waiting"
    /\ run' = [run EXCEPT ![r] = [@ EXCEPT !.at = "asking", !.grant = NoGrant]]
    /\ UNCHANGED <<sessionVars, default, slot, plan, sent>>

(* Any other reply, or none.                                                *)
Replied(r) ==
    /\ run[r].at = "waiting"
    /\ run' = [run EXCEPT ![r] = Over]
    /\ UNCHANGED <<sessionVars, default, slot, plan, sent>>

-----------------------------------------------------------------------------
(* "Clear finished" drops the pending confirmation too.                     *)
ClearHistory ==
    /\ slot' = Empty
    /\ UNCHANGED <<sessionVars, default, plan, run, sent>>

(* The second half of clear_jobs.                                           *)
Clears ==
    /\ ClearStep
    /\ slot' = Empty
    /\ UNCHANGED <<default, plan, run, sent>>

(* Settings saved without a change of tenant.                               *)
ChangeDefault ==
    /\ \A s \in Saver : saving[s] \in Between
    /\ \E d \in Default \ {default} : default' = d
    /\ UNCHANGED <<sessionVars, slot, plan, run, sent>>

Flows ==
    /\ FlowStep
    /\ UNCHANGED <<default, slot, plan, run, sent>>

Next ==
    \/ \E p \in Plan : PlanStarts(p) \/ PlanStores(p) \/ PlanFails(p)
    \/ \E r \in Run : RunStarts(r) \/ RunConsumes(r) \/ RunFails(r)
    \/ \E r \in Run : Turn(r) \/ GetsToken(r) \/ Sends(r) \/ Rejected(r) \/ Replied(r)
    \/ Expires
    \/ ClearHistory
    \/ ChangeDefault
    \/ Clears
    \/ Flows

Spec == Init /\ [][Next]_vars

-----------------------------------------------------------------------------
PlanCall == [at : {"idle", "building", "shown", "done"}, token : {NoPlan},
             request : Request \union {"none"}, default : Default \union {"none"},
             session : SessionId, url : {FirstTenant}, grant : Grant \union {NoGrant}]
RunCall == [at : {"idle", "building", "queued", "asking", "armed", "waiting", "done"},
            token : Plan \union {NoPlan},
            request : Request \union {"none"}, default : Default \union {"none"},
            session : SessionId, url : Tenant, grant : Grant \union {NoGrant}]
Slot == [token : Plan \union {NoPlan},
         request : Request \union {"none"}, default : Default \union {"none"},
         session : SessionId]
Attempt == [run : Run, token : Plan \union {NoPlan},
            request : Request \union {"none"}, default : Default \union {"none"},
            url : Tenant, grant : Grant \union {NoGrant}]

TypeOK ==
    /\ SessionTypeOK
    /\ default \in Default
    /\ slot \in Slot
    /\ plan \in [Plan -> PlanCall]
    /\ run \in [Run -> RunCall]
    /\ sent \subseteq Attempt

(* What reaches NinjaOne is what the operator was shown and confirmed, sent *)
(* to the instance and with the grant it was approved under, on the first   *)
(* attempt and on every retry: no sign-out, sign-in, change of tenant or of *)
(* settings between review and send gets an action through under another.   *)
SentAsApproved ==
    \A s \in sent :
        /\ s.token # NoPlan
        /\ plan[s.token].at = "shown"
        /\ s.request = plan[s.token].request
        /\ s.default = plan[s.token].default
        /\ s.url = plan[s.token].session.tenant
        /\ s.grant = plan[s.token].grant

(* An approval is used once: a double click, or the same token presented by *)
(* two run_action calls whose re-plans overlap, dispatches one batch.       *)
OneRunPerApproval ==
    \A a, b \in sent : a.token = b.token => a.run = b.run

(* No approval outlives its session: one found in the slot is for the live  *)
(* session, or a session is being ended and has yet to empty the slot.      *)
ApprovalIsLive ==
    \/ slot = Empty
    \/ Current(slot.session)
    \/ ClearDue
    \/ BumpDue

-----------------------------------------------------------------------------
(* Why they hold: two strengthenings that are inductive, the second when    *)
(* nothing starts in the middle of a save, a sign-in or a sign-out.         *)

Confirmed == {"queued", "asking", "armed", "waiting"}

Held(session) == HeldBySaves(session) /\ HeldBySigns(session)

AllHeld ==
    /\ \A p \in Plan : plan[p].at \in {"building", "shown"} => Held(plan[p].session)
    /\ \A r \in Run : run[r].at \in {"building"} \union Confirmed => Held(run[r].session)

(* While a plan's session lasts, the only grant to be had is the one it was *)
(* made under.                                                              *)
SameGrant ==
    \A p \in Plan : plan[p].at \in {"building", "shown"} =>
        /\ plan[p].grant # NoGrant
        /\ Current(plan[p].session) =>
              /\ auth.grant \in {plan[p].grant, NoGrant}
              /\ saved[auth.tenant] \in {plan[p].grant, NoGrant}

(* The slot holds what its plan was shown with.                             *)
SlotIsShown ==
    slot # Empty =>
        /\ slot.token \in Plan
        /\ LET p == plan[slot.token]
           IN  /\ p.at = "shown"
               /\ slot.request = p.request
               /\ slot.default = p.default
               /\ slot.session = p.session

(* A confirmed run carries what its plan was shown with.                    *)
ConfirmedAsShown ==
    \A r \in Run : run[r].at \in Confirmed =>
        /\ run[r].token \in Plan
        /\ LET p == plan[run[r].token]
           IN  /\ p.at = "shown"
               /\ run[r].request = p.request
               /\ run[r].default = p.default

(* As long as its session lasts, that is its plan's session too, and the    *)
(* URL and the grant it holds are that session's.                           *)
ConfirmedInSession ==
    \A r \in Run : run[r].at \in Confirmed /\ Current(run[r].session) =>
        LET p == plan[run[r].token]
        IN  /\ run[r].session = p.session
            /\ run[r].at # "queued" => run[r].url = p.session.tenant
            /\ run[r].at = "armed" => run[r].grant = p.grant

(* A token that confirmed a run is not in the slot, and confirmed no other. *)
Used(r, p) ==
    \/ run[r].at \in Confirmed /\ run[r].token = p
    \/ \E s \in sent : s.run = r /\ s.token = p

UsedOnce ==
    \A r \in Run, p \in Plan : Used(r, p) =>
        /\ plan[p].at = "shown"
        /\ slot.token # p
        /\ \A other \in Run : Used(other, p) => other = r

SentHasPlan == \A s \in sent : s.token \in Plan

(* This much holds whatever starts when.                                    *)
OnceInv ==
    /\ TypeOK
    /\ SlotIsShown
    /\ ConfirmedAsShown
    /\ UsedOnce
    /\ SentHasPlan
    /\ ApprovalIsLive

IInv ==
    /\ OnceInv
    /\ SessionInv
    /\ AllHeld
    /\ SameGrant
    /\ ConfirmedInSession
    /\ SentAsApproved
=============================================================================
