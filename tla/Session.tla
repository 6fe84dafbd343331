------------------------------- MODULE Session -------------------------------
(***************************************************************************)
(* The session every write path runs under, and the flows that end it.     *)
(*                                                                         *)
(* A session is what AppState::job_session samples: the tenant of the      *)
(* settings and the jobs epoch.  Three commands end one: save_settings,    *)
(* when it points the app at another tenant (a Saver), and sign_in,        *)
(* reauthorize and sign_out (a Signer).  Each is one call with several     *)
(* steps between which anything else may run.                              *)
(*                                                                         *)
(* This module holds the state those flows share and their steps that do   *)
(* not touch a job or a confirmation; Approval and ActionJobs extend it.   *)
(*                                                                         *)
(* job_session reads the epoch and then the tenant, as two reads; here it  *)
(* is one.  The pairs the two reads can differ by are stale from the start *)
(* (a bump fell between them), or are the pair one read would have         *)
(* returned at the later instant.                                          *)
(***************************************************************************)
EXTENDS Integers, FiniteSets

CONSTANTS
    Tenant,          \* the instances (with client ids) the app may point at
    Saver,           \* save_settings calls that switch the tenant
    Signer,          \* sign_in, reauthorize and sign_out calls
    FirstTenant,     \* the tenant and the grant at the start
    FirstGrant,
    NoGrant,         \* no usable token in memory, or none saved
    StartsMidSave,   \* may the operator start a plan or a run while a save,
    StartsMidSign    \* or a sign-in or sign-out, has begun and not returned?

ASSUME FirstAssumption == FirstTenant \in Tenant
ASSUME GrantAssumption == FirstGrant \notin Signer /\ NoGrant \notin Signer \union {FirstGrant}
ASSUME StartAssumption == StartsMidSave \in BOOLEAN /\ StartsMidSign \in BOOLEAN

VARIABLES
    tenant,   \* AppState::settings: the tenant the app is pointed at
    epoch,    \* AppState::job_epoch
    auth,     \* AuthState::inner: the tenant it talks to, the grant in memory
    saved,    \* the keyring: per tenant, the grant a refresh token is kept for
    saving,   \* where each Saver is
    aim,      \* the tenant each Saver switches to
    signing   \* where each Signer is

flowVars == <<saving, aim, signing>>
sessionVars == <<tenant, epoch, auth, saved, flowVars>>

(* A grant is named by the sign-in that obtained it. *)
Grant == Signer \union {FirstGrant}

SessionInit ==
    /\ tenant = FirstTenant
    /\ epoch = 0
    /\ auth = [tenant |-> FirstTenant, grant |-> FirstGrant]
    /\ saved = [t \in Tenant |-> IF t = FirstTenant THEN FirstGrant ELSE NoGrant]
    /\ saving = [s \in Saver |-> "idle"]
    /\ aim = [s \in Saver |-> FirstTenant]
    /\ signing = [g \in Signer |-> "idle"]

(* AppState::job_session and job_session_is_current. *)
Now == [tenant |-> tenant, epoch |-> epoch]
Current(session) == session = Now

(* Nobody is between the first and the last step of a flow that ends the    *)
(* session, as far as the operator is kept from starting anything meanwhile.*)
Between == {"idle", "done"}
MayStart ==
    /\ StartsMidSave \/ \A s \in Saver : saving[s] \in Between
    /\ StartsMidSign \/ \A g \in Signer : signing[g] \in Between

(* require_actions_enabled: a grant is in memory (its scope and the         *)
(* Settings toggle are taken to allow actions).                             *)
Allowed == MayStart /\ auth.grant # NoGrant

-----------------------------------------------------------------------------
(* save_settings, when the tenant changes *)

(* The new settings are on disk and now in memory.  The settings writer is  *)
(* held until the command returns, so saves run one at a time.              *)
Publish(s) ==
    /\ saving[s] = "idle"
    /\ \A other \in Saver : saving[other] \in Between
    /\ \E t \in Tenant \ {tenant} :
          /\ tenant' = t
          /\ aim' = [aim EXCEPT ![s] = t]
    /\ saving' = [saving EXCEPT ![s] = "published"]
    /\ UNCHANGED <<epoch, auth, saved, signing>>

(* AuthState::apply_settings: the grant of the tenant left behind is        *)
(* dropped from memory; its keyring entry stays.                            *)
ApplySettings(s) ==
    /\ saving[s] = "published"
    /\ auth' = [tenant |-> aim[s], grant |-> NoGrant]
    /\ saving' = [saving EXCEPT ![s] = "applied"]
    /\ UNCHANGED <<tenant, epoch, saved, aim, signing>>

(* The first half of clear_jobs; the second empties the slots.              *)
SaveBumps(s) ==
    /\ saving[s] = "applied"
    /\ epoch' = epoch + 1
    /\ saving' = [saving EXCEPT ![s] = "bumped"]
    /\ UNCHANGED <<tenant, auth, saved, aim, signing>>

SaveClears(s) ==
    /\ saving[s] = "bumped"
    /\ saving' = [saving EXCEPT ![s] = "done"]
    /\ UNCHANGED <<tenant, epoch, auth, saved, aim, signing>>

-----------------------------------------------------------------------------
(* sign_in, reauthorize, sign_out: clear_session_state comes first *)

SignBumps(g) ==
    /\ signing[g] = "idle"
    /\ epoch' = epoch + 1
    /\ signing' = [signing EXCEPT ![g] = "bumped"]
    /\ UNCHANGED <<tenant, auth, saved, saving, aim>>

SignClears(g) ==
    /\ signing[g] = "bumped"
    /\ signing' = [signing EXCEPT ![g] = "cleared"]
    /\ UNCHANGED <<tenant, epoch, auth, saved, saving, aim>>

(* sign_out and reauthorize: the tokens leave memory and the keyring.       *)
Logout(g) ==
    /\ signing[g] = "cleared"
    /\ auth' = [tenant |-> auth.tenant, grant |-> NoGrant]
    /\ saved' = [saved EXCEPT ![auth.tenant] = NoGrant]
    /\ \E place \in {"browsing", "done"} :
          signing' = [signing EXCEPT ![g] = place]
    /\ UNCHANGED <<tenant, epoch, saving, aim>>

(* sign_in: a grant in memory is reused (a saved one too, by Restore), and  *)
(* otherwise the browser is opened.                                         *)
SignIn(g) ==
    /\ signing[g] = "cleared"
    /\ signing' = [signing EXCEPT ![g] =
                      IF auth.grant # NoGrant THEN "done" ELSE "browsing"]
    /\ UNCHANGED <<tenant, epoch, auth, saved, saving, aim>>

(* The browser round trip ended: a new grant for the tenant in effect.  (A  *)
(* grant that started under another tenant is refused at its store.)  When  *)
(* the keyring refuses it, the entry it would have replaced is deleted.     *)
Login(g) ==
    /\ signing[g] = "browsing"
    /\ auth' = [tenant |-> auth.tenant, grant |-> g]
    /\ \E kept \in {g, NoGrant} : saved' = [saved EXCEPT ![auth.tenant] = kept]
    /\ signing' = [signing EXCEPT ![g] = "done"]
    /\ UNCHANGED <<tenant, epoch, saving, aim>>

(* The sign-in failed or was given up.                                      *)
LoginFails(g) ==
    /\ signing[g] = "browsing"
    /\ signing' = [signing EXCEPT ![g] = "done"]
    /\ UNCHANGED <<tenant, epoch, auth, saved, saving, aim>>

-----------------------------------------------------------------------------
(* token_for, whoever asks: the saved refresh token gives a grant again, or *)
(* NinjaOne answers invalid_grant and it is forgotten.                      *)
Restore ==
    /\ auth.grant = NoGrant
    /\ saved[auth.tenant] # NoGrant
    /\ auth' = [tenant |-> auth.tenant, grant |-> saved[auth.tenant]]
    /\ UNCHANGED <<tenant, epoch, saved, flowVars>>

GrantDies ==
    /\ auth.grant # NoGrant
    /\ auth' = [tenant |-> auth.tenant, grant |-> NoGrant]
    /\ saved' = [saved EXCEPT ![auth.tenant] = NoGrant]
    /\ UNCHANGED <<tenant, epoch, flowVars>>

(* The steps of these flows that touch no job and no confirmation.          *)
FlowStep ==
    \/ \E s \in Saver : Publish(s) \/ ApplySettings(s) \/ SaveBumps(s)
    \/ \E g \in Signer : SignBumps(g) \/ Logout(g)
                           \/ SignIn(g) \/ Login(g) \/ LoginFails(g)
    \/ Restore
    \/ GrantDies

(* The step that empties the job store and the confirmation slot.           *)
ClearStep ==
    \/ \E s \in Saver : SaveClears(s)
    \/ \E g \in Signer : SignClears(g)

(* Some flow has bumped the epoch and has yet to empty the slots.           *)
ClearDue ==
    \/ \E s \in Saver : saving[s] = "bumped"
    \/ \E g \in Signer : signing[g] = "bumped"

(* A save has published another tenant and has yet to bump the epoch.       *)
BumpDue == \E s \in Saver : saving[s] \in {"published", "applied"}

-----------------------------------------------------------------------------
SessionId == [tenant : Tenant, epoch : Nat]

SessionTypeOK ==
    /\ tenant \in Tenant
    /\ epoch \in Nat
    /\ auth \in [tenant : Tenant, grant : Grant \union {NoGrant}]
    /\ saved \in [Tenant -> Grant \union {NoGrant}]
    /\ saving \in [Saver -> {"idle", "published", "applied", "bumped", "done"}]
    /\ aim \in [Saver -> Tenant]
    /\ signing \in [Signer -> {"idle", "bumped", "cleared", "browsing", "done"}]

-----------------------------------------------------------------------------
(* What the flows keep true of the session, whoever runs under it.          *)

(* Saves run one at a time, the tenant in effect is the running one's, and  *)
(* AuthState is behind it only until that save has applied its settings.    *)
SavesInTurn ==
    /\ \A a, b \in Saver : a = b \/ saving[a] \in Between \/ saving[b] \in Between
    /\ \A s \in Saver : saving[s] \notin Between => aim[s] = tenant
    /\ auth.tenant = tenant \/ \E s \in Saver : saving[s] = "published"

(* The keyring holds no other grant for the tenant than the one in memory.  *)
GrantIsSaved == auth.grant # NoGrant => saved[auth.tenant] \in {auth.grant, NoGrant}

SessionInv == SessionTypeOK /\ SavesInTurn /\ GrantIsSaved

(* A session sampled outside a save stays stale once it is: while its epoch *)
(* stands, its tenant is in effect and no save is under way, or a save has  *)
(* taken the tenant away and a bump is due.                                 *)
HeldBySaves(session) ==
    /\ session.epoch <= epoch
    /\ session.epoch = epoch =>
          IF session.tenant = tenant THEN \A s \in Saver : saving[s] \in Between
                                     ELSE BumpDue

(* A live session sampled outside a sign-in or sign-out has none under way. *)
HeldBySigns(session) == Current(session) => \A g \in Signer : signing[g] \in Between
=============================================================================
