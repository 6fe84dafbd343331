------------------------------ MODULE AuthGrant ------------------------------
(***************************************************************************)
(* AuthState (src-tauri/src/auth.rs): the tokens in memory, the refresh    *)
(* token in the keyring, and the OAuth server that rotates it.             *)
(*                                                                         *)
(* A caller is one task asking for a token (access_token, or               *)
(* access_token_for when it has a URL to keep to).  Its steps are the      *)
(* stretches of token_for and refresh between the points where others run: *)
(* the checks under the read lock, the wait for refresh_lock, the read of  *)
(* the grant, the keyring, the POST, and the store, whose two halves       *)
(* (memory, keyring) are joined by persist_lock.  Signers are login_pkce   *)
(* calls, leavers are logout calls.                                        *)
(*                                                                         *)
(* A caller is cancelled when its query leg is abandoned: the future is    *)
(* dropped, but a store or a discard already handed to a blocking thread   *)
(* runs to its end, without refresh_lock.                                  *)
(*                                                                         *)
(* Left out: the client secret, the scope, and the entry of installs that  *)
(* predate tenant scoping.                                                 *)
(***************************************************************************)
EXTENDS Integers, FiniteSets

CONSTANTS
    Caller,             \* tasks that ask for a token
    Keeper,             \* those of them that have a URL to keep to
    Signer,             \* sign-ins; each names the grant it obtains
    Leaver,             \* sign-outs
    Tenant,
    FirstTenant,        \* the tenant configured, and the grant saved for it,
    FirstGrant,         \* when the program starts
    NoGrant,
    Anyone,             \* the caller that keeps to no tenant
    Nobody,             \* holder of a free lock
    ReadsAcrossSessions,\* may a session end between the read of a grant's stamp and of
                        \* its saved token, or that read fall within a sign-in or -out?
    MaxIssued,          \* bound: access tokens a grant gives
    MaxLost,            \* bound: grants whose newest token a fault drops
    MaxSwitches         \* bound: changes of tenant

ASSUME FirstAssumption == FirstTenant \in Tenant
ASSUME KeeperAssumption == Keeper \subseteq Caller
ASSUME GrantAssumption == FirstGrant \notin Signer /\ NoGrant \notin Signer \union {FirstGrant}
ASSUME NameAssumption ==
    /\ Anyone \notin Tenant /\ Nobody \notin Caller \union Signer \union Leaver
    /\ Caller \intersect Signer = {} /\ (Caller \union Signer) \intersect Leaver = {}
ASSUME ChoiceAssumption == ReadsAcrossSessions \in BOOLEAN
ASSUME BoundAssumption == MaxIssued \in Nat \ {0} /\ MaxLost \in Nat
                          /\ MaxSwitches \in Nat

VARIABLES
    tenant,     \* Inner::base_url and client_id
    session,    \* Inner::session
    tokens,     \* Inner::tokens, or NoTokens
    stale,      \* its refresh_at has passed, or a 401 made it so
    keyring,    \* the saved refresh token of each tenant, or NoToken
    lock,       \* refresh_lock's holder
    persist,    \* persist_lock's holder
    call,       \* per caller: where it is, and its locals
    signer,     \* per sign-in: where it is, its stamp, what it was issued
    leaver,     \* per sign-out: where it is, the tenant it deletes for
    server,     \* per grant: its tenant, the refresh token it takes, or 0, and the tokens it gave
    over,       \* grants a finished sign-out or sign-in has ended
    lost,       \* grants whose newest token some fault or cancellation dropped
    dropped,    \* those whose newest token was not stored, tenant or session having moved
    switches    \* how often the tenant has changed

memoryVars == <<tenant, session, tokens, stale>>
flowVars == <<signer, leaver>>
worldVars == <<server, over, lost, dropped, switches>>
vars == <<memoryVars, keyring, lock, persist, call, flowVars, worldVars>>

Grant == Signer \union {FirstGrant}

NoTokens == [grant |-> NoGrant, access |-> 0, refresh |-> 0]
NoToken == [grant |-> NoGrant, number |-> 0]
NoStamp == [tenant |-> Anyone, session |-> 0]
NoCall == [at |-> "idle", want |-> Anyone, failed |-> NoStamp, stamp |-> NoStamp,
           token |-> NoToken, access |-> 0, refresh |-> 0]
NoSigner(place) == [at |-> place, stamp |-> NoStamp, number |-> 0]
NoLeaver(place) == [at |-> place, tenant |-> Anyone, ends |-> {}]
NotIssued == [tenant |-> Anyone, valid |-> 0, issued |-> 0]

Init ==
    /\ tenant = FirstTenant
    /\ session = 0
    /\ tokens = NoTokens
    /\ stale = FALSE
    /\ keyring = [t \in Tenant |-> IF t = FirstTenant
                                   THEN [grant |-> FirstGrant, number |-> 1] ELSE NoToken]
    /\ lock = Nobody
    /\ persist = Nobody
    /\ call = [c \in Caller |-> NoCall]
    /\ signer = [g \in Signer |-> NoSigner("idle")]
    /\ leaver = [o \in Leaver |-> NoLeaver("idle")]
    /\ server = [g \in Grant |-> IF g = FirstGrant
                                 THEN [tenant |-> FirstTenant, valid |-> 1, issued |-> 1]
                                 ELSE NotIssued]
    /\ over = {}
    /\ lost = {}
    /\ dropped = {}
    /\ switches = 0

(* A fault or a cancellation drops the newest token of some grants.         *)
Loses(grants) ==
    /\ lost' = lost \union (grants \ over)
    /\ Cardinality(lost') <= MaxLost

(* AuthState::grant_stamp.                                                  *)
Stamp == [tenant |-> tenant, session |-> session]

-----------------------------------------------------------------------------
(* token_for, up to the lock *)

Moved(c) == call[c].want \notin {Anyone, tenant}
Fresh == tokens # NoTokens /\ ~stale

Unlock(c) == lock' = IF lock = c THEN Nobody ELSE lock

Given(c, grant, access) ==
    [NoCall EXCEPT !.at = "using", !.want = call[c].want,
                   !.token = [grant |-> grant, number |-> 0], !.access = access]

(* A request's URL is built for the tenant in effect (tenant_stamp), and    *)
(* every attempt of it asks for that tenant.                                *)
Asks(c) ==
    /\ call[c].at = "idle"
    /\ call' = [call EXCEPT ![c] = [NoCall EXCEPT !.at = "asking",
                                        !.want = IF c \in Keeper THEN tenant ELSE Anyone]]
    /\ UNCHANGED <<memoryVars, keyring, lock, persist, flowVars, worldVars>>

(* The checks, before the wait and again under the lock.                    *)
Checks(c) == call[c].at = "asking" \/ (call[c].at = "waiting" /\ lock = Nobody)

(* TenantMoved.                                                             *)
FindsMoved(c) ==
    /\ Checks(c)
    /\ Moved(c)
    /\ call' = [call EXCEPT ![c] = NoCall]
    /\ UNCHANGED <<memoryVars, keyring, lock, persist, flowVars, worldVars>>

FindsFresh(c) ==
    /\ Checks(c)
    /\ ~Moved(c) /\ Fresh
    /\ call' = [call EXCEPT ![c] = Given(c, tokens.grant, tokens.access)]
    /\ UNCHANGED <<memoryVars, keyring, lock, persist, flowVars, worldVars>>

(* The failures so far are counted before the wait.                         *)
Queues(c) ==
    /\ call[c].at = "asking"
    /\ ~Moved(c) /\ ~Fresh
    /\ call' = [call EXCEPT ![c].at = "waiting"]
    /\ UNCHANGED <<memoryVars, keyring, lock, persist, flowVars, worldVars>>

(* Mutant of TakesLock: the refresh is not serialized.                      *)
TakesNoLock(c) ==
    /\ call[c].at = "waiting"
    /\ ~Moved(c) /\ ~Fresh
    /\ call' = [call EXCEPT ![c].at = "granting"]
    /\ UNCHANGED <<memoryVars, keyring, lock, persist, flowVars, worldVars>>

(* Nobody refreshed it meanwhile: this caller does.                         *)
TakesLock(c) ==
    /\ call[c].at = "waiting"
    /\ lock = Nobody
    /\ ~Moved(c) /\ ~Fresh
    /\ lock' = c
    /\ call' = [call EXCEPT ![c].at = "granting"]
    /\ UNCHANGED <<memoryVars, keyring, persist, flowVars, worldVars>>

-----------------------------------------------------------------------------
(* token_for, under the lock *)

(* A failure kept under the lock, with its stamp, is seen by every caller   *)
(* that is waiting for it: refresh_failures has moved since they came.      *)
Records(c) ==
    /\ call' = [d \in Caller |->
                   IF d = c THEN NoCall
                   ELSE IF call[d].at = "waiting" THEN [call[d] EXCEPT !.failed = call[c].stamp]
                   ELSE call[d]]
    /\ Unlock(c)

(* Mutant of ReadsGrant: the tenant asked for is not compared.              *)
ReadsAnyGrant(c) ==
    /\ call[c].at = "granting"
    /\ call[c].failed # Stamp
    /\ call' = [call EXCEPT ![c] =
                   IF tokens.refresh # 0
                   THEN [@ EXCEPT !.at = "posting", !.failed = NoStamp, !.stamp = Stamp,
                                  !.token = [grant |-> tokens.grant, number |-> tokens.refresh]]
                   ELSE [@ EXCEPT !.at = "loading", !.failed = NoStamp, !.stamp = Stamp]]
    /\ UNCHANGED <<memoryVars, keyring, lock, persist, flowVars, worldVars>>

(* refresh_grant: the stamp and the refresh token of one instant.  Another  *)
(* tenant's grant, or one that failed while this caller waited, ends it.    *)
ReadsGrant(c) ==
    /\ call[c].at = "granting"
    /\ ~Moved(c)
    /\ call[c].failed # Stamp
    /\ call' = [call EXCEPT ![c] =
                   IF tokens.refresh # 0
                   THEN [@ EXCEPT !.at = "posting", !.failed = NoStamp, !.stamp = Stamp,
                                  !.token = [grant |-> tokens.grant, number |-> tokens.refresh]]
                   ELSE [@ EXCEPT !.at = "loading", !.failed = NoStamp, !.stamp = Stamp]]
    /\ UNCHANGED <<memoryVars, keyring, lock, persist, flowVars, worldVars>>

GivesUp(c) ==
    /\ call[c].at = "granting"
    /\ Moved(c) \/ call[c].failed = Stamp
    /\ call' = [call EXCEPT ![c] = NoCall]
    /\ Unlock(c)
    /\ UNCHANGED <<memoryVars, keyring, persist, flowVars, worldVars>>

(* A sign-in or a sign-out is between its memory half and its keyring half. *)
MidFlow ==
    \/ \E g \in Signer : signer[g].at = "saving"
    \/ \E o \in Leaver : leaver[o].at = "deleting"

(* load_saved_refresh reads the keyring without persist_lock.               *)
Loads(c) ==
    /\ call[c].at = "loading"
    /\ ReadsAcrossSessions \/ (~MidFlow /\ call[c].stamp.session = session)
    /\ keyring[call[c].stamp.tenant] # NoToken
    /\ call' = [call EXCEPT ![c] = [@ EXCEPT !.at = "posting",
                                              !.token = keyring[call[c].stamp.tenant]]]
    /\ UNCHANGED <<memoryVars, keyring, lock, persist, flowVars, worldVars>>

(* Nothing is saved, or the keyring cannot be read: shared either way.      *)
LoadFails(c) ==
    /\ call[c].at = "loading"
    /\ Records(c)
    /\ UNCHANGED <<memoryVars, keyring, persist, flowVars, worldVars>>

-----------------------------------------------------------------------------
(* the OAuth server, and the reply *)

Accepts(token) ==
    /\ server[token.grant].valid = token.number
    /\ server[token.grant].issued < MaxIssued

(* A new access token, with a new refresh token in place of the one         *)
(* presented, or without one.                                               *)
Grants(c) ==
    /\ call[c].at = "posting"
    /\ Accepts(call[c].token)
    /\ LET g == call[c].token.grant
           next == server[g].issued + 1
       IN  \E new \in {0, next} :
              /\ server' = [server EXCEPT ![g].issued = next,
                                          ![g].valid = IF new # 0 THEN new ELSE @]
              /\ call' = [call EXCEPT ![c] = [@ EXCEPT !.at = "granted", !.access = next,
                                                        !.refresh = new]]
    /\ UNCHANGED <<memoryVars, keyring, lock, persist, flowVars, over, lost, dropped, switches>>

(* The server rotated the token, and its reply is lost or unreadable.       *)
ReplyLost(c) ==
    /\ call[c].at = "posting"
    /\ Accepts(call[c].token)
    /\ LET g == call[c].token.grant
       IN  /\ server' = [server EXCEPT ![g].issued = @ + 1, ![g].valid = server[g].issued + 1]
           /\ Loses({g})
    /\ Records(c)
    /\ UNCHANGED <<memoryVars, keyring, persist, flowVars, over, dropped, switches>>

(* A 429, a 5xx, or no connection: the server changed nothing.              *)
Unavailable(c) ==
    /\ call[c].at = "posting"
    /\ Records(c)
    /\ UNCHANGED <<memoryVars, keyring, persist, flowVars, worldVars>>

(* invalid_grant: an administrator has revoked the grant, or the token is   *)
(* not its newest, for which some servers revoke it.                        *)
FindsDead(c) ==
    /\ call[c].at = "posting"
    /\ LET g == call[c].token.grant
           revoked == [server EXCEPT ![g].valid = 0, ![g].issued = 0]
       IN  server' = revoked \/ (server[g].valid # call[c].token.number /\ UNCHANGED server)
    /\ call' = [call EXCEPT ![c] = [@ EXCEPT !.at = "dead", !.token = NoToken]]
    /\ UNCHANGED <<memoryVars, keyring, lock, persist, flowVars, over, lost, dropped, switches>>

(* Mutant of Stores: the session the grant began in is not compared.        *)
StoresAnySession(c) ==
    /\ call[c].at = "granted"
    /\ persist = Nobody
    /\ call[c].stamp.tenant = tenant
    /\ tokens' = [grant |-> call[c].token.grant, access |-> call[c].access,
                  refresh |-> IF call[c].refresh # 0 THEN call[c].refresh ELSE tokens.refresh]
    /\ stale' = FALSE
    /\ persist' = c
    /\ call' = [call EXCEPT ![c].at = "saving"]
    /\ UNCHANGED <<tenant, session, keyring, lock, flowVars, worldVars>>

(* store_tokens_blocking, the half under the write lock: the tokens go into *)
(* memory if tenant and session are those the refresh began in.  Without a  *)
(* new refresh token the old one is carried over.                           *)
Stores(c) ==
    /\ call[c].at = "granted"
    /\ persist = Nobody
    /\ call[c].stamp = Stamp
    /\ tokens' = [grant |-> call[c].token.grant, access |-> call[c].access,
                  refresh |-> IF call[c].refresh # 0 THEN call[c].refresh ELSE tokens.refresh]
    /\ stale' = FALSE
    /\ persist' = c
    /\ call' = [call EXCEPT ![c].at = "saving"]
    /\ UNCHANGED <<tenant, session, keyring, lock, flowVars, worldVars>>

StoreRefused(c) ==
    /\ call[c].at = "granted"
    /\ persist = Nobody
    /\ call[c].stamp # Stamp
    /\ dropped' = IF call[c].refresh # 0
                  THEN dropped \union ({call[c].token.grant} \ (over \union lost)) ELSE dropped
    /\ call' = [call EXCEPT ![c] = NoCall]
    /\ Unlock(c)
    /\ UNCHANGED <<memoryVars, keyring, persist, flowVars, server, over, lost, switches>>

(* The keyring half.  A fault is only logged: the session goes on without   *)
(* surviving a restart.  A cancelled caller gets no token.                  *)
Saves(c) ==
    /\ call[c].at = "saving"
    /\ \/ /\ call[c].refresh # 0
          /\ keyring' = [keyring EXCEPT ![call[c].stamp.tenant] =
                            [grant |-> call[c].token.grant, number |-> call[c].refresh]]
          /\ UNCHANGED lost
       \/ /\ UNCHANGED keyring
          /\ IF call[c].refresh # 0 THEN Loses({call[c].token.grant}) ELSE UNCHANGED lost
    /\ persist' = Nobody
    /\ call' = [call EXCEPT ![c] = IF lock = c THEN Given(c, @.token.grant, @.access)
                                             ELSE NoCall]
    /\ Unlock(c)
    /\ UNCHANGED <<memoryVars, flowVars, server, over, dropped, switches>>

(* Mutant of Discards: a dead grant of an earlier session is discarded too. *)
DiscardsAnySession(c) ==
    /\ call[c].at = "dead"
    /\ persist = Nobody
    /\ tokens' = IF call[c].stamp.tenant = tenant THEN NoTokens ELSE tokens
    /\ stale' = (stale /\ call[c].stamp.tenant # tenant)
    /\ persist' = c
    /\ call' = [call EXCEPT ![c].at = "deleting"]
    /\ UNCHANGED <<tenant, session, keyring, lock, flowVars, worldVars>>

(* discard_dead_grant: nothing at all in another session, the tokens in     *)
(* memory if the tenant is still the grant's, and then its saved token.     *)
Discards(c) ==
    /\ call[c].at = "dead"
    /\ persist = Nobody
    /\ call[c].stamp.session = session
    /\ tokens' = IF call[c].stamp.tenant = tenant THEN NoTokens ELSE tokens
    /\ stale' = (stale /\ call[c].stamp.tenant # tenant)
    /\ persist' = c
    /\ call' = [call EXCEPT ![c].at = "deleting"]
    /\ UNCHANGED <<tenant, session, keyring, lock, flowVars, worldVars>>

DiscardSkipped(c) ==
    /\ call[c].at = "dead"
    /\ persist = Nobody
    /\ call[c].stamp.session # session
    /\ call' = [call EXCEPT ![c] = NoCall]
    /\ Unlock(c)
    /\ UNCHANGED <<memoryVars, keyring, persist, flowVars, worldVars>>

(* Not shared with the waiting callers: they find nothing to refresh.       *)
Deletes(c) ==
    /\ call[c].at = "deleting"
    /\ \E kept \in {keyring[call[c].stamp.tenant], NoToken} :
          keyring' = [keyring EXCEPT ![call[c].stamp.tenant] = kept]
    /\ persist' = Nobody
    /\ call' = [call EXCEPT ![c] = NoCall]
    /\ Unlock(c)
    /\ UNCHANGED <<memoryVars, flowVars, worldVars>>

(* The future is dropped.  Before the POST that is the end of it; during it *)
(* the reply is dropped too; after it the blocking task runs on unlocked.   *)
Cancels(c) ==
    /\ call[c].at # "idle"
    /\ IF call[c].at \in {"posting", "granted", "saving"}
          THEN Loses({call[c].token.grant}) ELSE UNCHANGED lost
    /\ IF call[c].at \in {"granted", "saving", "dead", "deleting"}
          THEN lock = c /\ UNCHANGED call
          ELSE call' = [call EXCEPT ![c] = NoCall]
    /\ Unlock(c)
    /\ UNCHANGED <<memoryVars, keyring, persist, flowVars, server, over, dropped, switches>>

-----------------------------------------------------------------------------
(* the token in use *)

Replied(c) ==
    /\ call[c].at = "using"
    /\ call' = [call EXCEPT ![c] = NoCall]
    /\ UNCHANGED <<memoryVars, keyring, lock, persist, flowVars, worldVars>>

(* A 401: invalidate_access_token, if it is still the token in memory, and  *)
(* the next attempt of the same request.                                    *)
Unauthorized(c) ==
    /\ call[c].at = "using"
    /\ stale' = (stale \/ (tokens.grant = call[c].token.grant /\ tokens.access = call[c].access))
    /\ call' = [call EXCEPT ![c] = [NoCall EXCEPT !.at = "asking", !.want = call[c].want]]
    /\ UNCHANGED <<tenant, session, tokens, keyring, lock, persist, flowVars, worldVars>>

Expires ==
    /\ tokens # NoTokens /\ ~stale
    /\ stale' = TRUE
    /\ UNCHANGED <<tenant, session, tokens, keyring, lock, persist, call, flowVars, worldVars>>

-----------------------------------------------------------------------------
(* login_pkce, one at a time (login_gate) *)

LoginBegins(g) ==
    /\ signer[g].at = "idle"
    /\ \A h \in Signer : signer[h].at \in {"idle", "done"}
    /\ signer' = [signer EXCEPT ![g] = [@ EXCEPT !.at = "browsing", !.stamp = Stamp]]
    /\ UNCHANGED <<memoryVars, keyring, lock, persist, call, leaver, worldVars>>

(* The code is exchanged, for tokens with or without a refresh token.       *)
Issues(g) ==
    /\ signer[g].at = "browsing"
    /\ \E number \in {0, 1} :
          /\ server' = [server EXCEPT ![g] = [tenant |-> signer[g].stamp.tenant,
                                              valid |-> number, issued |-> 1]]
          /\ signer' = [signer EXCEPT ![g] = [@ EXCEPT !.at = "issued", !.number = number]]
    /\ UNCHANGED <<memoryVars, keyring, lock, persist, call, leaver, over, lost, dropped, switches>>

(* Closed, refused or timed out; or issued to a session that has ended.     *)
LoginFails(g) ==
    /\ \/ signer[g].at = "browsing"
       \/ signer[g].at = "issued" /\ persist = Nobody /\ signer[g].stamp # Stamp
    /\ signer' = [signer EXCEPT ![g] = NoSigner("done")]
    /\ lost' = IF signer[g].at = "issued" THEN lost \union {g} ELSE lost
    /\ UNCHANGED <<memoryVars, keyring, lock, persist, call, leaver, server, over, dropped, switches>>

LoginStores(g) ==
    /\ signer[g].at = "issued"
    /\ persist = Nobody
    /\ signer[g].stamp = Stamp
    /\ tokens' = [grant |-> g, access |-> 1, refresh |-> signer[g].number]
    /\ stale' = FALSE
    /\ session' = session + 1
    /\ persist' = g
    /\ signer' = [signer EXCEPT ![g].at = "saving"]
    /\ UNCHANGED <<tenant, keyring, lock, call, leaver, worldVars>>

(* The grants a tenant has had so far, which a sign-out or a sign-in ends.  *)
Ended(t) ==
    {g \in Grant : server[g].tenant = t}
    \union {g \in Signer : signer[g].at \notin {"idle", "done"} /\ signer[g].stamp.tenant = t}

(* The refresh token is saved; when there is none, or the keyring refuses   *)
(* it, the previous session's is deleted, which may fail as well.           *)
LoginSaves(g) ==
    /\ signer[g].at = "saving"
    /\ LET t == signer[g].stamp.tenant
       IN  \/ /\ signer[g].number # 0
              /\ keyring' = [keyring EXCEPT ![t] = [grant |-> g, number |-> signer[g].number]]
              /\ over' = over \union (Ended(t) \ {g})
              /\ UNCHANGED lost
           \/ /\ keyring' = [keyring EXCEPT ![t] = NoToken]
              /\ over' = over \union (Ended(t) \ {g})
              /\ IF signer[g].number # 0 THEN Loses({g}) ELSE UNCHANGED lost
           \/ /\ Loses(Ended(t))
              /\ UNCHANGED <<keyring, over>>
    /\ persist' = Nobody
    /\ signer' = [signer EXCEPT ![g] = NoSigner("done")]
    /\ UNCHANGED <<memoryVars, lock, call, leaver, server, dropped, switches>>

-----------------------------------------------------------------------------
(* logout *)

(* Memory first: the session is over whatever the keyring does.             *)
LogoutForgets(o) ==
    /\ leaver[o].at = "idle"
    /\ persist = Nobody
    /\ session' = session + 1
    /\ tokens' = NoTokens
    /\ stale' = FALSE
    /\ persist' = o
    /\ leaver' = [leaver EXCEPT ![o] = [at |-> "deleting", tenant |-> tenant,
                                        ends |-> Ended(tenant)]]
    /\ UNCHANGED <<tenant, keyring, lock, call, signer, worldVars>>

(* A delete that fails is reported to the operator.                         *)
LogoutDeletes(o) ==
    /\ leaver[o].at = "deleting"
    /\ \/ /\ keyring' = [keyring EXCEPT ![leaver[o].tenant] = NoToken]
          /\ over' = over \union leaver[o].ends
          /\ UNCHANGED lost
       \/ /\ Loses(leaver[o].ends)
          /\ UNCHANGED <<keyring, over>>
    /\ persist' = Nobody
    /\ leaver' = [leaver EXCEPT ![o] = NoLeaver("done")]
    /\ UNCHANGED <<memoryVars, lock, call, signer, server, dropped, switches>>

-----------------------------------------------------------------------------
(* apply_settings: the grant in memory goes with the tenant it is for; the  *)
(* saved one stays.                                                         *)
SwitchesTenant ==
    /\ switches < MaxSwitches
    /\ switches' = switches + 1
    /\ \E t \in Tenant \ {tenant} : tenant' = t
    /\ tokens' = NoTokens
    /\ stale' = FALSE
    /\ UNCHANGED <<session, keyring, lock, persist, call, flowVars, server, over, lost, dropped>>

CallerStep(c) ==
    \/ Asks(c) \/ FindsMoved(c) \/ FindsFresh(c) \/ Queues(c) \/ TakesLock(c)
    \/ ReadsGrant(c) \/ GivesUp(c) \/ Loads(c) \/ LoadFails(c)
    \/ Grants(c) \/ ReplyLost(c) \/ Unavailable(c) \/ FindsDead(c)
    \/ Stores(c) \/ StoreRefused(c) \/ Saves(c)
    \/ Discards(c) \/ DiscardSkipped(c) \/ Deletes(c)
    \/ Cancels(c) \/ Replied(c) \/ Unauthorized(c)

SignerStep(g) ==
    LoginBegins(g) \/ Issues(g) \/ LoginFails(g) \/ LoginStores(g) \/ LoginSaves(g)

Next ==
    \/ \E c \in Caller : CallerStep(c)
    \/ \E g \in Signer : SignerStep(g)
    \/ \E o \in Leaver : LogoutForgets(o) \/ LogoutDeletes(o)
    \/ Expires
    \/ SwitchesTenant

Spec == Init /\ [][Next]_vars

-----------------------------------------------------------------------------
Places == {"idle", "asking", "waiting", "granting", "loading", "posting",
           "granted", "saving", "dead", "deleting", "using"}
AnyGrant == Grant \union {NoGrant}
Token == [grant : AnyGrant, number : Nat]
Tokens == [grant : AnyGrant, access : Nat, refresh : Nat]
GrantStamp == [tenant : Tenant \union {Anyone}, session : Nat]
Call == [at : Places, want : Tenant \union {Anyone}, failed : GrantStamp,
         stamp : GrantStamp, token : Token, access : Nat, refresh : Nat]
SignIn == [at : {"idle", "browsing", "issued", "saving", "done"},
           stamp : GrantStamp, number : Nat]
SignOut == [at : {"idle", "deleting", "done"}, tenant : Tenant \union {Anyone},
            ends : SUBSET Grant]
GrantRecord == [tenant : Tenant \union {Anyone}, valid : Nat, issued : Nat]

Types ==
    /\ tenant \in Tenant
    /\ session \in Nat
    /\ tokens \in Tokens
    /\ stale \in BOOLEAN
    /\ keyring \in [Tenant -> Token]
    /\ lock \in Caller \union {Nobody}
    /\ persist \in Caller \union Signer \union Leaver \union {Nobody}
    /\ call \in [Caller -> Call]
    /\ signer \in [Signer -> SignIn]
    /\ leaver \in [Leaver -> SignOut]
    /\ server \in [Grant -> GrantRecord]
    /\ over \subseteq Grant
    /\ lost \subseteq Grant
    /\ dropped \subseteq Grant
    /\ switches \in Nat

(* A refresh up to its reply is run under refresh_lock.                     *)
RefreshesLocked ==
    \A c \in Caller : call[c].at \in {"granting", "loading", "posting"} => lock = c

(* persist_lock is held exactly by whoever is between the two halves of a   *)
(* store, a discard, a sign-in or a sign-out.                               *)
HalvesHold ==
    /\ \A c \in Caller : persist = c <=> call[c].at \in {"saving", "deleting"}
    /\ \A g \in Signer : persist = g <=> signer[g].at = "saving"
    /\ \A o \in Leaver : persist = o <=> leaver[o].at = "deleting"

(* Every variable has its type, a refresh up to its reply is run under      *)
(* refresh_lock, and the halves of a change to the saved token hold         *)
(* persist_lock.                                                            *)
TypeOK == Types /\ RefreshesLocked /\ HalvesHold

IssuedBy(grant, t) == grant # NoGrant => server[grant].tenant = t

(* No tenant's credential goes to another: the tokens in memory are of the  *)
(* tenant in effect, a saved one of the tenant it is filed under, a refresh *)
(* presents one of the host it POSTs to, and a request built for a tenant   *)
(* is signed with a token of that tenant, however it waited.                *)
TokensAreTheTenants ==
    /\ IssuedBy(tokens.grant, tenant)
    /\ \A t \in Tenant : IssuedBy(keyring[t].grant, t)
    /\ \A c \in Caller :
          /\ call[c].at \in {"posting", "granted", "saving"} =>
                IssuedBy(call[c].token.grant, call[c].stamp.tenant)
          /\ call[c].at = "using" /\ call[c].want # Anyone =>
                IssuedBy(call[c].token.grant, call[c].want)

(* A grant that a sign-out or a later sign-in has ended never comes back:   *)
(* not into memory and not into the keyring, by no refresh or sign-in that  *)
(* was under way (GrantStamp; "what makes the sign-out stick").             *)
EndedStaysEnded ==
    /\ tokens.grant \notin over
    /\ \A t \in Tenant : keyring[t].grant \notin over

Kept(g) ==
    LET token == [grant |-> g, number |-> server[g].valid]
    IN  \/ tokens.grant = g /\ tokens.refresh = token.number
        \/ \E t \in Tenant : keyring[t] = token
        \/ \E c \in Caller : call[c].at \in {"granted", "saving"} /\ call[c].token.grant = g
                              /\ call[c].refresh = token.number
        \/ g \in Signer /\ signer[g].at \in {"issued", "saving"}

(* A sign-in that is alive at the server is never forgotten: its newest     *)
(* refresh token is in memory, saved, or in a reply about to be stored,     *)
(* whatever other callers, 401s and dead grants of earlier sessions do,     *)
(* unless it was ended, or the token was lost on the way: with a reply, a   *)
(* keyring write or a cancellation, or for a tenant or session that moved.  *)
LiveGrantIsKept ==
    \A g \in Grant :
        server[g].valid # 0 /\ g \notin over \union lost \union dropped
            => Kept(g)

(* apply_settings: after a change of tenant the previous tenant's sign-in   *)
(* is still there ("switching back finds it"), if no fault lost it.         *)
SwitchingBackFindsIt ==
    \A g \in Grant :
        server[g].valid # 0 /\ g \notin over \union lost => Kept(g)

(* A refresh never presents a token the server has replaced ("every loser   *)
(* presents an already-consumed token"), as long as none was lost.          *)
PresentsTheNewest ==
    \A c \in Caller : call[c].at = "posting" =>
        LET token == call[c].token
        IN  \/ server[token.grant].valid \in {0, token.number}
            \/ token.grant \in over \union lost \union dropped
=============================================================================
