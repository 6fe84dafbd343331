--------------------------- MODULE AuthGrantProofs ---------------------------
(***************************************************************************)
(* AuthGrant keeps its types, and no credential leaves its tenant, for any *)
(* number of callers, sign-ins, sign-outs and tenants, whether or not the  *)
(* keyring is read across the end of a session.  If it is not, what was    *)
(* ended stays ended, and a live sign-in keeps its newest token.           *)
(*                                                                         *)
(* The argument: a grant is issued once, by one tenant's server, and every *)
(* place that holds a token of it is a place for that tenant.  A refresh   *)
(* reads its stamp and its token together and stores under that stamp; a   *)
(* caller with a URL goes on only with a stamp of the URL's tenant.        *)
(***************************************************************************)
EXTENDS AuthGrant, TLAPS

USE FirstAssumption, KeeperAssumption, GrantAssumption, NameAssumption, BoundAssumption

(* Of tenant t, for what holds a token of that grant.                       *)
Owns(t, grant) == grant \in Grant /\ server[grant].tenant = t

Refreshing == {"loading", "posting", "granted", "saving", "dead", "deleting"}

CallOwns(c) ==
    /\ call[c].at \in Refreshing =>
          /\ call[c].stamp.tenant \in Tenant
          /\ call[c].want \in {Anyone, call[c].stamp.tenant}
    /\ call[c].at \in {"posting", "granted", "saving"} =>
          Owns(call[c].stamp.tenant, call[c].token.grant)
    /\ call[c].at = "using" =>
          /\ call[c].token.grant \in Grant
          /\ call[c].want # Anyone => Owns(call[c].want, call[c].token.grant)

SignerOwns(g) ==
    /\ signer[g].at \in {"browsing", "issued", "saving"} => signer[g].stamp.tenant \in Tenant
    /\ signer[g].at \in {"issued", "saving"} => server[g].tenant = signer[g].stamp.tenant
    /\ signer[g].at \in {"idle", "browsing"} => server[g].tenant = Anyone

MemoryOwns == tokens = NoTokens \/ Owns(tenant, tokens.grant)
KeyringOwns == \A t \in Tenant : keyring[t] = NoToken \/ Owns(t, keyring[t].grant)

(* Every credential belongs where it is.                                    *)
Owned ==
    /\ MemoryOwns
    /\ KeyringOwns
    /\ \A c \in Caller : CallOwns(c)
    /\ \A g \in Signer : SignerOwns(g)

IInv == TypeOK /\ Owned

LEMMA Empty ==
    /\ NoTokens \in Tokens /\ NoToken \in Token /\ NoStamp \in GrantStamp /\ NoCall \in Call
    /\ \A p \in {"idle", "done"} : NoSigner(p) \in SignIn /\ NoLeaver(p) \in SignOut
    /\ NotIssued \in GrantRecord
<1>1. NoTokens \in Tokens /\ NoToken \in Token /\ NoStamp \in GrantStamp
  BY DEF NoTokens, Tokens, NoToken, Token, NoStamp, GrantStamp, AnyGrant
<1>2. NoCall \in Call
  BY <1>1 DEF NoCall, Call, Places
<1>3. \A p \in {"idle", "done"} : NoSigner(p) \in SignIn /\ NoLeaver(p) \in SignOut
  BY <1>1 DEF NoSigner, SignIn, NoLeaver, SignOut
<1>4. NotIssued \in GrantRecord
  BY DEF NotIssued, GrantRecord
<1>5. QED BY <1>1, <1>2, <1>3, <1>4

LEMMA Starts == Init => IInv
<1>1. ASSUME Init PROVE Types
  <2>1. [grant |-> FirstGrant, number |-> 1] \in Token
    BY DEF Token, AnyGrant, Grant
  <2>2. [tenant |-> FirstTenant, valid |-> 1, issued |-> 1] \in GrantRecord
    BY DEF GrantRecord
  <2>3. keyring \in [Tenant -> Token] /\ server \in [Grant -> GrantRecord]
    BY <1>1, <2>1, <2>2, Empty DEF Init
  <2>4. QED BY <1>1, <2>3, Empty DEF Init, Types
<1>2. Init => RefreshesLocked /\ HalvesHold
  BY DEF Init, RefreshesLocked, HalvesHold, NoCall, NoSigner, NoLeaver
<1>3. Init => Owned
  BY DEF Init, Owned, MemoryOwns, KeyringOwns, CallOwns, SignerOwns, Owns, Refreshing,
         Grant, NoTokens, NoToken, NoStamp, NoCall, NoSigner, NotIssued
<1>4. QED BY <1>1, <1>2, <1>3 DEF IInv, TypeOK

(* The records of one caller, one grant, and the changes made to them.      *)
LEMMA CallTyped ==
    ASSUME Types, NEW c \in Caller
    PROVE  /\ call[c] \in Call
           /\ call[c].want \in Tenant \union {Anyone} /\ call[c].stamp \in GrantStamp
           /\ call[c].token \in Token /\ call[c].token.grant \in AnyGrant
           /\ call[c].access \in Nat /\ call[c].refresh \in Nat
           /\ \A p \in Places : [call EXCEPT ![c].at = p] \in [Caller -> Call]
           /\ \A r \in Call : [call EXCEPT ![c] = r] \in [Caller -> Call]
<1>1. call \in [Caller -> Call] /\ call[c] \in Call
  BY DEF Types
<1>2. \A p \in Places : [call[c] EXCEPT !.at = p] \in Call
  BY <1>1 DEF Call
<1>3. QED
  BY <1>1, <1>2 DEF Call, Token

LEMMA GrantTyped ==
    ASSUME Types, NEW g \in Grant
    PROVE  server[g] \in GrantRecord /\ server[g].issued \in Nat /\ server[g].valid \in Nat
BY DEF Types, GrantRecord

LEMMA StampTyped == Types => Stamp \in GrantStamp
BY DEF Types, Stamp, GrantStamp

LEMMA LosesTyped == \A grants \in SUBSET Grant : Types /\ Loses(grants) => lost' \subseteq Grant
BY DEF Types, Loses

LEMMA RecordsTyped ==
    ASSUME Types, NEW c \in Caller, Records(c)
    PROVE  call' \in [Caller -> Call] /\ lock' \in Caller \union {Nobody}
<1>1. \A d \in Caller : [call[d] EXCEPT !.failed = call[c].stamp] \in Call
  BY CallTyped DEF Types, Call
<1>2. QED
  BY <1>1, Empty DEF Types, Records, Unlock

LEMMA GivenTyped ==
    ASSUME Types, NEW c \in Caller, NEW g \in AnyGrant, NEW n \in Nat
    PROVE  Given(c, g, n) \in Call
BY CallTyped, Empty DEF Given, Call, NoCall, Places, Token

LEMMA TypesKept == ASSUME IInv, Next PROVE Types'
<1> USE DEF IInv, TypeOK, memoryVars, flowVars, worldVars
<1>1. ASSUME NEW c \in Caller, CallerStep(c) PROVE Types'
  <2>1. CASE Asks(c)
    <3>1. [NoCall EXCEPT !.at = "asking", !.want = IF c \in Keeper THEN tenant ELSE Anyone] \in Call
      BY Empty DEF Types, Call, Places
    <3>2. QED BY <2>1, <3>1, CallTyped DEF Asks, Types
  <2>2. CASE FindsMoved(c)
    BY <2>2, Empty, CallTyped DEF FindsMoved, Types
  <2>3. CASE FindsFresh(c)
    <3>1. Given(c, tokens.grant, tokens.access) \in Call
      BY GivenTyped DEF Types, Tokens
    <3>2. QED BY <2>3, <3>1, CallTyped DEF FindsFresh, Types
  <2>4. CASE Queues(c)
    BY <2>4, CallTyped DEF Queues, Types, Places
  <2>5. CASE TakesLock(c)
    BY <2>5, CallTyped DEF TakesLock, Types, Places
  <2>6. CASE ReadsGrant(c)
    <3>1. call[c] \in Call /\ Stamp \in GrantStamp /\ NoStamp \in GrantStamp
      BY CallTyped, StampTyped, Empty
    <3>2. [grant |-> tokens.grant, number |-> tokens.refresh] \in Token
      BY DEF Types, Token, Tokens
    <3>3. [call[c] EXCEPT !.at = "posting", !.failed = NoStamp, !.stamp = Stamp,
              !.token = [grant |-> tokens.grant, number |-> tokens.refresh]] \in Call
      BY <3>1, <3>2 DEF Call, Places
    <3>4. [call[c] EXCEPT !.at = "loading", !.failed = NoStamp, !.stamp = Stamp] \in Call
      BY <3>1 DEF Call, Places
    <3>5. QED BY <2>6, <3>3, <3>4, CallTyped DEF ReadsGrant, Types
  <2>7. CASE GivesUp(c)
    BY <2>7, Empty, CallTyped DEF GivesUp, Unlock, Types
  <2>8. CASE Loads(c)
    <3>1. keyring[call[c].stamp.tenant] \in Token
      BY <2>8 DEF Loads, Types, Owned, CallOwns, Refreshing
    <3>2. [call[c] EXCEPT !.at = "posting", !.token = keyring[call[c].stamp.tenant]] \in Call
      <4>1. call[c] \in Call BY CallTyped
      <4>2. QED BY <3>1, <4>1 DEF Call, Places
    <3>3. QED BY <2>8, <3>2, CallTyped DEF Loads, Types
  <2>9. CASE LoadFails(c)
    BY <2>9, RecordsTyped DEF LoadFails, Types
  <2>10. CASE Grants(c)
    <3>1. call[c].token.grant \in Grant
      BY <2>10 DEF Grants, Owned, CallOwns, Owns
    <3>2. PICK next \in Nat : next = server[call[c].token.grant].issued + 1
      BY <3>1, GrantTyped
    <3>3. server' \in [Grant -> GrantRecord]
      BY <2>10, <3>1, SMTT(30) DEF Grants, Types, GrantRecord
    <3>4. PICK n \in {0, next} : call' = [call EXCEPT ![c] =
              [call[c] EXCEPT !.at = "granted", !.access = next, !.refresh = n]]
      BY <2>10, <3>2 DEF Grants, Types
    <3>5. call[c] \in Call /\ n \in Nat
      BY <3>2, CallTyped
    <3>6. [call[c] EXCEPT !.at = "granted", !.access = next, !.refresh = n] \in Call
      BY <3>5 DEF Call, Places
    <3>7. QED BY <2>10, <3>3, <3>4, <3>6, CallTyped DEF Grants, Types
  <2>11. CASE ReplyLost(c)
    <3>1. call[c].token.grant \in Grant
      BY <2>11 DEF ReplyLost, Owned, CallOwns, Owns
    <3>2. server' \in [Grant -> GrantRecord]
      BY <2>11, <3>1 DEF ReplyLost, Types, GrantRecord
    <3>3. lost' \subseteq Grant
      BY <2>11, <3>1, LosesTyped DEF ReplyLost
    <3>4. QED BY <2>11, <3>2, <3>3, RecordsTyped DEF ReplyLost, Types
  <2>12. CASE Unavailable(c)
    BY <2>12, RecordsTyped DEF Unavailable, Types
  <2>13. CASE FindsDead(c)
    <3>1. call[c].token.grant \in Grant
      BY <2>13 DEF FindsDead, Owned, CallOwns, Owns
    <3>2. server' \in [Grant -> GrantRecord]
      BY <2>13, <3>1 DEF FindsDead, Types, GrantRecord
    <3>3. [call[c] EXCEPT !.at = "dead", !.token = NoToken] \in Call
      BY CallTyped, Empty DEF Call, Places
    <3>4. QED BY <2>13, <3>2, <3>3, CallTyped DEF FindsDead, Types
  <2>14. CASE Stores(c)
    <3>1. tokens' \in Tokens
      BY <2>14, CallTyped DEF Stores, Types, Tokens
    <3>2. QED BY <2>14, <3>1, CallTyped DEF Stores, Types, Places
  <2>15. CASE StoreRefused(c)
    <3>1. dropped' \subseteq Grant
      BY <2>15 DEF StoreRefused, Types, Owned, CallOwns, Owns
    <3>2. QED BY <2>15, <3>1, Empty, CallTyped DEF StoreRefused, Unlock, Types
  <2>16. CASE Saves(c)
    <3>1. call[c].token.grant \in Grant
      BY <2>16 DEF Saves, Owned, CallOwns, Owns
    <3>2. [grant |-> call[c].token.grant, number |-> call[c].refresh] \in Token
      BY CallTyped DEF Token
    <3>3. keyring' \in [Tenant -> Token] /\ lost' \subseteq Grant
      BY <2>16, <3>1, <3>2, LosesTyped DEF Saves, Types
    <3>4. Given(c, call[c].token.grant, call[c].access) \in Call
      BY CallTyped, GivenTyped
    <3>5. call' \in [Caller -> Call]
      BY <2>16, <3>4, CallTyped, Empty DEF Saves, Types
    <3>6. QED BY <2>16, <3>3, <3>5 DEF Saves, Unlock, Types
  <2>17. CASE Discards(c)
    <3>1. tokens' \in Tokens
      BY <2>17, Empty DEF Discards, Types
    <3>2. QED BY <2>17, <3>1, CallTyped DEF Discards, Types, Places
  <2>18. CASE DiscardSkipped(c)
    BY <2>18, Empty, CallTyped DEF DiscardSkipped, Unlock, Types
  <2>19. CASE Deletes(c)
    <3>1. keyring' \in [Tenant -> Token]
      BY <2>19, Empty DEF Deletes, Types, Owned, CallOwns, Refreshing
    <3>2. QED BY <2>19, <3>1, Empty, CallTyped DEF Deletes, Unlock, Types
  <2>20. CASE Cancels(c)
    <3>1. call' \in [Caller -> Call]
      BY <2>20, Empty, CallTyped DEF Cancels, Types
    <3>2. lost' \subseteq Grant
      BY <2>20, LosesTyped DEF Cancels, Types, Owned, CallOwns, Owns
    <3>3. QED BY <2>20, <3>1, <3>2 DEF Cancels, Unlock, Types
  <2>21. CASE Replied(c)
    BY <2>21, Empty, CallTyped DEF Replied, Types
  <2>22. CASE Unauthorized(c)
    <3>1. [NoCall EXCEPT !.at = "asking", !.want = call[c].want] \in Call
      BY Empty, CallTyped DEF Call, Places
    <3>2. stale' \in BOOLEAN
      BY <2>22 DEF Unauthorized, Types
    <3>3. QED BY <2>22, <3>1, <3>2, CallTyped DEF Unauthorized, Types
    <2> QED BY <1>1, <2>1, <2>2, <2>3, <2>4, <2>5, <2>6, <2>7, <2>8, <2>9,
         <2>10, <2>11, <2>12, <2>13, <2>14, <2>15, <2>16, <2>17, <2>18,
         <2>19, <2>20, <2>21, <2>22 DEF CallerStep
<1>2. ASSUME NEW g \in Signer, SignerStep(g) PROVE Types'
  <2>1. CASE LoginBegins(g)
    <3>1. signer[g] \in SignIn /\ Stamp \in GrantStamp
      BY StampTyped DEF Types
    <3>2. [signer[g] EXCEPT !.at = "browsing", !.stamp = Stamp] \in SignIn
      BY <3>1 DEF SignIn
    <3>3. QED BY <2>1, <3>2 DEF LoginBegins, Types
  <2>2. CASE Issues(g)
    <3>1. PICK number \in {0, 1} :
            /\ server' = [server EXCEPT ![g] = [tenant |-> signer[g].stamp.tenant,
                                                valid |-> number, issued |-> 1]]
            /\ signer' = [signer EXCEPT ![g] = [@ EXCEPT !.at = "issued", !.number = number]]
      BY <2>2 DEF Issues
    <3>2. [tenant |-> signer[g].stamp.tenant, valid |-> number, issued |-> 1] \in GrantRecord
      BY DEF Types, SignIn, GrantStamp, GrantRecord
    <3>3. signer[g] \in SignIn /\ number \in Nat
      BY DEF Types
    <3>4. [signer[g] EXCEPT !.at = "issued", !.number = number] \in SignIn
      BY <3>3 DEF SignIn
    <3>5. QED BY <2>2, <3>1, <3>2, <3>4 DEF Issues, Types, Grant
  <2>3. CASE LoginFails(g)
    <3>1. lost' \subseteq Grant
      BY <2>3, LosesTyped DEF LoginFails, Types, Grant
    <3>2. QED BY <2>3, <3>1, Empty DEF LoginFails, Types
  <2>4. CASE LoginStores(g)
    <3>1. [signer[g] EXCEPT !.at = "saving"] \in SignIn
      BY DEF Types, SignIn
    <3>2. tokens' \in Tokens
      BY <2>4 DEF LoginStores, Types, SignIn, Tokens, AnyGrant, Grant
    <3>3. session' \in Nat /\ signer' \in [Signer -> SignIn]
      BY <2>4, <3>1 DEF LoginStores, Types
    <3>4. QED BY <2>4, <3>2, <3>3 DEF LoginStores, Types
  <2>5. CASE LoginSaves(g)
    <3>1. [grant |-> g, number |-> signer[g].number] \in Token
      BY DEF Types, SignIn, Token, AnyGrant, Grant
    <3>2. keyring' \in [Tenant -> Token]
      BY <2>5, <3>1, Empty DEF LoginSaves, Types
    <3>3. Ended(signer[g].stamp.tenant) \subseteq Grant /\ g \in Grant
      BY DEF Ended, Grant
    <3>4. over' \subseteq Grant /\ lost' \subseteq Grant
      BY <2>5, <3>3, LosesTyped DEF LoginSaves, Types
    <3>5. QED BY <2>5, <3>2, <3>4, Empty DEF LoginSaves, Types
  <2> QED BY <1>2, <2>1, <2>2, <2>3, <2>4, <2>5 DEF SignerStep
<1>3. ASSUME NEW o \in Leaver, LogoutForgets(o) PROVE Types'
  <2>1. [at |-> "deleting", tenant |-> tenant, ends |-> Ended(tenant)] \in SignOut
    BY DEF Types, SignOut, Ended, Grant
  <2>2. session' \in Nat /\ leaver' \in [Leaver -> SignOut]
    BY <1>3, <2>1 DEF LogoutForgets, Types
  <2>3. QED BY <1>3, <2>2, Empty DEF LogoutForgets, Types
<1>4. ASSUME NEW o \in Leaver, LogoutDeletes(o) PROVE Types'
  <2>1. leaver[o].ends \subseteq Grant
    BY DEF Types, SignOut
  <2>2. over' \subseteq Grant /\ lost' \subseteq Grant /\ keyring' \in [Tenant -> Token]
    BY <1>4, <2>1, LosesTyped, Empty DEF LogoutDeletes, Types
  <2>3. QED BY <1>4, <2>2, Empty DEF LogoutDeletes, Types
<1>5. CASE Expires
  BY <1>5 DEF Expires, Types
<1>6. CASE SwitchesTenant
  <2>1. switches' \in Nat
    BY <1>6 DEF SwitchesTenant, Types
  <2>2. tokens' \in Tokens /\ stale' \in BOOLEAN
    BY <1>6, Empty DEF SwitchesTenant
  <2>3. tenant' \in Tenant
    BY <1>6 DEF SwitchesTenant
  <2>4. QED BY <1>6, <2>1, <2>2, <2>3 DEF SwitchesTenant, Types
<1>7. QED BY <1>1, <1>2, <1>3, <1>4, <1>5, <1>6 DEF Next

LEMMA LocksKept == ASSUME IInv, Next PROVE RefreshesLocked' /\ HalvesHold'
<1> USE DEF IInv, TypeOK, memoryVars, flowVars, worldVars
<1>1. ASSUME NEW c \in Caller, CallerStep(c) PROVE RefreshesLocked' /\ HalvesHold'
  <2>1. CASE Asks(c)
  BY <2>1 DEF Asks, Types, RefreshesLocked, HalvesHold, Call, SignIn,
     SignOut, NoCall
  <2>2. CASE FindsMoved(c)
  BY <2>2 DEF FindsMoved, Checks, Moved, Types, RefreshesLocked, HalvesHold,
     Call, SignIn, SignOut, NoCall
  <2>3. CASE FindsFresh(c)
  BY <2>3 DEF FindsFresh, Checks, Moved, Fresh, Given, Types,
     RefreshesLocked, HalvesHold, Call, SignIn, SignOut, NoCall
  <2>4. CASE Queues(c)
  BY <2>4 DEF Queues, Moved, Fresh, Types, RefreshesLocked, HalvesHold,
     Call, SignIn, SignOut, NoCall
  <2>5. CASE TakesLock(c)
  BY <2>5 DEF TakesLock, Moved, Fresh, Types, RefreshesLocked, HalvesHold,
     Call, SignIn, SignOut, NoCall
  <2>6. CASE ReadsGrant(c)
  BY <2>6 DEF ReadsGrant, Moved, Stamp, Types, RefreshesLocked, HalvesHold,
     Call, SignIn, SignOut, NoCall
  <2>7. CASE GivesUp(c)
  BY <2>7 DEF GivesUp, Unlock, Types, RefreshesLocked, HalvesHold, Call,
     SignIn, SignOut, NoCall
  <2>8. CASE Loads(c)
  BY <2>8 DEF Loads, Types, RefreshesLocked, HalvesHold, Call, SignIn,
     SignOut, NoCall
  <2>9. CASE LoadFails(c)
  BY <2>9 DEF LoadFails, Records, Unlock, Types, RefreshesLocked,
     HalvesHold, Call, SignIn, SignOut, NoCall
  <2>10. CASE Grants(c)
  BY <2>10 DEF Grants, Accepts, Types, RefreshesLocked, HalvesHold, Call,
     SignIn, SignOut, NoCall
  <2>11. CASE ReplyLost(c)
  BY <2>11 DEF ReplyLost, Accepts, Loses, Records, Unlock, Types,
     RefreshesLocked, HalvesHold, Call, SignIn, SignOut, NoCall
  <2>12. CASE Unavailable(c)
  BY <2>12 DEF Unavailable, Records, Unlock, Types, RefreshesLocked,
     HalvesHold, Call, SignIn, SignOut, NoCall
  <2>13. CASE FindsDead(c)
  BY <2>13 DEF FindsDead, Types, RefreshesLocked, HalvesHold, Call, SignIn,
     SignOut, NoCall
  <2>14. CASE Stores(c)
  BY <2>14 DEF Stores, Stamp, Types, RefreshesLocked, HalvesHold, Call,
     SignIn, SignOut, NoCall
  <2>15. CASE StoreRefused(c)
  BY <2>15 DEF StoreRefused, Unlock, Stamp, Types, RefreshesLocked,
     HalvesHold, Call, SignIn, SignOut, NoCall
  <2>16. CASE Saves(c)
  BY <2>16 DEF Saves, Loses, Given, Unlock, Types, RefreshesLocked,
     HalvesHold, Call, SignIn, SignOut, NoCall
  <2>17. CASE Discards(c)
  BY <2>17 DEF Discards, Types, RefreshesLocked, HalvesHold, Call, SignIn,
     SignOut, NoCall
  <2>18. CASE DiscardSkipped(c)
  BY <2>18 DEF DiscardSkipped, Unlock, Types, RefreshesLocked, HalvesHold,
     Call, SignIn, SignOut, NoCall
  <2>19. CASE Deletes(c)
  BY <2>19 DEF Deletes, Unlock, Types, RefreshesLocked, HalvesHold, Call,
     SignIn, SignOut, NoCall
  <2>20. CASE Cancels(c)
  BY <2>20 DEF Cancels, Loses, Unlock, Types, RefreshesLocked, HalvesHold,
     Call, SignIn, SignOut, NoCall
  <2>21. CASE Replied(c)
  BY <2>21 DEF Replied, Types, RefreshesLocked, HalvesHold, Call, SignIn,
     SignOut, NoCall
  <2>22. CASE Unauthorized(c)
  BY <2>22 DEF Unauthorized, Types, RefreshesLocked, HalvesHold, Call,
     SignIn, SignOut, NoCall
  <2> QED BY <1>1, <2>1, <2>2, <2>3, <2>4, <2>5, <2>6, <2>7, <2>8, <2>9, <2>10, <2>11, <2>12, <2>13, <2>14, <2>15, <2>16, <2>17, <2>18, <2>19, <2>20, <2>21, <2>22 DEF CallerStep
<1>2. ASSUME NEW g \in Signer, SignerStep(g) PROVE RefreshesLocked' /\ HalvesHold'
  <2>1. CASE LoginBegins(g)
  BY <2>1 DEF LoginBegins, Stamp, Types, RefreshesLocked, HalvesHold, Call,
     SignIn, SignOut, NoCall
  <2>2. CASE Issues(g)
  BY <2>2 DEF Issues, Types, RefreshesLocked, HalvesHold, Call, SignIn,
     SignOut, NoCall
  <2>3. CASE LoginFails(g)
  BY <2>3 DEF LoginFails, Loses, Stamp, NoSigner, Types, RefreshesLocked,
     HalvesHold, Call, SignIn, SignOut, NoCall
  <2>4. CASE LoginStores(g)
  BY <2>4 DEF LoginStores, Stamp, Types, RefreshesLocked, HalvesHold, Call,
     SignIn, SignOut, NoCall
  <2>5. CASE LoginSaves(g)
  BY <2>5 DEF LoginSaves, Ended, Loses, NoSigner, Types, RefreshesLocked,
     HalvesHold, Call, SignIn, SignOut, NoCall
  <2> QED BY <1>2, <2>1, <2>2, <2>3, <2>4, <2>5 DEF SignerStep
<1>3. ASSUME NEW o \in Leaver, LogoutForgets(o) PROVE RefreshesLocked' /\ HalvesHold'
  BY <1>3 DEF LogoutForgets, Ended, Types, RefreshesLocked, HalvesHold,
     Call, SignIn, SignOut, NoCall
<1>4. ASSUME NEW o \in Leaver, LogoutDeletes(o) PROVE RefreshesLocked' /\ HalvesHold'
  BY <1>4 DEF LogoutDeletes, Loses, NoLeaver, Types, RefreshesLocked,
     HalvesHold, Call, SignIn, SignOut, NoCall
<1>5. CASE Expires
  BY <1>5 DEF Expires, Types, RefreshesLocked, HalvesHold, Call, SignIn,
     SignOut, NoCall
<1>6. CASE SwitchesTenant
  BY <1>6 DEF SwitchesTenant, Types, RefreshesLocked, HalvesHold, Call,
     SignIn, SignOut, NoCall
<1>7. QED BY <1>1, <1>2, <1>3, <1>4, <1>5, <1>6 DEF Next

LEMMA OwnedKept == ASSUME IInv, Next PROVE Owned'
<1> USE DEF IInv, TypeOK, memoryVars, flowVars, worldVars
<1>1. ASSUME NEW c \in Caller, CallerStep(c) PROVE Owned'
  <2>1. CASE Asks(c)
  BY <2>1 DEF Asks, Types, Call, Owned, MemoryOwns, KeyringOwns, CallOwns,
     SignerOwns, Owns, Refreshing, NoCall, NoStamp, NoToken, NoTokens,
     RefreshesLocked, GrantRecord, SignIn, Token
  <2>2. CASE FindsMoved(c)
  BY <2>2 DEF FindsMoved, Checks, Moved, Types, Call, Owned, MemoryOwns,
     KeyringOwns, CallOwns, SignerOwns, Owns, Refreshing, NoCall, NoStamp,
     NoToken, NoTokens, RefreshesLocked, GrantRecord, SignIn, Token
  <2>3. CASE FindsFresh(c)
  BY <2>3 DEF FindsFresh, Checks, Moved, Fresh, Given, Types, Call, Owned,
     MemoryOwns, KeyringOwns, CallOwns, SignerOwns, Owns, Refreshing,
     NoCall, NoStamp, NoToken, NoTokens, RefreshesLocked, GrantRecord,
     SignIn, Token
  <2>4. CASE Queues(c)
  BY <2>4 DEF Queues, Moved, Fresh, Types, Call, Owned, MemoryOwns,
     KeyringOwns, CallOwns, SignerOwns, Owns, Refreshing, NoCall, NoStamp,
     NoToken, NoTokens, RefreshesLocked, GrantRecord, SignIn, Token
  <2>5. CASE TakesLock(c)
  BY <2>5 DEF TakesLock, Moved, Fresh, Types, Call, Owned, MemoryOwns,
     KeyringOwns, CallOwns, SignerOwns, Owns, Refreshing, NoCall, NoStamp,
     NoToken, NoTokens, RefreshesLocked, GrantRecord, SignIn, Token
  <2>6. CASE ReadsGrant(c)
  BY <2>6 DEF ReadsGrant, Moved, Stamp, Types, Call, Owned, MemoryOwns,
     KeyringOwns, CallOwns, SignerOwns, Owns, Refreshing, NoCall, NoStamp,
     NoToken, NoTokens, RefreshesLocked, GrantRecord, SignIn, Token
  <2>7. CASE GivesUp(c)
  BY <2>7 DEF GivesUp, Unlock, Types, Call, Owned, MemoryOwns, KeyringOwns,
     CallOwns, SignerOwns, Owns, Refreshing, NoCall, NoStamp, NoToken,
     NoTokens, RefreshesLocked, GrantRecord, SignIn, Token
  <2>8. CASE Loads(c)
  BY <2>8, SMTT(30) DEF Loads, Types, Call, Owned, MemoryOwns, KeyringOwns, CallOwns,
     SignerOwns, Owns, Refreshing, NoCall, NoStamp, NoToken, NoTokens,
     RefreshesLocked, GrantRecord, SignIn, Token
  <2>9. CASE LoadFails(c)
  BY <2>9 DEF LoadFails, Records, Unlock, Types, Call, Owned, MemoryOwns,
     KeyringOwns, CallOwns, SignerOwns, Owns, Refreshing, NoCall, NoStamp,
     NoToken, NoTokens, RefreshesLocked, GrantRecord, SignIn, Token
  <2>10. CASE Grants(c)
    <3>1. \A g \in Grant : server'[g].tenant = server[g].tenant
      BY <2>10 DEF Grants, Types, GrantRecord
    <3>. tenant' = tenant /\ tokens' = tokens /\ keyring' = keyring /\ signer' = signer
      BY <2>10 DEF Grants
    <3>2. MemoryOwns' /\ KeyringOwns'
      BY <3>1 DEF Owned, MemoryOwns, KeyringOwns, Owns
    <3>3. \A d \in Caller :
             \/ call'[d] = call[d]
             \/ /\ call[d].at = "posting" /\ call'[d].at = "granted"
                /\ call'[d].want = call[d].want /\ call'[d].stamp = call[d].stamp
                /\ call'[d].token = call[d].token
      BY <2>10 DEF Grants, Types, Call
    <3>4. \A d \in Caller : CallOwns(d)'
      BY <3>1, <3>3 DEF Types, Owned, CallOwns, Owns, Refreshing, NoCall
    <3>5. \A g \in Signer : SignerOwns(g)'
      BY <3>1 DEF Owned, SignerOwns, Grant
    <3>6. QED BY <3>2, <3>4, <3>5 DEF Owned
  <2>11. CASE ReplyLost(c)
    <3>1. \A g \in Grant : server'[g].tenant = server[g].tenant
      BY <2>11 DEF ReplyLost, Types, GrantRecord
    <3>. tenant' = tenant /\ tokens' = tokens /\ keyring' = keyring /\ signer' = signer
      BY <2>11 DEF ReplyLost
    <3>2. MemoryOwns' /\ KeyringOwns'
      BY <3>1 DEF Owned, MemoryOwns, KeyringOwns, Owns
    <3>3. \A d \in Caller :
             \/ call'[d] = NoCall
             \/ /\ call'[d].at = call[d].at /\ call'[d].want = call[d].want
                /\ call'[d].stamp = call[d].stamp /\ call'[d].token = call[d].token
      BY <2>11 DEF ReplyLost, Records, Types, Call
    <3>4. \A d \in Caller : CallOwns(d)'
      BY <3>1, <3>3 DEF Types, Owned, CallOwns, Owns, Refreshing, NoCall
    <3>5. \A g \in Signer : SignerOwns(g)'
      BY <3>1 DEF Owned, SignerOwns, Grant
    <3>6. QED BY <3>2, <3>4, <3>5 DEF Owned
  <2>12. CASE Unavailable(c)
  BY <2>12 DEF Unavailable, Records, Unlock, Types, Call, Owned, MemoryOwns,
     KeyringOwns, CallOwns, SignerOwns, Owns, Refreshing, NoCall, NoStamp,
     NoToken, NoTokens, RefreshesLocked, GrantRecord, SignIn, Token
  <2>13. CASE FindsDead(c)
    <3>1. \A g \in Grant : server'[g].tenant = server[g].tenant
      BY <2>13 DEF FindsDead, Types, GrantRecord
    <3>. tenant' = tenant /\ tokens' = tokens /\ keyring' = keyring /\ signer' = signer
      BY <2>13 DEF FindsDead
    <3>2. MemoryOwns' /\ KeyringOwns'
      BY <3>1 DEF Owned, MemoryOwns, KeyringOwns, Owns
    <3>3. \A d \in Caller :
             \/ call'[d] = call[d]
             \/ /\ call[d].at = "posting" /\ call'[d].at = "dead"
                /\ call'[d].want = call[d].want /\ call'[d].stamp = call[d].stamp
      BY <2>13 DEF FindsDead, Types, Call
    <3>4. \A d \in Caller : CallOwns(d)'
      BY <3>1, <3>3 DEF Types, Owned, CallOwns, Owns, Refreshing, NoCall
    <3>5. \A g \in Signer : SignerOwns(g)'
      BY <3>1 DEF Owned, SignerOwns, Grant
    <3>6. QED BY <3>2, <3>4, <3>5 DEF Owned
  <2>14. CASE Stores(c)
  BY <2>14 DEF Stores, Stamp, Types, Call, Owned, MemoryOwns, KeyringOwns,
     CallOwns, SignerOwns, Owns, Refreshing, NoCall, NoStamp, NoToken,
     NoTokens, RefreshesLocked, GrantRecord, SignIn, Token
  <2>15. CASE StoreRefused(c)
  BY <2>15 DEF StoreRefused, Unlock, Stamp, Types, Call, Owned, MemoryOwns,
     KeyringOwns, CallOwns, SignerOwns, Owns, Refreshing, NoCall, NoStamp,
     NoToken, NoTokens, RefreshesLocked, GrantRecord, SignIn, Token
  <2>16. CASE Saves(c)
    <3>1. UNCHANGED <<tenant, tokens, signer, server>> /\ call[c].at = "saving"
      BY <2>16 DEF Saves
    <3>2. call' = [call EXCEPT ![c] = NoCall]
             \/ call' = [call EXCEPT ![c] = Given(c, call[c].token.grant, call[c].access)]
      BY <2>16 DEF Saves
    <3>3. \A d \in Caller : call'[d] = call[d] \/ call'[d] = NoCall
             \/ (d = c /\ call'[d] = Given(c, call[c].token.grant, call[c].access))
      BY <3>2 DEF Types
    <3>4. LET given == Given(c, call[c].token.grant, call[c].access)
          IN  given.at = "using" /\ given.want = call[c].want
                 /\ given.token.grant = call[c].token.grant
      BY DEF Given, NoCall
    <3>5. keyring' = keyring
             \/ keyring' = [keyring EXCEPT ![call[c].stamp.tenant] =
                               [grant |-> call[c].token.grant, number |-> call[c].refresh]]
      BY <2>16 DEF Saves
    <3>6. Owns(call[c].stamp.tenant, call[c].token.grant)
             /\ call[c].want \in {Anyone, call[c].stamp.tenant}
      BY <3>1 DEF Owned, CallOwns, Refreshing
    <3>7. MemoryOwns' /\ KeyringOwns'
      BY <3>1, <3>5, <3>6 DEF Owned, MemoryOwns, KeyringOwns, Owns, Types
    <3>8. \A d \in Caller : CallOwns(d)'
      BY <3>1, <3>3, <3>4, <3>6 DEF Owned, CallOwns, Owns, Refreshing, NoCall
    <3>9. QED BY <3>1, <3>7, <3>8 DEF Owned, SignerOwns
  <2>17. CASE Discards(c)
  BY <2>17 DEF Discards, Types, Call, Owned, MemoryOwns, KeyringOwns,
     CallOwns, SignerOwns, Owns, Refreshing, NoCall, NoStamp, NoToken,
     NoTokens, RefreshesLocked, GrantRecord, SignIn, Token
  <2>18. CASE DiscardSkipped(c)
  BY <2>18 DEF DiscardSkipped, Unlock, Types, Call, Owned, MemoryOwns,
     KeyringOwns, CallOwns, SignerOwns, Owns, Refreshing, NoCall, NoStamp,
     NoToken, NoTokens, RefreshesLocked, GrantRecord, SignIn, Token
  <2>19. CASE Deletes(c)
  BY <2>19 DEF Deletes, Unlock, Types, Call, Owned, MemoryOwns, KeyringOwns,
     CallOwns, SignerOwns, Owns, Refreshing, NoCall, NoStamp, NoToken,
     NoTokens, RefreshesLocked, GrantRecord, SignIn, Token
  <2>20. CASE Cancels(c)
    <3>1. \A d \in Caller : call'[d] = call[d] \/ call'[d] = NoCall
      BY <2>20 DEF Cancels, Types
    <3>2. \A d \in Caller : CallOwns(d)'
      BY <2>20, <3>1 DEF Cancels, Owned, CallOwns, Owns, Refreshing, NoCall
    <3>3. QED
      BY <2>20, <3>2 DEF Cancels, Owned, MemoryOwns, KeyringOwns, SignerOwns, Owns
  <2>21. CASE Replied(c)
  BY <2>21 DEF Replied, Types, Call, Owned, MemoryOwns, KeyringOwns,
     CallOwns, SignerOwns, Owns, Refreshing, NoCall, NoStamp, NoToken,
     NoTokens, RefreshesLocked, GrantRecord, SignIn, Token
  <2>22. CASE Unauthorized(c)
  BY <2>22 DEF Unauthorized, Types, Call, Owned, MemoryOwns, KeyringOwns,
     CallOwns, SignerOwns, Owns, Refreshing, NoCall, NoStamp, NoToken,
     NoTokens, RefreshesLocked, GrantRecord, SignIn, Token
  <2> QED BY <1>1, <2>1, <2>2, <2>3, <2>4, <2>5, <2>6, <2>7, <2>8, <2>9, <2>10, <2>11, <2>12, <2>13, <2>14, <2>15, <2>16, <2>17, <2>18, <2>19, <2>20, <2>21, <2>22 DEF CallerStep
<1>2. ASSUME NEW g \in Signer, SignerStep(g) PROVE Owned'
  <2>1. CASE LoginBegins(g)
  BY <2>1 DEF LoginBegins, Stamp, Types, Call, Owned, MemoryOwns,
     KeyringOwns, CallOwns, SignerOwns, Owns, Refreshing, NoCall, NoStamp,
     NoToken, NoTokens, RefreshesLocked, GrantRecord, SignIn, Token
  <2>2. CASE Issues(g)
    <3>1. server[g].tenant = Anyone /\ signer[g].stamp.tenant \in Tenant /\ g \in Grant
      BY <2>2 DEF Issues, Owned, SignerOwns, Grant
    <3>2. /\ \A h \in Grant \ {g} : server'[h].tenant = server[h].tenant
          /\ server'[g].tenant = signer[g].stamp.tenant
      BY <2>2, <3>1 DEF Issues, Types
    <3>3. \A t \in Tenant, h \in Grant : Owns(t, h) => Owns(t, h)'
      BY <3>1, <3>2 DEF Owns
    <3>4. MemoryOwns' /\ KeyringOwns'
      BY <2>2, <3>3 DEF Issues, Types, Owned, MemoryOwns, KeyringOwns, Owns
    <3>5. \A d \in Caller : CallOwns(d)'
      BY <2>2, <3>3 DEF Issues, Types, Call, Owned, CallOwns, Owns, Refreshing
    <3>6. \A h \in Signer : h # g => signer'[h] = signer[h]
      BY <2>2 DEF Issues, Types
    <3>7. signer'[g].at = "issued" /\ signer'[g].stamp = signer[g].stamp
      BY <2>2 DEF Issues, Types, SignIn
    <3>8. \A h \in Signer : SignerOwns(h)'
      BY <3>1, <3>2, <3>6, <3>7 DEF Owned, SignerOwns, Grant
    <3>9. QED BY <3>4, <3>5, <3>8 DEF Owned
  <2>3. CASE LoginFails(g)
  BY <2>3 DEF LoginFails, Loses, Stamp, NoSigner, Types, Call, Owned,
     MemoryOwns, KeyringOwns, CallOwns, SignerOwns, Owns, Refreshing,
     NoCall, NoStamp, NoToken, NoTokens, RefreshesLocked, GrantRecord,
     SignIn, Token
  <2>4. CASE LoginStores(g)
    <3>1. MemoryOwns'
      BY <2>4 DEF LoginStores, Stamp, Types, Owned, SignerOwns, MemoryOwns, Owns, Grant
    <3>2. KeyringOwns' /\ \A d \in Caller : CallOwns(d)'
      BY <2>4 DEF LoginStores, Owned, KeyringOwns, CallOwns, Owns
    <3>3. \A h \in Signer : SignerOwns(h)'
      BY <2>4 DEF LoginStores, Types, SignIn, Owned, SignerOwns
    <3>4. QED BY <3>1, <3>2, <3>3 DEF Owned
  <2>5. CASE LoginSaves(g)
    <3>1. Owns(signer[g].stamp.tenant, g)
      BY <2>5 DEF LoginSaves, Owned, SignerOwns, Owns, Grant
    <3>2. KeyringOwns'
      BY <2>5, <3>1 DEF LoginSaves, Types, Owned, KeyringOwns, Owns, NoToken
    <3>3. MemoryOwns' /\ \A d \in Caller : CallOwns(d)'
      BY <2>5 DEF LoginSaves, Owned, MemoryOwns, CallOwns, Owns
    <3>4. \A h \in Signer : SignerOwns(h)'
      BY <2>5 DEF LoginSaves, Types, NoSigner, Owned, SignerOwns
    <3>5. QED BY <3>2, <3>3, <3>4 DEF Owned
  <2> QED BY <1>2, <2>1, <2>2, <2>3, <2>4, <2>5 DEF SignerStep
<1>3. ASSUME NEW o \in Leaver, LogoutForgets(o) PROVE Owned'
  BY <1>3 DEF LogoutForgets, Ended, Types, Call, Owned, MemoryOwns,
     KeyringOwns, CallOwns, SignerOwns, Owns, Refreshing, NoCall, NoStamp,
     NoToken, NoTokens, RefreshesLocked, GrantRecord, SignIn, Token
<1>4. ASSUME NEW o \in Leaver, LogoutDeletes(o) PROVE Owned'
  BY <1>4 DEF LogoutDeletes, Loses, NoLeaver, Types, Call, Owned,
     MemoryOwns, KeyringOwns, CallOwns, SignerOwns, Owns, Refreshing,
     NoCall, NoStamp, NoToken, NoTokens, RefreshesLocked, GrantRecord,
     SignIn, Token
<1>5. CASE Expires
  BY <1>5 DEF Expires, Types, Call, Owned, MemoryOwns, KeyringOwns,
     CallOwns, SignerOwns, Owns, Refreshing, NoCall, NoStamp, NoToken,
     NoTokens, RefreshesLocked, GrantRecord, SignIn, Token
<1>6. CASE SwitchesTenant
  BY <1>6 DEF SwitchesTenant, Types, Call, Owned, MemoryOwns, KeyringOwns,
     CallOwns, SignerOwns, Owns, Refreshing, NoCall, NoStamp, NoToken,
     NoTokens, RefreshesLocked, GrantRecord, SignIn, Token
<1>7. QED BY <1>1, <1>2, <1>3, <1>4, <1>5, <1>6 DEF Next

THEOREM Inductive == Spec => []IInv
<1>1. IInv /\ [Next]_vars => IInv'
  <2> SUFFICES ASSUME IInv, [Next]_vars PROVE IInv'
    OBVIOUS
  <2>1. CASE Next
    BY <2>1, TypesKept, LocksKept, OwnedKept DEF IInv, TypeOK
  <2>2. CASE UNCHANGED vars
    <3>1. Types' /\ RefreshesLocked' /\ HalvesHold'
      BY <2>2 DEF vars, memoryVars, flowVars, worldVars, IInv, TypeOK, Types,
         RefreshesLocked, HalvesHold
    <3>2. Owned'
      BY <2>2 DEF vars, memoryVars, flowVars, worldVars, IInv, Owned, MemoryOwns, KeyringOwns,
         CallOwns, SignerOwns, Owns
    <3>3. QED BY <3>1, <3>2 DEF IInv, TypeOK
  <2>3. QED BY <2>1, <2>2
<1>2. QED BY Starts, <1>1, PTL DEF Spec

(* token_for, store_tokens, discard_dead_grant, login_pkce and logout keep  *)
(* every variable in its type and run their two halves under persist_lock.  *)
THEOREM TypeCorrect == Spec => []TypeOK
<1>1. IInv => TypeOK
  BY DEF IInv
<1>2. QED BY Inductive, <1>1, PTL

(* No tenant's credential goes to another: GrantStamp carries the tenant a  *)
(* refresh or sign-in began under, and access_token_for the URL's.          *)
THEOREM NoTenantsTokenGoesToAnother == Spec => []TokensAreTheTenants
<1>1. IInv => TokensAreTheTenants
  BY DEF IInv, Owned, MemoryOwns, KeyringOwns, CallOwns, Owns, TokensAreTheTenants, IssuedBy,
     NoTokens, NoToken, TypeOK, Types
<1>2. QED BY Inductive, <1>1, PTL

(* What a sign-out or a later sign-in has ended stays ended.  The invariant *)
(* adds who could still bring it back: a refresh of the current session, a  *)
(* store under way, a sign-in of the current session, and, while a sign-in  *)
(* or a sign-out is between its halves, what it is about to end.            *)
Current(c) == call[c].at \in {"posting", "granted"} /\ call[c].stamp.session = session
Signing(g) == signer[g].at \in {"browsing", "issued"}

CallsEnd ==
    \A c \in Caller :
        /\ call[c].at \in {"loading", "posting", "granted"} => call[c].stamp.session <= session
        /\ Current(c) => call[c].token.grant \notin over
        /\ call[c].at = "saving" => call[c].token.grant \notin over

SignersEnd ==
    \A g \in Signer :
        /\ Signing(g) => signer[g].stamp.session <= session
        /\ Signing(g) /\ signer[g].stamp.session = session => g \notin over
        /\ signer[g].at \in {"idle", "saving"} => g \notin over
        /\ \A h \in Signer :
              signer[g].at \notin {"idle", "done"} /\ signer[h].at \notin {"idle", "done"} => g = h
        /\ signer[g].at = "saving" =>
              /\ tokens.grant \in {g, NoGrant}
              /\ tokens.refresh # 0 => tokens.grant = g
              /\ \A c \in Caller : Current(c) => call[c].token.grant = g

Ending(o, h) ==
    /\ server[h].tenant \in {Anyone, leaver[o].tenant}
    /\ h \in Signer =>
          /\ signer[h].at \notin {"idle", "saving"}
          /\ Signing(h) => /\ signer[h].stamp.session # session
                           /\ signer[h].stamp.tenant = leaver[o].tenant

LeaversEnd ==
    \A o \in Leaver : leaver[o].at = "deleting" =>
        /\ leaver[o].tenant \in Tenant
        /\ tokens = NoTokens
        /\ \A c \in Caller : ~Current(c)
        /\ \A h \in leaver[o].ends : Ending(o, h)

EndInv == EndedStaysEnded /\ CallsEnd /\ SignersEnd /\ LeaversEnd

LEMMA NoGrantIsNone == NoGrant \notin Grant
BY DEF Grant

LEMMA EndKept == ASSUME ~ReadsAcrossSessions, IInv, EndInv, Next PROVE EndInv'
<1> USE DEF IInv, TypeOK, memoryVars, flowVars, worldVars
<1>1. ASSUME NEW c \in Caller, CallerStep(c) PROVE EndInv'
  <2>1. CASE Asks(c)
  BY <2>1 DEF Asks, EndInv, EndedStaysEnded, CallsEnd, SignersEnd,
     LeaversEnd, Ending, Current, Signing, Types, HalvesHold, Call, SignIn,
     NoCall, NoToken, NoTokens
  <2>2. CASE FindsMoved(c)
  BY <2>2 DEF FindsMoved, Checks, Moved, EndInv, EndedStaysEnded, CallsEnd,
     SignersEnd, LeaversEnd, Ending, Current, Signing, Types, HalvesHold,
     Call, SignIn, NoCall, NoToken, NoTokens
  <2>3. CASE FindsFresh(c)
  BY <2>3 DEF FindsFresh, Checks, Moved, Fresh, Given, EndInv,
     EndedStaysEnded, CallsEnd, SignersEnd, LeaversEnd, Ending, Current,
     Signing, Types, HalvesHold, Call, SignIn, NoCall, NoToken, NoTokens
  <2>4. CASE Queues(c)
  BY <2>4 DEF Queues, Moved, Fresh, EndInv, EndedStaysEnded, CallsEnd,
     SignersEnd, LeaversEnd, Ending, Current, Signing, Types, HalvesHold,
     Call, SignIn, NoCall, NoToken, NoTokens
  <2>5. CASE TakesLock(c)
  BY <2>5 DEF TakesLock, Moved, Fresh, EndInv, EndedStaysEnded, CallsEnd,
     SignersEnd, LeaversEnd, Ending, Current, Signing, Types, HalvesHold,
     Call, SignIn, NoCall, NoToken, NoTokens
  <2>6. CASE ReadsGrant(c)
  BY <2>6 DEF ReadsGrant, Moved, Stamp, EndInv, EndedStaysEnded, CallsEnd,
     SignersEnd, LeaversEnd, Ending, Current, Signing, Types, HalvesHold,
     Call, SignIn, NoCall, NoToken, NoTokens
  <2>7. CASE GivesUp(c)
  BY <2>7 DEF GivesUp, Unlock, EndInv, EndedStaysEnded, CallsEnd,
     SignersEnd, LeaversEnd, Ending, Current, Signing, Types, HalvesHold,
     Call, SignIn, NoCall, NoToken, NoTokens
  <2>8. CASE Loads(c)
    <3>1. /\ \A o \in Leaver : leaver[o].at # "deleting"
          /\ \A g \in Signer : signer[g].at # "saving"
      BY <2>8 DEF Loads, MidFlow
    <3>2. keyring[call[c].stamp.tenant].grant \notin over
      BY <2>8 DEF Loads, Owned, CallOwns, Refreshing, EndInv, EndedStaysEnded
    <3>3. \A d \in Caller :
             \/ call'[d] = call[d]
             \/ /\ call[d].at = "loading" /\ call'[d].at = "posting"
                /\ call'[d].stamp = call[d].stamp /\ call'[d].token.grant \notin over
      BY <2>8, <3>2 DEF Loads, Types, Call
    <3>. UNCHANGED <<session, tokens, keyring, signer, leaver, server, over>>
      BY <2>8 DEF Loads
    <3>4. EndedStaysEnded' /\ CallsEnd'
      BY <3>3 DEF EndInv, EndedStaysEnded, CallsEnd, Current
    <3>5. SignersEnd' /\ LeaversEnd'
      BY <3>1 DEF EndInv, SignersEnd, LeaversEnd, Signing
    <3>6. QED BY <3>4, <3>5 DEF EndInv
  <2>9. CASE LoadFails(c)
  BY <2>9 DEF LoadFails, Records, Unlock, EndInv, EndedStaysEnded, CallsEnd,
     SignersEnd, LeaversEnd, Ending, Current, Signing, Types, HalvesHold,
     Call, SignIn, NoCall, NoToken, NoTokens
  <2>10. CASE Grants(c)
    <3>1. \A g \in Grant : server'[g].tenant = server[g].tenant
      BY <2>10 DEF Grants, Types, GrantRecord
    <3>2. \A d \in Caller :
             \/ call'[d] = call[d]
             \/ /\ call[d].at = "posting" /\ call'[d].at = "granted"
                /\ call'[d].stamp = call[d].stamp /\ call'[d].token = call[d].token
      BY <2>10 DEF Grants, Types, Call
    <3>. UNCHANGED <<session, tokens, keyring, signer, leaver, over>>
      BY <2>10 DEF Grants
    <3>3. EndedStaysEnded' /\ CallsEnd'
      BY <3>2 DEF EndInv, EndedStaysEnded, CallsEnd, Current, NoCall
    <3>4. SignersEnd'
      BY <3>2 DEF EndInv, SignersEnd, Signing, Current, NoCall
    <3>5. LeaversEnd'
      <4>1. \A d \in Caller : Current(d)' => Current(d)
        BY <3>2 DEF Current, NoCall
      <4>2. \A p \in Leaver : leaver[p].ends \subseteq Grant
        BY DEF Types, SignOut
      <4>3. \A p \in Leaver, g \in Grant : Ending(p, g) => Ending(p, g)'
        BY <3>1 DEF Ending, Signing
      <4>4. QED BY <4>1, <4>2, <4>3 DEF EndInv, LeaversEnd
    <3>6. QED BY <3>3, <3>4, <3>5 DEF EndInv
  <2>11. CASE ReplyLost(c)
    <3>1. \A g \in Grant : server'[g].tenant = server[g].tenant
      BY <2>11 DEF ReplyLost, Types, GrantRecord
    <3>2. \A d \in Caller :
             \/ call'[d] = NoCall
             \/ /\ call'[d].at = call[d].at
                /\ call'[d].stamp = call[d].stamp /\ call'[d].token = call[d].token
      BY <2>11 DEF ReplyLost, Records, Types, Call
    <3>. UNCHANGED <<session, tokens, keyring, signer, leaver, over>>
      BY <2>11 DEF ReplyLost
    <3>3. EndedStaysEnded' /\ CallsEnd'
      BY <3>2 DEF EndInv, EndedStaysEnded, CallsEnd, Current, NoCall
    <3>4. SignersEnd'
      BY <3>2 DEF EndInv, SignersEnd, Signing, Current, NoCall
    <3>5. LeaversEnd'
      <4>1. \A d \in Caller : Current(d)' => Current(d)
        BY <3>2 DEF Current, NoCall
      <4>2. \A p \in Leaver : leaver[p].ends \subseteq Grant
        BY DEF Types, SignOut
      <4>3. \A p \in Leaver, g \in Grant : Ending(p, g) => Ending(p, g)'
        BY <3>1 DEF Ending, Signing
      <4>4. QED BY <4>1, <4>2, <4>3 DEF EndInv, LeaversEnd
    <3>6. QED BY <3>3, <3>4, <3>5 DEF EndInv
  <2>12. CASE Unavailable(c)
  BY <2>12 DEF Unavailable, Records, Unlock, EndInv, EndedStaysEnded,
     CallsEnd, SignersEnd, LeaversEnd, Ending, Current, Signing, Types,
     HalvesHold, Call, SignIn, NoCall, NoToken, NoTokens
  <2>13. CASE FindsDead(c)
    <3>1. \A g \in Grant : server'[g].tenant = server[g].tenant
      BY <2>13 DEF FindsDead, Types, GrantRecord
    <3>2. \A d \in Caller : call'[d] = call[d] \/ call'[d].at = "dead"
      BY <2>13 DEF FindsDead, Types, Call
    <3>. UNCHANGED <<session, tokens, keyring, signer, leaver, over>>
      BY <2>13 DEF FindsDead
    <3>3. EndedStaysEnded' /\ CallsEnd'
      BY <3>2 DEF EndInv, EndedStaysEnded, CallsEnd, Current, NoCall
    <3>4. SignersEnd'
      BY <3>2 DEF EndInv, SignersEnd, Signing, Current, NoCall
    <3>5. LeaversEnd'
      <4>1. \A d \in Caller : Current(d)' => Current(d)
        BY <3>2 DEF Current, NoCall
      <4>2. \A p \in Leaver : leaver[p].ends \subseteq Grant
        BY DEF Types, SignOut
      <4>3. \A p \in Leaver, g \in Grant : Ending(p, g) => Ending(p, g)'
        BY <3>1 DEF Ending, Signing
      <4>4. QED BY <4>1, <4>2, <4>3 DEF EndInv, LeaversEnd
    <3>6. QED BY <3>3, <3>4, <3>5 DEF EndInv
  <2>14. CASE Stores(c)
  BY <2>14 DEF Stores, Stamp, EndInv, EndedStaysEnded, CallsEnd, SignersEnd,
     LeaversEnd, Ending, Current, Signing, Types, HalvesHold, Call, SignIn,
     NoCall, NoToken, NoTokens
  <2>15. CASE StoreRefused(c)
  BY <2>15 DEF StoreRefused, Unlock, Stamp, EndInv, EndedStaysEnded,
     CallsEnd, SignersEnd, LeaversEnd, Ending, Current, Signing, Types,
     HalvesHold, Call, SignIn, NoCall, NoToken, NoTokens
  <2>16. CASE Saves(c)
  BY <2>16 DEF Saves, Loses, Given, Unlock, EndInv, EndedStaysEnded,
     CallsEnd, SignersEnd, LeaversEnd, Ending, Current, Signing, Types,
     HalvesHold, Call, SignIn, NoCall, NoToken, NoTokens
  <2>17. CASE Discards(c)
    <3>1. /\ \A o \in Leaver : leaver[o].at # "deleting"
          /\ \A g \in Signer : signer[g].at # "saving"
      BY <2>17 DEF Discards, HalvesHold
    <3>2. \A d \in Caller : call'[d] = call[d] \/ call'[d].at = "deleting"
      BY <2>17 DEF Discards, Types, Call
    <3>3. tokens'.grant \notin over
      BY <2>17, NoGrantIsNone DEF Discards, Types, NoTokens, EndInv, EndedStaysEnded
    <3>. UNCHANGED <<session, keyring, signer, leaver, server, over>>
      BY <2>17 DEF Discards
    <3>4. EndedStaysEnded' /\ CallsEnd'
      BY <3>2, <3>3 DEF EndInv, EndedStaysEnded, CallsEnd, Current
    <3>5. SignersEnd' /\ LeaversEnd'
      BY <3>1 DEF EndInv, SignersEnd, LeaversEnd, Signing
    <3>6. QED BY <3>4, <3>5 DEF EndInv
  <2>18. CASE DiscardSkipped(c)
  BY <2>18 DEF DiscardSkipped, Unlock, EndInv, EndedStaysEnded, CallsEnd,
     SignersEnd, LeaversEnd, Ending, Current, Signing, Types, HalvesHold,
     Call, SignIn, NoCall, NoToken, NoTokens
  <2>19. CASE Deletes(c)
    <3>1. \A d \in Caller : call'[d] = call[d] \/ call'[d] = NoCall
      BY <2>19 DEF Deletes, Types
    <3>2. \A t \in Tenant : keyring'[t] \in {keyring[t], NoToken}
      BY <2>19 DEF Deletes, Types
    <3>. UNCHANGED <<session, tokens, signer, leaver, server, over>>
      BY <2>19 DEF Deletes
    <3>3. EndedStaysEnded' /\ CallsEnd'
      BY <3>1, <3>2, NoGrantIsNone DEF EndInv, EndedStaysEnded, CallsEnd, Current, NoCall,
         NoToken, Types
    <3>4. \A d \in Caller : Current(d)' => Current(d) /\ call'[d] = call[d]
      BY <3>1 DEF Current, NoCall
    <3>5. SignersEnd' /\ LeaversEnd'
      BY <3>4 DEF EndInv, SignersEnd, LeaversEnd, Signing, Ending
    <3>6. QED BY <3>3, <3>5 DEF EndInv
  <2>20. CASE Cancels(c)
    <3>1. \A d \in Caller : call'[d] = call[d] \/ call'[d] = NoCall
      BY <2>20 DEF Cancels, Types
    <3>. UNCHANGED <<session, tokens, keyring, signer, leaver, server, over>>
      BY <2>20 DEF Cancels
    <3>2. EndedStaysEnded' /\ CallsEnd'
      BY <3>1 DEF EndInv, EndedStaysEnded, CallsEnd, Current, NoCall
    <3>3. \A d \in Caller : Current(d)' => Current(d) /\ call'[d] = call[d]
      BY <3>1 DEF Current, NoCall
    <3>4. SignersEnd' /\ LeaversEnd'
      BY <3>3 DEF EndInv, SignersEnd, LeaversEnd, Signing, Ending
    <3>5. QED BY <3>2, <3>4 DEF EndInv
  <2>21. CASE Replied(c)
  BY <2>21 DEF Replied, EndInv, EndedStaysEnded, CallsEnd, SignersEnd,
     LeaversEnd, Ending, Current, Signing, Types, HalvesHold, Call, SignIn,
     NoCall, NoToken, NoTokens
  <2>22. CASE Unauthorized(c)
  BY <2>22 DEF Unauthorized, EndInv, EndedStaysEnded, CallsEnd, SignersEnd,
     LeaversEnd, Ending, Current, Signing, Types, HalvesHold, Call, SignIn,
     NoCall, NoToken, NoTokens
  <2> QED BY <1>1, <2>1, <2>2, <2>3, <2>4, <2>5, <2>6, <2>7, <2>8, <2>9, <2>10, <2>11, <2>12, <2>13, <2>14, <2>15, <2>16, <2>17, <2>18, <2>19, <2>20, <2>21, <2>22 DEF CallerStep
<1>2. ASSUME NEW g \in Signer, SignerStep(g) PROVE EndInv'
  <2>1. CASE LoginBegins(g)
  BY <2>1 DEF LoginBegins, Stamp, EndInv, EndedStaysEnded, CallsEnd,
     SignersEnd, LeaversEnd, Ending, Current, Signing, Types, HalvesHold,
     Call, SignIn, NoCall, NoToken, NoTokens
  <2>2. CASE Issues(g)
  BY <2>2 DEF Issues, EndInv, EndedStaysEnded, CallsEnd, SignersEnd,
     LeaversEnd, Ending, Current, Signing, Types, HalvesHold, Call, SignIn,
     NoCall, NoToken, NoTokens
  <2>3. CASE LoginFails(g)
  BY <2>3 DEF LoginFails, Loses, Stamp, NoSigner, EndInv, EndedStaysEnded,
     CallsEnd, SignersEnd, LeaversEnd, Ending, Current, Signing, Types,
     HalvesHold, Call, SignIn, NoCall, NoToken, NoTokens
  <2>4. CASE LoginStores(g)
    <3>1. /\ \A p \in Leaver : leaver[p].at # "deleting"
          /\ \A h \in Signer : signer[h].at # "saving"
      BY <2>4 DEF LoginStores, HalvesHold
    <3>2. /\ g \notin over /\ session' = session + 1 /\ session \in Nat
          /\ tokens'.grant = g
      BY <2>4 DEF LoginStores, Stamp, Types, EndInv, SignersEnd, Signing
    <3>3. /\ \A h \in Signer \ {g} : signer'[h] = signer[h]
          /\ signer'[g].at = "saving"
      BY <2>4 DEF LoginStores, Types, SignIn
    <3>. UNCHANGED <<keyring, call, leaver, server, over>>
      BY <2>4 DEF LoginStores
    <3>4. EndedStaysEnded'
      BY <3>2 DEF EndInv, EndedStaysEnded
    <3>5. CallsEnd' /\ \A d \in Caller : ~Current(d)'
      <4>1. \A d \in Caller : call[d].stamp.session \in Nat
        BY DEF Types, Call, GrantStamp
      <4>2. QED BY <3>2, <4>1 DEF EndInv, CallsEnd, Current
    <3>6. \A h \in Signer \ {g} : signer[h].at \in {"idle", "done"}
      BY <2>4 DEF LoginStores, EndInv, SignersEnd, Types, SignIn
    <3>7. SignersEnd'
      BY <3>2, <3>3, <3>5, <3>6 DEF EndInv, SignersEnd, Signing
    <3>8. LeaversEnd'
      BY <3>1 DEF EndInv, LeaversEnd
    <3>9. QED BY <3>4, <3>5, <3>7, <3>8 DEF EndInv
  <2>5. CASE LoginSaves(g)
    <3> DEFINE t == signer[g].stamp.tenant
    <3>1. /\ \A p \in Leaver : leaver[p].at # "deleting"
          /\ \A d \in Caller : call[d].at # "saving"
      BY <2>5 DEF LoginSaves, HalvesHold
    <3>2. /\ g \notin over /\ tokens.grant \in {g, NoGrant}
          /\ \A d \in Caller : Current(d) => call[d].token.grant = g
          /\ \A h \in Signer \ {g} : signer[h].at \in {"idle", "done"}
      BY <2>5 DEF LoginSaves, EndInv, SignersEnd, Types, SignIn
    <3>3. over' = over \union (Ended(t) \ {g}) \/ over' = over
      BY <2>5 DEF LoginSaves
    <3>4. /\ Ended(t) \subseteq Grant
          /\ \A h \in Ended(t) \ {g} : server[h].tenant = t
          /\ t \in Tenant
      BY <2>5, <3>2 DEF LoginSaves, Ended, Grant, Owned, SignerOwns
    <3>5. g \notin over' /\ NoGrant \notin over'
      BY <3>2, <3>3, <3>4, NoGrantIsNone DEF Types
    <3>6. \A h \in Signer : signer[h].at = "idle" => h \notin over'
      BY <3>2, <3>3, <3>4 DEF EndInv, SignersEnd, Owned, SignerOwns
    <3>. UNCHANGED <<session, tokens, call, leaver, server>>
      BY <2>5 DEF LoginSaves
    <3>7. /\ \A h \in Signer \ {g} : signer'[h] = signer[h]
          /\ signer'[g].at = "done"
      BY <2>5 DEF LoginSaves, NoSigner, Types
    <3>8. EndedStaysEnded'
      <4>1. tokens.grant \notin over'
        BY <3>2, <3>5
      <4>2. ASSUME NEW u \in Tenant PROVE keyring'[u].grant \notin over'
        <5>1. CASE over' = over
          <6>1. keyring'[u] \in {keyring[u], NoToken} \/ keyring'[u].grant = g
            BY <2>5 DEF LoginSaves, Types
          <6>2. QED BY <5>1, <6>1, <3>5 DEF NoToken, EndInv, EndedStaysEnded
        <5>2. CASE over' # over
          <6>1. \/ u = t /\ (keyring'[u] = NoToken \/ keyring'[u].grant = g)
                \/ u # t /\ keyring'[u] = keyring[u]
            BY <2>5, <5>2 DEF LoginSaves, Types
          <6>2. u # t => keyring[u] = NoToken \/ server[keyring[u].grant].tenant = u
            BY DEF Owned, KeyringOwns, Owns
          <6>3. keyring[u].grant \notin over
            BY DEF EndInv, EndedStaysEnded
          <6>4. u # t => keyring[u].grant \notin over'
            BY <6>2, <6>3, <3>3, <3>4, <3>5 DEF NoToken
          <6>5. QED BY <6>1, <6>4, <3>5 DEF NoToken
        <5>3. QED BY <5>1, <5>2
      <4>3. QED BY <4>1, <4>2 DEF EndedStaysEnded
    <3>9. CallsEnd'
      BY <3>1, <3>2, <3>5 DEF EndInv, CallsEnd, Current
    <3>10. SignersEnd'
      BY <3>2, <3>6, <3>7 DEF EndInv, SignersEnd, Signing
    <3>11. LeaversEnd'
      BY <3>1 DEF EndInv, LeaversEnd
    <3>12. QED BY <3>8, <3>9, <3>10, <3>11 DEF EndInv
  <2> QED BY <1>2, <2>1, <2>2, <2>3, <2>4, <2>5 DEF SignerStep
<1>3. ASSUME NEW o \in Leaver, LogoutForgets(o) PROVE EndInv'
  <2>1. /\ session' = session + 1 /\ session \in Nat
        /\ tokens' = NoTokens /\ NoGrant \notin over
        /\ \A g \in Signer : signer[g].at # "saving"
        /\ \A p \in Leaver : leaver[p].at # "deleting"
    BY <1>3, NoGrantIsNone DEF LogoutForgets, Types, HalvesHold
  <2>2. /\ leaver'[o] = [at |-> "deleting", tenant |-> tenant, ends |-> Ended(tenant)]
        /\ \A p \in Leaver \ {o} : leaver'[p] = leaver[p]
    BY <1>3 DEF LogoutForgets, Types
  <2>. UNCHANGED <<keyring, call, signer, server, over>>
    BY <1>3 DEF LogoutForgets
  <2>3. EndedStaysEnded'
    BY <2>1 DEF EndInv, EndedStaysEnded, NoTokens
  <2>4. CallsEnd' /\ \A d \in Caller : ~Current(d)'
    <3>1. \A d \in Caller : call[d].stamp.session \in Nat
      BY DEF Types, Call, GrantStamp
    <3>2. QED BY <2>1, <3>1 DEF EndInv, CallsEnd, Current
  <2>5. SignersEnd' /\ \A g \in Signer : Signing(g) => signer[g].stamp.session # session'
    <3>1. \A g \in Signer : signer[g].stamp.session \in Nat
      BY DEF Types, SignIn, GrantStamp
    <3>2. \A g \in Signer : Signing(g) =>
             signer[g].stamp.session <= session' /\ signer[g].stamp.session # session'
      BY <2>1, <3>1 DEF EndInv, SignersEnd
    <3>3. QED BY <2>1, <3>2 DEF EndInv, SignersEnd, Signing
  <2>6. LeaversEnd'
    <3>1. ASSUME NEW g \in Ended(tenant) PROVE Ending(o, g)'
      BY <2>1, <2>2, <2>5 DEF Ended, Ending, Signing, Owned, SignerOwns, Types, SignIn
    <3>2. QED BY <2>1, <2>2, <2>4, <3>1 DEF LeaversEnd, Types
  <2>7. QED BY <2>3, <2>4, <2>5, <2>6 DEF EndInv
<1>4. ASSUME NEW o \in Leaver, LogoutDeletes(o) PROVE EndInv'
  <2>1. /\ \A g \in Signer : signer[g].at # "saving"
        /\ \A d \in Caller : call[d].at # "saving"
        /\ \A p \in Leaver \ {o} : leaver[p].at # "deleting"
    BY <1>4 DEF LogoutDeletes, HalvesHold
  <2>2. /\ leaver[o].tenant \in Tenant /\ tokens = NoTokens
        /\ \A d \in Caller : ~Current(d)
        /\ \A h \in leaver[o].ends : Ending(o, h)
    BY <1>4 DEF LogoutDeletes, EndInv, LeaversEnd
  <2>3. over' = over \/ over' = over \union leaver[o].ends
    BY <1>4 DEF LogoutDeletes
  <2>4. NoGrant \notin over' /\ leaver[o].ends \subseteq Grant
    BY <2>3, NoGrantIsNone DEF Types, SignOut
  <2>. UNCHANGED <<session, tokens, call, signer, server>>
    BY <1>4 DEF LogoutDeletes
  <2>5. \A p \in Leaver : leaver'[p].at # "deleting"
    BY <1>4, <2>1 DEF LogoutDeletes, NoLeaver, Types
  <2>6. EndedStaysEnded'
    <3>1. ASSUME NEW u \in Tenant PROVE keyring'[u].grant \notin over'
      <4>1. keyring[u].grant \notin over
        BY DEF EndInv, EndedStaysEnded
      <4>2. CASE over' = over
        BY <1>4, <4>1, <4>2, <2>4 DEF LogoutDeletes, NoToken, Types
      <4>3. CASE over' # over
        <5>1. keyring'[u] = IF u = leaver[o].tenant THEN NoToken ELSE keyring[u]
          BY <1>4, <4>3 DEF LogoutDeletes, Types
        <5>2. keyring[u] = NoToken \/ server[keyring[u].grant].tenant = u
          BY DEF Owned, KeyringOwns, Owns
        <5>3. u # leaver[o].tenant => keyring[u].grant \notin over'
          BY <5>2, <4>1, <2>2, <2>3, <2>4 DEF Ending, NoToken
        <5>4. QED BY <5>1, <5>3, <2>4 DEF NoToken
      <4>4. QED BY <4>2, <4>3
    <3>2. QED BY <3>1, <2>2, <2>4 DEF EndedStaysEnded, NoTokens
  <2>7. CallsEnd'
    BY <2>1, <2>2 DEF EndInv, CallsEnd, Current
  <2>8. SignersEnd'
    BY <2>1, <2>2, <2>3 DEF EndInv, SignersEnd, Signing, Ending, Current
  <2>9. LeaversEnd'
    BY <2>5 DEF LeaversEnd
  <2>10. QED BY <2>6, <2>7, <2>8, <2>9 DEF EndInv
<1>5. CASE Expires
  BY <1>5 DEF Expires, EndInv, EndedStaysEnded, CallsEnd, SignersEnd,
     LeaversEnd, Ending, Current, Signing, Types, HalvesHold, Call, SignIn,
     NoCall, NoToken, NoTokens
<1>6. CASE SwitchesTenant
  <2>1. tokens' = NoTokens /\ NoGrant \notin over
    BY <1>6, NoGrantIsNone DEF SwitchesTenant, Types
  <2>. UNCHANGED <<session, keyring, call, signer, leaver, server, over>>
    BY <1>6 DEF SwitchesTenant
  <2>2. EndedStaysEnded' /\ CallsEnd'
    BY <2>1 DEF EndInv, EndedStaysEnded, CallsEnd, Current, NoTokens
  <2>3. SignersEnd' /\ LeaversEnd'
    BY <2>1 DEF EndInv, SignersEnd, LeaversEnd, Signing, Ending, Current, NoTokens
  <2>4. QED BY <2>2, <2>3 DEF EndInv
<1>7. QED BY <1>1, <1>2, <1>3, <1>4, <1>5, <1>6 DEF Next

(* The strengthened invariant holds of every behaviour.                     *)
THEOREM EndInductive == ASSUME ~ReadsAcrossSessions PROVE Spec => []EndInv
<1>1. Init => EndInv
  BY DEF Init, EndInv, EndedStaysEnded, CallsEnd, SignersEnd, LeaversEnd, Current, Signing,
     NoCall, NoSigner, NoLeaver
<1>2. IInv /\ EndInv /\ [Next]_vars => EndInv'
  <2> SUFFICES ASSUME IInv, EndInv, [Next]_vars PROVE EndInv'
    OBVIOUS
  <2>1. CASE Next
    BY <2>1, EndKept
  <2>2. CASE UNCHANGED vars
    BY <2>2 DEF vars, memoryVars, flowVars, worldVars, EndInv, EndedStaysEnded, CallsEnd,
       SignersEnd, LeaversEnd, Current, Signing, Ending
  <2>3. QED BY <2>1, <2>2
<1>3. QED BY Inductive, <1>1, <1>2, PTL DEF Spec

(* logout: "Bumping the session generation is what makes the sign-out       *)
(* stick".  It does, for a sign-out and for a later sign-in, as long as no  *)
(* refresh reads the saved token between the two halves of one, or after    *)
(* the session its stamp is of has ended.                                   *)
THEOREM SignOutSticks ==
    ASSUME ~ReadsAcrossSessions
    PROVE  Spec => []EndedStaysEnded
<1>1. EndInv => EndedStaysEnded
  BY DEF EndInv
<1>2. QED BY EndInductive, <1>1, PTL

(* A sign-in that is not ended keeps its newest refresh token.  The         *)
(* invariant says where that token is: in the keyring, unless a reply is    *)
(* bringing it, a sign-in is about to save it, or the holder of             *)
(* refresh_lock carries it; and that memory, and every refresh under way,   *)
(* has the newest token of the one grant the session goes on with.          *)
Live(g) == server[g].valid # 0 /\ g \notin over \union lost \union dropped

InReply(g) == g \in Signer /\ signer[g].at = "issued"
Entering(g) == g \in Signer /\ signer[g].at = "saving"

Carries(c, g) ==
    lock = c /\ call[c].at \in {"granted", "saving"} /\ call[c].token.grant = g /\ call[c].refresh # 0
Carried(g) == \E c \in Caller : Carries(c, g)

(* Another sign-in is about to end it.                                      *)
Superseded(g) ==
    \E h \in Signer \ {g} : signer[h].at = "saving" /\ signer[h].stamp.tenant = server[g].tenant

(* The grant of its tenant that the session goes on with.                   *)
Present(g) == Live(g) /\ ~InReply(g) /\ ~Superseded(g)

GrantsAreReal ==
    /\ \A g \in Grant : server[g].valid # 0 => server[g].tenant \in Tenant
    /\ \A t \in Tenant : keyring[t] # NoToken => keyring[t].number # 0

LiveIsFiled ==
    \A g \in Grant :
        Live(g) /\ ~InReply(g) /\ ~Entering(g) /\ ~Carried(g)
            => keyring[server[g].tenant] = [grant |-> g, number |-> server[g].valid]

Presents(c) == call[c].at \in {"posting", "granted", "saving"}

EnteringIsNewest ==
    \A g \in Signer :
        /\ Live(g) /\ signer[g].at = "issued" => signer[g].number = server[g].valid
        /\ Live(g) /\ signer[g].at = "saving" => signer[g].number = server[g].valid \/ Carried(g)
        /\ signer[g].at \in {"idle", "browsing", "issued"} =>
              /\ tokens.grant # g
              /\ \A t \in Tenant : keyring[t].grant # g
              /\ \A c \in Caller : Presents(c) => call[c].token.grant # g

MemoryIsNewest ==
    tokens.refresh # 0 =>
        /\ \A g \in Grant : Present(g) /\ server[g].tenant = tenant => tokens.grant = g
        /\ Live(tokens.grant) => tokens.refresh = server[tokens.grant].valid \/ Carried(tokens.grant)

CallIsNewest(c) ==
    LET token == call[c].token
        at    == call[c].at
    IN  /\ at \in Refreshing => call[c].stamp.session <= session
        /\ at \in {"saving", "deleting"} => call[c].stamp.session = session
        /\ at \in Refreshing \ {"loading"} /\ call[c].stamp.session = session =>
              \A g \in Grant : Present(g) /\ server[g].tenant = call[c].stamp.tenant =>
                  at \notin {"dead", "deleting"} /\ token.grant = g
        /\ at = "posting" => token.number # 0 /\ (Live(token.grant) => token.number = server[token.grant].valid)
        /\ at \in {"granted", "saving"} =>
              /\ lock = c \/ token.grant \in over \union lost
              /\ call[c].refresh # 0 /\ Live(token.grant) => call[c].refresh = server[token.grant].valid
        /\ at = "saving" /\ call[c].refresh # 0 => tokens.refresh \in {0, call[c].refresh}
CallsAreNewest == \A c \in Caller : CallIsNewest(c)

LeaversTakeAll ==
    \A o \in Leaver : leaver[o].at = "deleting" =>
        \A g \in Grant : Live(g) /\ server[g].tenant = leaver[o].tenant => g \in leaver[o].ends \/ InReply(g)

LiveInv ==
    /\ GrantsAreReal /\ LiveIsFiled /\ EnteringIsNewest /\ MemoryIsNewest
    /\ CallsAreNewest /\ LeaversTakeAll

(* What a step leaves of the sign-ins that stay alive, and of the calls.    *)
Fading ==
    /\ UNCHANGED <<signer>>
    /\ \A h \in Grant : server'[h].tenant = server[h].tenant
    /\ \A h \in Grant : server'[h].valid # 0 => server[h].valid # 0
    /\ \A h \in Grant : Live(h)' => Live(h) /\ server'[h] = server[h] /\ (Carried(h)' <=> Carried(h))

LEMMA FadingPresent ==
    ASSUME Fading, NEW h \in Grant, Present(h)'
    PROVE  Present(h) /\ server'[h] = server[h]
BY DEF Fading, Present, InReply, Superseded

LEMMA CallsHold ==
    ASSUME IInv, LiveInv, NEW c \in Caller
    PROVE  /\ Presents(c) => call[c].token.grant \in Grant
           /\ call[c].at = "posting" => lock = c
           /\ \A h : Carries(c, h) => lock = c /\ Presents(c) /\ h \in Grant
           /\ call[c].at \in {"granted", "saving"} /\ Live(call[c].token.grant) => lock = c
BY DEF IInv, TypeOK, RefreshesLocked, Owned, CallOwns, Owns, Presents, Carries, LiveInv,
       CallsAreNewest, CallIsNewest, Live

(* Nobody carries a token while the lock's holder has not got a reply.      *)
LEMMA NoneCarried ==
    ASSUME NEW c \in Caller, lock = c, call[c].at \notin {"granted", "saving"}
    PROVE  \A h : ~Carried(h)
BY DEF Carried, Carries

(* A step that gives no call a new token, and takes none from memory or     *)
(* the keyring.                                                             *)
LEMMA FadingKeeps ==
    ASSUME IInv, LiveInv, Fading,
           UNCHANGED <<tenant, session, tokens, keyring, leaver>>,
           over \subseteq over', lost \subseteq lost',
           \A d \in Caller :
               \/ /\ call'[d] = call[d]
                  /\ lock = d => lock' = d \/ (Presents(d) => call[d].token.grant \in over' \union lost')
               \/ call'[d].at \notin Refreshing
               \/ /\ call[d].at = "posting" /\ call'[d].at = "dead" /\ call'[d].stamp = call[d].stamp
                  /\ \A h \in Grant : h = call[d].token.grant => ~Live(h)'
    PROVE  LiveInv'
<1>1. GrantsAreReal'
  BY DEF LiveInv, GrantsAreReal, Fading
<1>2. LiveIsFiled'
  BY DEF LiveInv, LiveIsFiled, Fading, InReply, Entering
<1>3. \A d \in Caller : Presents(d)' => Presents(d) /\ call'[d] = call[d]
  BY DEF Presents, Refreshing
<1>4. EnteringIsNewest'
  <2>1. Signer \subseteq Grant
    BY DEF Grant
  <2>2. QED BY <1>3, <2>1 DEF LiveInv, EnteringIsNewest, Fading
<1>5. MemoryIsNewest'
  <2>1. tokens.refresh # 0 /\ Live(tokens.grant)' => tokens.grant \in Grant
    BY DEF IInv, Owned, MemoryOwns, Owns, NoTokens
  <2>2. QED BY <2>1, FadingPresent DEF LiveInv, MemoryIsNewest, Fading
<1>6. CallsAreNewest'
  <2> SUFFICES ASSUME NEW d \in Caller PROVE CallIsNewest(d)'
    BY DEF CallsAreNewest
  <2>1. CallIsNewest(d)
    BY DEF LiveInv, CallsAreNewest
  <2>2. Presents(d) => call[d].token.grant \in Grant
    BY CallsHold
  <2>3. \A h \in Grant : Present(h)' => Present(h) /\ server'[h] = server[h]
    BY FadingPresent
  <2>4. \A h \in Grant : Live(h)' => Live(h) /\ server'[h] = server[h]
    BY DEF Fading
  <2>5. \A h \in Grant : Present(h)' => Live(h)'
    BY DEF Present
  <2>6. CASE call'[d] = call[d] /\ (lock = d => lock' = d \/ (Presents(d) => call[d].token.grant \in over' \union lost'))
    BY <2>1, <2>2, <2>3, <2>4, <2>6 DEF CallIsNewest, Presents, Refreshing
  <2>7. CASE call'[d].at \notin Refreshing
    BY <2>7 DEF CallIsNewest, Refreshing
  <2>8. CASE /\ call[d].at = "posting" /\ call'[d].at = "dead" /\ call'[d].stamp = call[d].stamp
             /\ \A h \in Grant : h = call[d].token.grant => ~Live(h)'
    BY <2>1, <2>2, <2>3, <2>5, <2>8 DEF Presents, CallIsNewest, Refreshing
  <2>9. QED BY <2>6, <2>7, <2>8
<1>7. LeaversTakeAll'
  BY DEF LiveInv, LeaversTakeAll, Fading, InReply
<1>8. QED BY <1>1, <1>2, <1>4, <1>5, <1>6, <1>7 DEF LiveInv

(* A caller that has no reply in hand and gives up its part.                *)
LEMMA QuietKeeps ==
    ASSUME IInv, LiveInv,
           UNCHANGED <<tenant, session, tokens, keyring, signer, leaver, server, over, lost, dropped>>,
           \A d \in Caller :
               \/ call'[d] = call[d] /\ (lock' = d <=> lock = d)
               \/ call[d].at \notin {"granted", "saving"} /\ call'[d].at \notin Refreshing
    PROVE  LiveInv'
<1>1. \A h : \A d \in Caller : Carries(d, h)' <=> Carries(d, h)
  BY DEF Carries, Refreshing
<1>2. \A h : Carried(h)' <=> Carried(h)
  BY <1>1 DEF Carried
<1>3. Fading
  BY <1>2 DEF Fading, Live
<1>4. QED BY <1>3, FadingKeeps

LEMMA QuietSteps ==
    ASSUME IInv, LiveInv, NEW c \in Caller,
           \/ Asks(c) \/ FindsMoved(c) \/ FindsFresh(c) \/ Queues(c) \/ TakesLock(c)
           \/ GivesUp(c) \/ LoadFails(c) \/ Unavailable(c) \/ DiscardSkipped(c)
           \/ Replied(c) \/ Unauthorized(c)
    PROVE  LiveInv'
<1> USE DEF memoryVars, flowVars, worldVars
<1>1. call \in [Caller -> Call] /\ Nobody \notin Caller
  BY DEF IInv, TypeOK, Types
<1>2. call[c].at \in {"granting", "loading", "posting"} => lock = c
  BY DEF IInv, TypeOK, RefreshesLocked
<1>3. ASSUME UNCHANGED <<tenant, session, tokens, keyring, signer, leaver, server, over, lost, dropped>>,
             \A d \in Caller \ {c} :
                 \/ /\ call'[d] = call[d]
                    /\ lock' = d <=> lock = d
                 \/ /\ call[d].at = "waiting"
                    /\ call'[d].at = "waiting",
             call[c].at \notin {"granted", "saving"} /\ call'[c].at \notin Refreshing
      PROVE  LiveInv'
  BY <1>3, QuietKeeps DEF Refreshing
<1>4. CASE Asks(c)
  BY <1>1, <1>3, <1>4 DEF Asks, NoCall, Refreshing
<1>5. CASE FindsMoved(c)
  BY <1>1, <1>3, <1>5 DEF FindsMoved, Checks, NoCall, Refreshing
<1>6. CASE FindsFresh(c)
  BY <1>1, <1>3, <1>6 DEF FindsFresh, Checks, Given, NoCall, Refreshing
<1>7. CASE Queues(c)
  BY <1>1, <1>3, <1>7 DEF Queues, Call, Refreshing
<1>8. CASE TakesLock(c)
  BY <1>1, <1>3, <1>8 DEF TakesLock, Call, Refreshing
<1>9. CASE GivesUp(c)
  BY <1>1, <1>2, <1>3, <1>9 DEF GivesUp, Unlock, NoCall, Refreshing
<1>10. ASSUME Records(c)
       PROVE  /\ \A d \in Caller \ {c} :
                    \/ /\ call'[d] = call[d]
                       /\ lock' = d <=> lock = d
                    \/ /\ call[d].at = "waiting"
                       /\ call'[d].at = "waiting"
              /\ call'[c].at \notin Refreshing
  BY <1>1, <1>10 DEF Records, Unlock, NoCall, Call, Refreshing
<1>11. CASE LoadFails(c)
  BY <1>3, <1>10, <1>11 DEF LoadFails
<1>12. CASE Unavailable(c)
  BY <1>3, <1>10, <1>12 DEF Unavailable
<1>13. CASE DiscardSkipped(c)
  BY <1>1, <1>3, <1>13 DEF DiscardSkipped, Unlock, NoCall, Refreshing
<1>14. CASE Replied(c)
  BY <1>1, <1>3, <1>14 DEF Replied, NoCall, Refreshing
<1>15. CASE Unauthorized(c)
  BY <1>1, <1>3, <1>15 DEF Unauthorized, NoCall, Refreshing
<1>16. QED BY <1>4, <1>5, <1>6, <1>7, <1>8, <1>9, <1>11, <1>12, <1>13, <1>14, <1>15

(* The steps that lose a token, or find its grant dead.                     *)
LEMMA LosingSteps ==
    ASSUME IInv, LiveInv, NEW c \in Caller,
           ReplyLost(c) \/ FindsDead(c) \/ StoreRefused(c) \/ Cancels(c)
    PROVE  LiveInv'
<1> USE DEF memoryVars, flowVars, worldVars
<1> DEFINE g == call[c].token.grant
<1>1. call \in [Caller -> Call] /\ server \in [Grant -> GrantRecord] /\ Nobody \notin Caller
  BY DEF IInv, TypeOK, Types
<1>2. /\ Presents(c) => g \in Grant
      /\ call[c].at = "posting" => lock = c
  BY CallsHold
<1>3. \A h \in Grant : server[h].issued \in Nat
  BY <1>1 DEF GrantRecord
<1>4. CallIsNewest(c)
  BY DEF LiveInv, CallsAreNewest
<1>5. ASSUME Loses({g}) PROVE g \in over \union lost' /\ lost \subseteq lost'
  BY <1>5 DEF Loses
<1>6. CASE ReplyLost(c)
  <2>1. g \in Grant /\ lock = c /\ server[g].valid = call[c].token.number /\ server[g].valid # 0
    BY <1>2, <1>4, <1>6 DEF ReplyLost, Presents, Accepts, CallIsNewest
  <2>2. /\ \A h \in Grant \ {g} : server'[h] = server[h]
        /\ server'[g].tenant = server[g].tenant
    BY <1>1, <1>6, <2>1 DEF ReplyLost, GrantRecord
  <2>3. g \in over \union lost' /\ lost \subseteq lost'
    BY <1>5, <1>6 DEF ReplyLost
  <2>4. /\ \A d \in Caller : (call'[d] = call[d] /\ lock # d) \/ call'[d].at \in {"idle", "waiting"}
        /\ lock' = Nobody
    BY <1>1, <1>6, <2>1 DEF ReplyLost, Records, Unlock, NoCall, Call
  <2>5. \A h : ~Carried(h) /\ ~Carried(h)'
    BY <1>1, <1>6, <2>1, <2>4, NoneCarried DEF ReplyLost, Carried, Carries
  <2>6. UNCHANGED <<tenant, session, tokens, keyring, signer, leaver, over, dropped>>
    BY <1>6 DEF ReplyLost
  <2>7. Fading
    BY <2>1, <2>2, <2>3, <2>5, <2>6 DEF Fading, Live
  <2>8. QED BY <2>3, <2>4, <2>6, <2>7, FadingKeeps DEF Refreshing
<1>7. CASE FindsDead(c)
  <2>1. g \in Grant /\ lock = c /\ call[c].at = "posting"
    BY <1>2, <1>7 DEF FindsDead, Presents
  <2>2. /\ \A h \in Grant \ {g} : server'[h] = server[h]
        /\ server'[g].tenant = server[g].tenant
        /\ server'[g].valid # 0 => server' = server /\ server[g].valid # call[c].token.number
    BY <1>1, <1>7, <2>1 DEF FindsDead, GrantRecord
  <2>3. /\ \A d \in Caller \ {c} : call'[d] = call[d]
        /\ call'[c].at = "dead" /\ call'[c].stamp = call[c].stamp
    BY <1>1, <1>7 DEF FindsDead, Call
  <2>4. UNCHANGED <<tenant, session, tokens, keyring, lock, signer, leaver, over, lost, dropped>>
    BY <1>7 DEF FindsDead
  <2>5. \A h : ~Carried(h) /\ ~Carried(h)'
    BY <2>1, <2>3, <2>4, NoneCarried DEF Carried, Carries
  <2>6. \A h \in Grant : Live(h)' => Live(h) /\ h # g
    BY <1>4, <2>1, <2>2, <2>4 DEF Live, CallIsNewest
  <2>7. Fading
    BY <2>2, <2>4, <2>5, <2>6 DEF Fading
  <2>8. QED BY <2>1, <2>3, <2>4, <2>6, <2>7, FadingKeeps
<1>8. CASE StoreRefused(c)
  <2>1. g \in Grant
    BY <1>2, <1>8 DEF StoreRefused, Presents
  <2>2. /\ \A d \in Caller \ {c} : call'[d] = call[d] /\ (lock' = d <=> lock = d)
        /\ call'[c].at = "idle" /\ lock' # c
    BY <1>1, <1>8 DEF StoreRefused, Unlock, NoCall
  <2>3. UNCHANGED <<tenant, session, tokens, keyring, signer, leaver, server, over, lost>>
    BY <1>8 DEF StoreRefused
  <2>4. dropped \subseteq dropped' /\ (call[c].refresh # 0 => g \in over \union lost \union dropped')
    BY <1>8 DEF StoreRefused
  <2>5. \A h \in Grant : Live(h)' => Live(h) /\ (h = g => call[c].refresh = 0)
    BY <2>3, <2>4 DEF Live
  <2>6. \A h : \A d \in Caller \ {c} : Carries(d, h)' <=> Carries(d, h)
    BY <2>2 DEF Carries
  <2>7. \A h : ~Carries(c, h)' /\ (Carries(c, h) => h = g /\ call[c].refresh # 0)
    BY <2>2 DEF Carries
  <2>8. Fading
    BY <2>3, <2>5, <2>6, <2>7 DEF Fading, Carried
  <2>9. QED BY <2>2, <2>3, <2>8, FadingKeeps DEF Refreshing
<1>9. CASE Cancels(c)
  <2>1. UNCHANGED <<tenant, session, tokens, keyring, signer, leaver, server, over, dropped>>
    BY <1>9 DEF Cancels
  <2>2. lost \subseteq lost' /\ (Presents(c) => g \in Grant /\ g \in over \union lost')
    BY <1>2, <1>5, <1>9 DEF Cancels, Presents
  <2>3. /\ \A d \in Caller \ {c} : call'[d] = call[d] /\ (lock' = d <=> lock = d)
        /\ call'[c] = call[c] \/ call'[c].at = "idle"
        /\ lock' # c
    BY <1>1, <1>9 DEF Cancels, Unlock, NoCall
  <2>4. \A h \in Grant : Live(h)' => Live(h) /\ (Presents(c) => h # g)
    BY <2>1, <2>2 DEF Live
  <2>5. \A h : \A d \in Caller \ {c} : Carries(d, h)' <=> Carries(d, h)
    BY <2>3 DEF Carries
  <2>6. \A h : ~Carries(c, h)' /\ (Carries(c, h) => h = g /\ Presents(c))
    BY <2>3 DEF Carries, Presents
  <2>7. Fading
    BY <2>1, <2>4, <2>5, <2>6 DEF Fading, Carried
  <2>8. \A d \in Caller :
          \/ call'[d] = call[d] /\ (lock = d => lock' = d \/ (Presents(d) => call[d].token.grant \in over' \union lost'))
          \/ call'[d].at \notin Refreshing
    BY <2>1, <2>2, <2>3 DEF Refreshing
  <2>9. QED BY <2>1, <2>2, <2>7, <2>8, FadingKeeps
<1>10. QED BY <1>6, <1>7, <1>8, <1>9

(* The steps that take a token from memory or the keyring, and the reply.   *)
LEMMA PresentingSteps ==
    ASSUME ~ReadsAcrossSessions, IInv, LiveInv, NEW c \in Caller,
           ReadsGrant(c) \/ Loads(c)
    PROVE  LiveInv'
<1> USE DEF memoryVars, flowVars, worldVars
<1>1. /\ call \in [Caller -> Call] /\ keyring \in [Tenant -> Token] /\ Signer \subseteq Grant
      /\ session \in Nat
  BY DEF IInv, TypeOK, Types, Grant
<1>2. lock = c
  BY DEF IInv, TypeOK, RefreshesLocked, ReadsGrant, Loads
<1>3. call[c].at \in {"granting", "loading"}
  BY DEF ReadsGrant, Loads
<1>4. UNCHANGED <<tenant, session, tokens, keyring, lock, signer, leaver, server, over, lost, dropped>>
  BY DEF ReadsGrant, Loads
<1>5. /\ \A d \in Caller \ {c} : call'[d] = call[d]
      /\ call'[c].at \in {"loading", "posting"}
  <2>1. CASE ReadsGrant(c)
    BY <1>1, <2>1 DEF ReadsGrant, Call
  <2>2. CASE Loads(c)
    BY <1>1, <2>2 DEF Loads, Call
  <2>3. QED BY <2>1, <2>2
<1>6. /\ call'[c].stamp.session <= session
      /\ call'[c].at = "posting" =>
            LET g == call'[c].token.grant
                n == call'[c].token.number
            IN  /\ n # 0
                /\ Live(g) => n = server[g].valid
                /\ call'[c].stamp.session = session =>
                      \A h \in Grant : Present(h) /\ server[h].tenant = call'[c].stamp.tenant => h = g
                /\ \A h \in Signer : signer[h].at \in {"idle", "browsing", "issued"} => h # g
  <2>1. \A h : ~Carried(h)
    BY <1>2, <1>3, NoneCarried
  <2>2. CASE ReadsGrant(c)
    <3>1. call'[c].stamp = Stamp
      BY <1>1, <2>2 DEF ReadsGrant, Call
    <3>2. call'[c].at = "posting" =>
            call'[c].token = [grant |-> tokens.grant, number |-> tokens.refresh] /\ tokens.refresh # 0
      BY <1>1, <2>2 DEF ReadsGrant, Call
    <3>3. call'[c].stamp.session = session /\ call'[c].stamp.tenant = tenant
      BY <3>1 DEF Stamp
    <3>4. QED BY <1>1, <2>1, <3>2, <3>3 DEF LiveInv, MemoryIsNewest, EnteringIsNewest
  <2>3. CASE Loads(c)
    <3> DEFINE t == call[c].stamp.tenant
    <3>1. /\ ~MidFlow /\ call[c].stamp.session = session /\ keyring[t] # NoToken
          /\ call[c].at = "loading"
      BY <2>3 DEF Loads
    <3>2. t \in Tenant
      BY <3>1 DEF IInv, Owned, CallOwns, Refreshing
    <3>3. call'[c].stamp = call[c].stamp /\ call'[c].token = keyring[t]
      BY <1>1, <2>3, <3>2 DEF Loads, Call
    <3>4. \A h : ~Entering(h)
      BY <3>1 DEF MidFlow, Entering
    <3>5. \A h \in Grant : Live(h) /\ ~InReply(h) /\ server[h].tenant = t =>
                keyring[t].grant = h /\ keyring[t].number = server[h].valid
      <4>1. ASSUME NEW h \in Grant, Live(h), ~InReply(h), server[h].tenant = t
            PROVE  keyring[t] = [grant |-> h, number |-> server[h].valid]
        BY <2>1, <3>4, <4>1 DEF LiveInv, LiveIsFiled
      <4>2. \A h \in Grant : [grant |-> h, number |-> server[h].valid].grant = h
                            /\ [grant |-> h, number |-> server[h].valid].number = server[h].valid
        OBVIOUS
      <4> HIDE DEF t
      <4>3. QED BY <4>1, <4>2
    <3>6. keyring[t].number # 0
      BY <3>1, <3>2 DEF LiveInv, GrantsAreReal
    <3>7. keyring[t].grant \in Grant /\ server[keyring[t].grant].tenant = t
      BY <3>1, <3>2 DEF IInv, Owned, KeyringOwns, Owns
    <3>8. \A h \in Signer : signer[h].at \in {"idle", "browsing", "issued"} => h # keyring[t].grant
      BY <3>2 DEF LiveInv, EnteringIsNewest
    <3>9. ~InReply(keyring[t].grant)
      BY <3>8 DEF InReply
    <3>10. Live(keyring[t].grant) => keyring[t].number = server[keyring[t].grant].valid
      BY <3>5, <3>7, <3>9
    <3>11. \A h \in Grant : Present(h) /\ server[h].tenant = t => h = keyring[t].grant
      BY <3>5 DEF Present
    <3>12. QED BY <1>1, <3>1, <3>3, <3>6, <3>8, <3>10, <3>11
  <2>4. QED BY <2>2, <2>3
<1>7. \A h : Live(h)' <=> Live(h)
  BY <1>4 DEF Live
<1>8. \A h : Carried(h)' <=> Carried(h)
  BY <1>3, <1>4, <1>5 DEF Carried, Carries
<1>9. \A h : /\ InReply(h)' <=> InReply(h)
             /\ Entering(h)' <=> Entering(h)
             /\ Present(h)' <=> Present(h)
  BY <1>4, <1>7 DEF InReply, Entering, Present, Superseded
<1>10. GrantsAreReal' /\ LiveIsFiled' /\ MemoryIsNewest' /\ LeaversTakeAll'
  BY <1>4, <1>7, <1>8, <1>9 DEF LiveInv, GrantsAreReal, LiveIsFiled, MemoryIsNewest, LeaversTakeAll
<1>11. EnteringIsNewest'
  <2>1. \A h \in Signer : signer[h].at \in {"idle", "browsing", "issued"} =>
            \A d \in Caller : Presents(d)' => call'[d].token.grant # h
    BY <1>5, <1>6 DEF LiveInv, EnteringIsNewest, Presents
  <2>2. QED BY <1>4, <1>7, <1>8, <2>1 DEF LiveInv, EnteringIsNewest
<1>12. \A d \in Caller \ {c} : CallIsNewest(d)'
  BY <1>4, <1>5, <1>7, <1>9 DEF LiveInv, CallsAreNewest, CallIsNewest
<1>13. CallIsNewest(c)'
  BY <1>4, <1>5, <1>6, <1>7, <1>9 DEF CallIsNewest, Refreshing
<1>14. QED BY <1>10, <1>11, <1>12, <1>13 DEF LiveInv, CallsAreNewest

LEMMA GrantsStep ==
    ASSUME IInv, LiveInv, NEW c \in Caller, Grants(c)
    PROVE  LiveInv'
<1> USE DEF memoryVars, flowVars, worldVars
<1> DEFINE g == call[c].token.grant
<1>1. /\ call \in [Caller -> Call] /\ server \in [Grant -> GrantRecord] /\ Signer \subseteq Grant
      /\ \A h \in Grant : server[h].issued \in Nat
  BY DEF IInv, TypeOK, Types, Grant, GrantRecord
<1>2. g \in Grant /\ lock = c /\ call[c].at = "posting"
  BY CallsHold DEF Grants, Presents
<1>3. CallIsNewest(c)
  BY DEF LiveInv, CallsAreNewest
<1>4. server[g].valid = call[c].token.number /\ server[g].valid # 0
  BY <1>2, <1>3 DEF Grants, Accepts, CallIsNewest
<1>5. /\ \A d \in Caller \ {c} : call'[d] = call[d]
      /\ call'[c].at = "granted" /\ call'[c].token = call[c].token /\ call'[c].stamp = call[c].stamp
  BY <1>1 DEF Grants, Call
<1>6. UNCHANGED <<tenant, session, tokens, keyring, lock, signer, leaver, over, lost, dropped>>
  BY DEF Grants
<1>7. /\ \A h \in Grant \ {g} : server'[h] = server[h]
      /\ server'[g].tenant = server[g].tenant
      /\ server'[g].valid = IF call'[c].refresh # 0 THEN call'[c].refresh ELSE server[g].valid
  <2>1. PICK next \in Nat \ {0} : next = server[g].issued + 1
    BY <1>1, <1>2
  <2>2. PICK new \in {0, next} :
            /\ server' = [server EXCEPT ![g].issued = next,
                                        ![g].valid = IF new # 0 THEN new ELSE @]
            /\ call' = [call EXCEPT ![c] = [@ EXCEPT !.at = "granted", !.access = next,
                                                      !.refresh = new]]
    BY <2>1 DEF Grants
  <2>3. call'[c].refresh = new
    BY <1>1, <2>2 DEF Call
  <2>4. QED BY <1>1, <1>2, <2>2, <2>3 DEF GrantRecord
<1>8. \A h : ~Carried(h)
  BY <1>2, NoneCarried
<1>9. \A h : Carried(h)' <=> h = g /\ call'[c].refresh # 0
  BY <1>2, <1>5, <1>6 DEF Carried, Carries
<1>10. /\ \A h \in Grant : Live(h)' <=> Live(h)
       /\ \A h \in Grant : server'[h].tenant = server[h].tenant
  BY <1>4, <1>6, <1>7 DEF Live
<1>11. \A h \in Grant : /\ InReply(h)' <=> InReply(h)
                        /\ Entering(h)' <=> Entering(h)
                        /\ Present(h)' <=> Present(h)
  BY <1>6, <1>10 DEF InReply, Entering, Present, Superseded
<1>12. GrantsAreReal'
  BY <1>4, <1>6, <1>10, <1>7 DEF LiveInv, GrantsAreReal
<1>13. LiveIsFiled'
  BY <1>6, <1>7, <1>8, <1>9, <1>10, <1>11 DEF LiveInv, LiveIsFiled
<1>14. EnteringIsNewest'
  <2>1. \A h \in Signer : signer[h].at = "issued" => h # g
    BY <1>2 DEF LiveInv, EnteringIsNewest, Presents
  <2>2. \A d \in Caller : Presents(d)' => Presents(d) /\ call'[d].token = call[d].token
    BY <1>2, <1>5 DEF Presents
  <2>3. QED BY <1>1, <1>6, <1>7, <1>8, <1>9, <1>10, <2>1, <2>2 DEF LiveInv, EnteringIsNewest
<1>15. MemoryIsNewest'
  <2>1. tokens.refresh # 0 => tokens.grant \in Grant
    BY DEF IInv, Owned, MemoryOwns, Owns, NoTokens
  <2>2. QED BY <1>6, <1>7, <1>8, <1>9, <1>10, <1>11, <2>1 DEF LiveInv, MemoryIsNewest
<1>16. \A d \in Caller \ {c} : CallIsNewest(d)'
  <2> SUFFICES ASSUME NEW d \in Caller \ {c} PROVE CallIsNewest(d)'
    OBVIOUS
  <2>1. CallIsNewest(d) /\ call'[d] = call[d] /\ call[d].at # "posting"
    BY <1>2, <1>5, CallsHold DEF LiveInv, CallsAreNewest
  <2>2. call[d].at \in {"granted", "saving"} => call[d].token.grant \in Grant /\ ~Live(call[d].token.grant)
    BY <1>2, <2>1, CallsHold DEF Presents
  <2>3. QED BY <1>6, <1>10, <1>11, <2>1, <2>2 DEF CallIsNewest
<1>17. CallIsNewest(c)'
  BY <1>2, <1>3, <1>5, <1>6, <1>7, <1>10, <1>11 DEF CallIsNewest, Refreshing
<1>18. LeaversTakeAll'
  BY <1>6, <1>10, <1>11 DEF LiveInv, LeaversTakeAll
<1>19. QED BY <1>12, <1>13, <1>14, <1>15, <1>16, <1>17, <1>18 DEF LiveInv, CallsAreNewest

(* Between the two halves of a store or a discard.                          *)
LEMMA StoresStep ==
    ASSUME IInv, LiveInv, NEW c \in Caller, Stores(c)
    PROVE  LiveInv'
<1> USE DEF memoryVars, flowVars, worldVars
<1> DEFINE g == call[c].token.grant
<1>1. /\ call \in [Caller -> Call] /\ Signer \subseteq Grant /\ g \in Grant
      /\ server[g].tenant = tenant
      /\ call[c].at = "granted" /\ call[c].stamp.tenant = tenant /\ call[c].stamp.session = session
  <2>1. call[c].at = "granted" /\ call[c].stamp = Stamp
    BY DEF Stores
  <2>2. Owns(call[c].stamp.tenant, g)
    BY <2>1 DEF IInv, Owned, CallOwns
  <2>3. call \in [Caller -> Call] /\ Signer \subseteq Grant
    BY DEF IInv, TypeOK, Types, Grant
  <2>4. QED BY <2>1, <2>2, <2>3 DEF Owns, Stamp
<1>2. CallIsNewest(c)
  BY DEF LiveInv, CallsAreNewest
<1>3. /\ \A d \in Caller : call[d].at # "saving"
      /\ \A h \in Signer : signer[h].at # "saving"
  BY DEF IInv, TypeOK, HalvesHold, Stores
<1>4. /\ \A d \in Caller \ {c} : call'[d] = call[d]
      /\ call'[c].at = "saving" /\ call'[c].token = call[c].token /\ call'[c].stamp = call[c].stamp
      /\ call'[c].refresh = call[c].refresh
  BY <1>1 DEF Stores, Call
<1>5. UNCHANGED <<tenant, session, keyring, lock, signer, leaver, server, over, lost, dropped>>
  BY DEF Stores
<1>6. /\ tokens'.grant = g
      /\ tokens'.refresh = IF call[c].refresh # 0 THEN call[c].refresh ELSE tokens.refresh
  BY DEF Stores
<1>7. \A h : Live(h)' <=> Live(h)
  BY <1>5 DEF Live
<1>8. \A h : /\ InReply(h)' <=> InReply(h)
             /\ Entering(h)' <=> Entering(h)
             /\ Superseded(h)' <=> Superseded(h)
             /\ Present(h)' <=> Present(h)
  BY <1>5, <1>7 DEF InReply, Entering, Superseded, Present
<1>9. \A h : Carried(h)' <=> Carried(h)
  <2>1. \A h : \A d \in Caller : Carries(d, h)' <=> Carries(d, h)
    BY <1>1, <1>4, <1>5 DEF Carries
  <2>2. QED BY <2>1 DEF Carried
<1>10. \A h \in Signer : signer[h].at \in {"idle", "browsing", "issued"} => h # g
  BY <1>1 DEF LiveInv, EnteringIsNewest, Presents
<1>11. GrantsAreReal' /\ LiveIsFiled' /\ LeaversTakeAll'
  BY <1>5, <1>7, <1>8, <1>9 DEF LiveInv, GrantsAreReal, LiveIsFiled, LeaversTakeAll
<1>12. EnteringIsNewest'
  <2>1. \A d \in Caller : Presents(d)' => Presents(d) /\ call'[d].token = call[d].token
    BY <1>1, <1>4 DEF Presents
  <2>2. QED BY <1>5, <1>6, <1>7, <1>9, <1>10, <2>1 DEF LiveInv, EnteringIsNewest
<1>13. MemoryIsNewest'
  <2>1. ASSUME NEW h \in Grant, Present(h), server[h].tenant = tenant PROVE h = g
    BY <1>1, <1>2, <2>1 DEF CallIsNewest, Refreshing
  <2>2. ASSUME Live(g), tokens'.refresh # 0
        PROVE  tokens'.refresh = server[g].valid \/ Carried(g)
    <3>1. CASE call[c].refresh # 0
      BY <1>1, <1>2, <1>6, <2>2, <3>1 DEF CallIsNewest
    <3>2. CASE call[c].refresh = 0
      <4>1. Present(g)
        BY <1>3, <1>10, <2>2 DEF Present, InReply, Superseded
      <4>2. tokens.refresh # 0 /\ tokens'.refresh = tokens.refresh
        BY <1>6, <2>2, <3>2
      <4>3. tokens.grant = g
        BY <1>1, <4>1, <4>2 DEF LiveInv, MemoryIsNewest
      <4>4. QED BY <2>2, <4>2, <4>3 DEF LiveInv, MemoryIsNewest
    <3>3. QED BY <3>1, <3>2
  <2>3. QED BY <1>5, <1>6, <1>7, <1>8, <1>9, <2>1, <2>2 DEF MemoryIsNewest
<1>14. \A d \in Caller \ {c} : CallIsNewest(d)'
  BY <1>3, <1>4, <1>5, <1>7, <1>8 DEF LiveInv, CallsAreNewest, CallIsNewest
<1>15. CallIsNewest(c)'
  BY <1>1, <1>2, <1>4, <1>5, <1>6, <1>7, <1>8 DEF CallIsNewest, Refreshing
<1>16. QED BY <1>11, <1>12, <1>13, <1>14, <1>15 DEF LiveInv, CallsAreNewest

(* A discard changes nothing a live grant needs: the grant it found dead    *)
(* was the one the session went on with.                                    *)
LEMMA DiscardsStep ==
    ASSUME IInv, LiveInv, NEW c \in Caller, Discards(c)
    PROVE  LiveInv'
<1> USE DEF memoryVars, flowVars, worldVars
<1>1. call \in [Caller -> Call] /\ Signer \subseteq Grant
  BY DEF IInv, TypeOK, Types, Grant
<1>2. /\ \A d \in Caller \ {c} : call'[d] = call[d]
      /\ call'[c].at = "deleting" /\ call'[c].stamp = call[c].stamp
      /\ call[c].at = "dead" /\ call[c].stamp.session = session
  BY <1>1 DEF Discards, Call
<1>3. UNCHANGED <<tenant, session, keyring, lock, signer, leaver, server, over, lost, dropped>>
  BY DEF Discards
<1>4. tokens' = tokens \/ tokens' = NoTokens
  BY DEF Discards
<1>5. \A h : Live(h)' <=> Live(h)
  BY <1>3 DEF Live
<1>6. \A h : /\ InReply(h)' <=> InReply(h)
             /\ Entering(h)' <=> Entering(h)
             /\ Present(h)' <=> Present(h)
  BY <1>3, <1>5 DEF InReply, Entering, Superseded, Present
<1>7. \A h : Carried(h)' <=> Carried(h)
  <2>1. \A h : \A d \in Caller : Carries(d, h)' <=> Carries(d, h)
    BY <1>2, <1>3 DEF Carries
  <2>2. QED BY <2>1 DEF Carried
<1>8. GrantsAreReal' /\ LiveIsFiled' /\ LeaversTakeAll'
  BY <1>3, <1>5, <1>6, <1>7 DEF LiveInv, GrantsAreReal, LiveIsFiled, LeaversTakeAll
<1>9. NoTokens.grant = NoGrant /\ NoTokens.refresh = 0 /\ NoGrant \notin Signer
  BY DEF NoTokens
<1>10. EnteringIsNewest'
  <2>1. \A d \in Caller : Presents(d)' => Presents(d) /\ call'[d].token = call[d].token
    BY <1>2 DEF Presents
  <2>2. \A h \in Signer : tokens.grant # h => tokens'.grant # h
    BY <1>4, <1>9
  <2>3. QED BY <1>3, <1>5, <1>7, <2>1, <2>2 DEF LiveInv, EnteringIsNewest
<1>11. MemoryIsNewest'
  BY <1>3, <1>4, <1>5, <1>6, <1>7, <1>9 DEF LiveInv, MemoryIsNewest
<1>12. \A d \in Caller \ {c} : CallIsNewest(d)'
  BY <1>2, <1>3, <1>4, <1>5, <1>6, <1>9 DEF LiveInv, CallsAreNewest, CallIsNewest
<1>13. CallIsNewest(c)'
  BY <1>2, <1>3, <1>5, <1>6 DEF LiveInv, CallsAreNewest, CallIsNewest, Refreshing
<1>14. QED BY <1>8, <1>10, <1>11, <1>12, <1>13 DEF LiveInv, CallsAreNewest

LEMMA SavesStep ==
    ASSUME IInv, LiveInv, NEW c \in Caller, Saves(c)
    PROVE  LiveInv'
<1> USE DEF memoryVars, flowVars, worldVars
<1> DEFINE g == call[c].token.grant
           n == call[c].refresh
           t == call[c].stamp.tenant
<1>1. /\ call \in [Caller -> Call] /\ keyring \in [Tenant -> Token] /\ Signer \subseteq Grant
      /\ Nobody \notin Caller
  BY DEF IInv, TypeOK, Types, Grant
<1>2. call[c].at = "saving" /\ g \in Grant /\ t \in Tenant /\ server[g].tenant = t
  BY DEF Saves, IInv, Owned, CallOwns, Owns, Refreshing
<1>3. /\ CallIsNewest(c)
      /\ call[c].stamp.session = session
      /\ n # 0 /\ Live(g) => n = server[g].valid
      /\ n # 0 => tokens.refresh \in {0, n}
  BY <1>2 DEF LiveInv, CallsAreNewest, CallIsNewest
<1>4. \A h \in Signer : signer[h].at # "saving"
  BY <1>2 DEF IInv, TypeOK, HalvesHold
<1>5. /\ \A d \in Caller \ {c} : call'[d] = call[d] /\ (lock' = d <=> lock = d)
      /\ call'[c].at \in {"using", "idle"}
  BY <1>1 DEF Saves, Given, NoCall, Unlock
<1>6. UNCHANGED <<tenant, session, tokens, signer, leaver, server, over, dropped>>
  BY DEF Saves
<1>7. \/ n # 0 /\ lost' = lost /\ keyring' = [keyring EXCEPT ![t] = [grant |-> g, number |-> n]]
      \/ /\ keyring' = keyring /\ lost \subseteq lost'
         /\ n # 0 => g \in over \union lost'
  BY DEF Saves, Loses
<1>8. \A h \in Grant : Live(h)' => Live(h)
  BY <1>6, <1>7 DEF Live
<1>9. \A h \in Grant : /\ InReply(h)' <=> InReply(h)
                       /\ ~Entering(h)
                       /\ ~Superseded(h)
                       /\ Present(h)' => Present(h)
  BY <1>4, <1>6, <1>8 DEF InReply, Entering, Superseded, Present
<1>10. \A h \in Signer : signer[h].at \in {"idle", "browsing", "issued"} => h # g
  BY <1>2 DEF LiveInv, EnteringIsNewest, Presents
<1>11. \A h : Carried(h) => Carried(h)' \/ (h = g /\ n # 0)
  <2>1. \A h : \A d \in Caller \ {c} : Carries(d, h)' <=> Carries(d, h)
    BY <1>5 DEF Carries
  <2>2. \A h : Carries(c, h) => h = g /\ n # 0
    BY DEF Carries
  <2>3. QED BY <2>1, <2>2 DEF Carried
<1>12. \A u \in Tenant : \/ keyring'[u] = keyring[u]
                         \/ u = t /\ n # 0 /\ keyring'[u] = [grant |-> g, number |-> n]
  BY <1>1, <1>7
<1>13. GrantsAreReal'
  <2>1. \A u \in Tenant : keyring'[u] # NoToken => keyring'[u].number # 0
    BY <1>12 DEF LiveInv, GrantsAreReal
  <2>2. QED BY <1>6, <2>1 DEF LiveInv, GrantsAreReal
<1>14. LiveIsFiled'
  <2> SUFFICES ASSUME NEW h \in Grant, Live(h)', ~InReply(h)', ~Carried(h)'
               PROVE  keyring'[server[h].tenant] = [grant |-> h, number |-> server[h].valid]
    BY <1>6 DEF LiveIsFiled
  <2>1. Live(h) /\ ~InReply(h) /\ ~Entering(h) /\ Present(h)
    BY <1>8, <1>9 DEF Present
  <2>2. server[h].tenant \in Tenant
    BY <2>1 DEF Live, LiveInv, GrantsAreReal
  <2>3. CASE n # 0 /\ lost' = lost /\ keyring' = [keyring EXCEPT ![t] = [grant |-> g, number |-> n]]
    <3>1. CASE server[h].tenant = t
      <4>1. h = g
        BY <1>2, <1>3, <2>1, <3>1 DEF CallIsNewest, Refreshing
      <4>2. n = server[h].valid
        BY <1>3, <2>1, <2>3, <4>1
      <4>3. QED BY <1>1, <1>2, <2>3, <3>1, <4>1, <4>2
    <3>2. CASE server[h].tenant # t
      <4>1. ~Carried(h)
        BY <1>2, <1>11, <3>2
      <4>2. keyring'[server[h].tenant] = keyring[server[h].tenant]
        BY <1>12, <2>2, <3>2
      <4>3. QED BY <2>1, <4>1, <4>2 DEF LiveInv, LiveIsFiled
    <3>3. QED BY <3>1, <3>2
  <2>4. CASE /\ keyring' = keyring /\ lost \subseteq lost'
             /\ n # 0 => g \in over \union lost'
    <3>1. h = g => n = 0
      BY <1>6, <2>4 DEF Live
    <3>2. ~Carried(h)
      BY <1>11, <3>1
    <3>3. QED BY <2>1, <2>4, <3>2 DEF LiveInv, LiveIsFiled
  <2>5. QED BY <1>7, <2>3, <2>4
<1>15. EnteringIsNewest'
  <2>1. \A d \in Caller : Presents(d)' => Presents(d) /\ call'[d].token = call[d].token
    BY <1>5 DEF Presents
  <2>2. \A h \in Signer : signer[h].at \in {"idle", "browsing", "issued"} =>
            \A u \in Tenant : keyring'[u].grant # h
    BY <1>10, <1>12 DEF LiveInv, EnteringIsNewest
  <2>3. QED BY <1>1, <1>4, <1>6, <1>8, <2>1, <2>2 DEF LiveInv, EnteringIsNewest
<1>16. MemoryIsNewest'
  <2>1. ASSUME tokens.refresh # 0, Live(tokens.grant)'
        PROVE  tokens.refresh = server[tokens.grant].valid \/ Carried(tokens.grant)'
    <3>1. tokens.grant \in Grant
      BY <2>1 DEF IInv, Owned, MemoryOwns, Owns, NoTokens
    <3>2. Live(tokens.grant)
      BY <2>1, <3>1, <1>6, <1>8
    <3>3. CASE tokens.grant = g /\ n # 0
      BY <1>3, <2>1, <3>2, <3>3
    <3>4. CASE ~(tokens.grant = g /\ n # 0)
      <4>1. \A h : h = tokens.grant => (Carried(h) => Carried(h)')
        BY <1>11, <3>4
      <4>2. Carried(tokens.grant) => Carried(tokens.grant)'
        BY <4>1, <1>6
      <4>3. QED BY <2>1, <3>2, <4>2 DEF LiveInv, MemoryIsNewest
    <3>5. QED BY <3>3, <3>4
  <2>2. QED BY <1>6, <1>9, <2>1 DEF LiveInv, MemoryIsNewest
<1>17. CallsAreNewest'
  <2>1. ASSUME NEW d \in Caller \ {c} PROVE CallIsNewest(d)'
    <3>1. CallIsNewest(d) /\ call'[d] = call[d]
      BY <1>5 DEF LiveInv, CallsAreNewest
    <3>2. Presents(d) => call[d].token.grant \in Grant
      BY CallsHold
    <3>3. lost \subseteq lost'
      BY <1>7
    <3>4. QED BY <1>5, <1>6, <1>8, <1>9, <3>1, <3>2, <3>3 DEF CallIsNewest, Presents
  <2>2. CallIsNewest(c)'
    BY <1>5 DEF CallIsNewest, Refreshing
  <2>3. QED BY <2>1, <2>2 DEF CallsAreNewest
<1>18. LeaversTakeAll'
  BY <1>6, <1>8, <1>9 DEF LiveInv, LeaversTakeAll
<1>19. QED BY <1>13, <1>14, <1>15, <1>16, <1>17, <1>18 DEF LiveInv

LEMMA DeletesStep ==
    ASSUME IInv, LiveInv, NEW c \in Caller, Deletes(c)
    PROVE  LiveInv'
<1> USE DEF memoryVars, flowVars, worldVars
<1> DEFINE t == call[c].stamp.tenant
<1>1. /\ call \in [Caller -> Call] /\ keyring \in [Tenant -> Token] /\ Nobody \notin Caller
  BY DEF IInv, TypeOK, Types
<1>2. call[c].at = "deleting" /\ t \in Tenant
  BY DEF Deletes, IInv, Owned, CallOwns, Refreshing
<1>3. call[c].stamp.session = session /\ \A h \in Grant : Present(h) => server[h].tenant # t
  BY <1>2 DEF LiveInv, CallsAreNewest, CallIsNewest, Refreshing
<1>4. \A h \in Signer : signer[h].at # "saving"
  BY <1>2 DEF IInv, TypeOK, HalvesHold
<1>5. /\ \A d \in Caller \ {c} : call'[d] = call[d] /\ (lock' = d <=> lock = d)
      /\ call'[c].at = "idle"
  BY <1>1 DEF Deletes, NoCall, Unlock
<1>6. UNCHANGED <<tenant, session, tokens, signer, leaver, server, over, lost, dropped>>
  BY DEF Deletes
<1>7. \A u \in Tenant : /\ keyring'[u] \in {keyring[u], NoToken}
                        /\ u # t => keyring'[u] = keyring[u]
  BY <1>1 DEF Deletes
<1>8. \A h : Live(h)' <=> Live(h)
  BY <1>6 DEF Live
<1>9. \A h : /\ InReply(h)' <=> InReply(h)
             /\ Entering(h)' <=> Entering(h)
             /\ ~Superseded(h)
             /\ Present(h)' <=> Present(h)
  BY <1>4, <1>6, <1>8 DEF InReply, Entering, Superseded, Present
<1>10. \A h : Carried(h)' <=> Carried(h)
  <2>1. \A h : \A d \in Caller : Carries(d, h)' <=> Carries(d, h)
    BY <1>2, <1>5 DEF Carries
  <2>2. QED BY <2>1 DEF Carried
<1>11. GrantsAreReal'
  BY <1>6, <1>7 DEF LiveInv, GrantsAreReal
<1>12. LiveIsFiled'
  <2> SUFFICES ASSUME NEW h \in Grant, Live(h), ~InReply(h), ~Entering(h), ~Carried(h)
               PROVE  keyring'[server[h].tenant] = [grant |-> h, number |-> server[h].valid]
    BY <1>6, <1>8, <1>9, <1>10 DEF LiveIsFiled
  <2>1. server[h].tenant \in Tenant /\ server[h].tenant # t
    BY <1>3, <1>9 DEF Live, Present, LiveInv, GrantsAreReal
  <2>2. QED BY <1>7, <2>1 DEF LiveInv, LiveIsFiled
<1>13. EnteringIsNewest'
  <2>1. \A d \in Caller : Presents(d)' => Presents(d) /\ call'[d].token = call[d].token
    BY <1>5 DEF Presents
  <2>2. \A h \in Signer, u \in Tenant : keyring[u].grant # h => keyring'[u].grant # h
    BY <1>7 DEF NoToken
  <2>3. QED BY <1>6, <1>8, <1>10, <2>1, <2>2 DEF LiveInv, EnteringIsNewest
<1>14. MemoryIsNewest' /\ LeaversTakeAll'
  BY <1>6, <1>8, <1>9, <1>10 DEF LiveInv, MemoryIsNewest, LeaversTakeAll
<1>15. \A d \in Caller \ {c} : CallIsNewest(d)'
  BY <1>5, <1>6, <1>8, <1>9 DEF LiveInv, CallsAreNewest, CallIsNewest
<1>16. CallIsNewest(c)'
  BY <1>5 DEF CallIsNewest, Refreshing
<1>17. QED BY <1>11, <1>12, <1>13, <1>14, <1>15, <1>16 DEF LiveInv, CallsAreNewest

(* The sign-ins.                                                            *)
LEMMA LoginBeginsStep ==
    ASSUME IInv, LiveInv, NEW g \in Signer, LoginBegins(g)
    PROVE  LiveInv'
<1> USE DEF memoryVars, flowVars, worldVars
<1>1. /\ \A h \in Signer \ {g} : signer'[h] = signer[h]
      /\ signer[g].at = "idle" /\ signer'[g].at = "browsing"
  BY DEF LoginBegins, IInv, TypeOK, Types, SignIn
<1>2. UNCHANGED <<tenant, session, tokens, keyring, lock, call, leaver, server, over, lost, dropped>>
  BY DEF LoginBegins
<1>3. \A h : /\ Live(h)' <=> Live(h)
             /\ Carried(h)' <=> Carried(h)
  BY <1>2 DEF Live, Carried, Carries
<1>4. \A h : /\ InReply(h)' <=> InReply(h)
             /\ Entering(h)' <=> Entering(h)
             /\ Superseded(h)' <=> Superseded(h)
  BY <1>1, <1>2 DEF InReply, Entering, Superseded
<1>5. \A h : Present(h)' <=> Present(h)
  BY <1>3, <1>4 DEF Present
<1>6. GrantsAreReal' /\ LiveIsFiled' /\ MemoryIsNewest' /\ LeaversTakeAll'
  BY <1>2, <1>3, <1>4, <1>5 DEF LiveInv, GrantsAreReal, LiveIsFiled, MemoryIsNewest, LeaversTakeAll
<1>7. EnteringIsNewest'
  BY <1>1, <1>2, <1>3 DEF LiveInv, EnteringIsNewest, Presents
<1>8. CallsAreNewest'
  BY <1>2, <1>3, <1>5 DEF LiveInv, CallsAreNewest, CallIsNewest
<1>9. QED BY <1>6, <1>7, <1>8 DEF LiveInv

LEMMA IssuesStep ==
    ASSUME IInv, LiveInv, NEW g \in Signer, Issues(g)
    PROVE  LiveInv'
<1> USE DEF memoryVars, flowVars, worldVars
<1>1. /\ \A h \in Signer \ {g} : signer'[h] = signer[h]
      /\ signer[g].at = "browsing" /\ signer'[g].at = "issued"
      /\ \A h \in Grant \ {g} : server'[h] = server[h]
      /\ server'[g].tenant \in Tenant /\ server'[g].valid = signer'[g].number
  <2>1. PICK number \in {0, 1} :
            /\ server' = [server EXCEPT ![g] = [tenant |-> signer[g].stamp.tenant,
                                                valid |-> number, issued |-> 1]]
            /\ signer' = [signer EXCEPT ![g] = [@ EXCEPT !.at = "issued", !.number = number]]
    BY DEF Issues
  <2>2. g \in Grant /\ server \in [Grant -> GrantRecord] /\ signer \in [Signer -> SignIn]
    BY DEF IInv, TypeOK, Types, Grant
  <2>3. signer[g].stamp.tenant \in Tenant /\ signer[g].at = "browsing"
    BY DEF Issues, IInv, Owned, SignerOwns
  <2>4. signer'[g].at = "issued" /\ signer'[g].number = number
    BY <2>1, <2>2 DEF SignIn
  <2>5. server'[g].tenant = signer[g].stamp.tenant /\ server'[g].valid = number
    BY <2>1, <2>2
  <2>6. QED BY <2>1, <2>2, <2>3, <2>4, <2>5
<1>2. UNCHANGED <<tenant, session, tokens, keyring, lock, call, leaver, over, lost, dropped>>
  BY DEF Issues
<1>3. /\ tokens.grant # g
      /\ \A u \in Tenant : keyring[u].grant # g
      /\ \A d \in Caller : Presents(d) => call[d].token.grant # g
  BY <1>1 DEF LiveInv, EnteringIsNewest
<1>4. /\ \A h : Carried(h)' <=> Carried(h)
      /\ \A h \in Grant \ {g} : /\ Live(h)' <=> Live(h)
                                /\ InReply(h)' <=> InReply(h)
                                /\ Entering(h)' <=> Entering(h)
      /\ InReply(g)'
  BY <1>1, <1>2 DEF Live, Carried, Carries, InReply, Entering
<1>5. \A h \in Grant : Present(h)' => h # g /\ Present(h)
  BY <1>1, <1>2, <1>4 DEF Present, Superseded
<1>6. GrantsAreReal' /\ LiveIsFiled' /\ LeaversTakeAll'
  BY <1>1, <1>2, <1>4 DEF LiveInv, GrantsAreReal, LiveIsFiled, LeaversTakeAll
<1>7. EnteringIsNewest'
  <2>1. Signer \subseteq Grant
    BY DEF Grant
  <2>2. \A d \in Caller : (Presents(d)' <=> Presents(d)) /\ call'[d] = call[d]
    BY <1>2 DEF Presents
  <2>3. QED BY <1>1, <1>2, <1>3, <1>4, <2>1, <2>2 DEF LiveInv, EnteringIsNewest
<1>8. MemoryIsNewest'
  <2>1. tokens.refresh # 0 => tokens.grant \in Grant \ {g}
    BY <1>3 DEF IInv, Owned, MemoryOwns, Owns, NoTokens
  <2>2. QED BY <1>1, <1>2, <1>4, <1>5, <2>1 DEF LiveInv, MemoryIsNewest
<1>9. CallsAreNewest'
  <2> SUFFICES ASSUME NEW d \in Caller PROVE CallIsNewest(d)'
    BY DEF CallsAreNewest
  <2>1. CallIsNewest(d) /\ call'[d] = call[d]
    BY <1>2 DEF LiveInv, CallsAreNewest
  <2>2. Presents(d) => call[d].token.grant \in Grant \ {g}
    BY <1>3, CallsHold
  <2>3. QED BY <1>1, <1>2, <1>4, <1>5, <2>1, <2>2 DEF CallIsNewest, Presents
<1>10. QED BY <1>6, <1>7, <1>8, <1>9 DEF LiveInv

LEMMA LoginFailsStep ==
    ASSUME IInv, LiveInv, NEW g \in Signer, LoginFails(g)
    PROVE  LiveInv'
<1> USE DEF memoryVars, flowVars, worldVars
<1>1. /\ \A h \in Signer \ {g} : signer'[h] = signer[h]
      /\ signer[g].at \in {"browsing", "issued"} /\ signer'[g].at = "done"
  BY DEF LoginFails, NoSigner, IInv, TypeOK, Types
<1>2. UNCHANGED <<tenant, session, tokens, keyring, lock, call, leaver, server, over, dropped>>
  BY DEF LoginFails
<1>3. lost \subseteq lost' /\ (signer[g].at = "issued" => g \in lost')
  BY DEF LoginFails
<1>4. signer[g].at = "browsing" => server[g].valid = 0
  <2>1. g \in Grant
    BY DEF Grant
  <2>2. signer[g].at = "browsing" => server[g].tenant = Anyone
    BY DEF IInv, Owned, SignerOwns
  <2>3. QED BY <2>1, <2>2 DEF LiveInv, GrantsAreReal
<1>5. \A h : /\ Live(h)' => Live(h) /\ h # g
             /\ Carried(h)' <=> Carried(h)
  BY <1>1, <1>2, <1>3, <1>4 DEF Live, Carried, Carries
<1>6. \A h : h # g => /\ InReply(h)' <=> InReply(h)
                      /\ Entering(h)' <=> Entering(h)
  BY <1>1 DEF InReply, Entering
<1>7. \A h : Superseded(h)' <=> Superseded(h)
  BY <1>1, <1>2 DEF Superseded
<1>8. \A h : Present(h)' => Present(h)
  BY <1>5, <1>6, <1>7 DEF Present
<1>9. GrantsAreReal' /\ LiveIsFiled' /\ MemoryIsNewest' /\ LeaversTakeAll'
  <2>1. GrantsAreReal' /\ LiveIsFiled' /\ LeaversTakeAll'
    BY <1>2, <1>5, <1>6 DEF LiveInv, GrantsAreReal, LiveIsFiled, LeaversTakeAll
  <2>2. MemoryIsNewest'
    BY <1>2, <1>5, <1>8 DEF LiveInv, MemoryIsNewest
  <2>3. QED BY <2>1, <2>2
<1>10. EnteringIsNewest'
  BY <1>1, <1>2, <1>5 DEF LiveInv, EnteringIsNewest, Presents
<1>11. CallsAreNewest'
  BY <1>2, <1>3, <1>5, <1>8 DEF LiveInv, CallsAreNewest, CallIsNewest
<1>12. QED BY <1>9, <1>10, <1>11 DEF LiveInv

LEMMA LoginStoresStep ==
    ASSUME IInv, LiveInv, NEW g \in Signer, LoginStores(g)
    PROVE  LiveInv'
<1> USE DEF memoryVars, flowVars, worldVars
<1>1. /\ \A h \in Signer \ {g} : signer'[h] = signer[h]
      /\ signer[g].at = "issued" /\ signer'[g].at = "saving"
      /\ signer'[g].stamp.tenant = tenant /\ signer'[g].number = signer[g].number
  BY DEF LoginStores, Stamp, IInv, TypeOK, Types, SignIn
<1>2. UNCHANGED <<tenant, keyring, lock, call, leaver, server, over, lost, dropped>>
  BY DEF LoginStores
<1>3. tokens'.grant = g /\ tokens'.refresh = signer[g].number /\ session' = session + 1
  BY DEF LoginStores
<1>4. /\ \A d \in Caller : call[d].at \notin {"saving", "deleting"}
      /\ \A o \in Leaver : leaver[o].at # "deleting"
  BY DEF IInv, TypeOK, HalvesHold, LoginStores
<1>5. \A h : /\ Live(h)' <=> Live(h)
             /\ Carried(h)' <=> Carried(h)
  BY <1>2 DEF Live, Carried, Carries
<1>6. \A h : h # g => /\ InReply(h)' <=> InReply(h)
                      /\ Entering(h)' <=> Entering(h)
                      /\ server[h].tenant = tenant => Superseded(h)'
  BY <1>1, <1>2 DEF InReply, Entering, Superseded
<1>7. Entering(g)'
  BY <1>1 DEF Entering
<1>8. GrantsAreReal' /\ LiveIsFiled'
  BY <1>2, <1>5, <1>6, <1>7 DEF LiveInv, GrantsAreReal, LiveIsFiled
<1>9. EnteringIsNewest'
  BY <1>1, <1>2, <1>3, <1>5 DEF LiveInv, EnteringIsNewest, Presents
<1>10. MemoryIsNewest'
  <2>1. \A h \in Grant : Present(h)' /\ server[h].tenant = tenant => h = g
    BY <1>6 DEF Present
  <2>2. Live(g) => signer[g].number = server[g].valid
    BY <1>1 DEF LiveInv, EnteringIsNewest
  <2>3. QED BY <1>2, <1>3, <1>5, <2>1, <2>2 DEF MemoryIsNewest
<1>11. CallsAreNewest'
  <2>1. \A d \in Caller : call[d].stamp.session \in Nat /\ session \in Nat
    BY DEF IInv, TypeOK, Types, Call, GrantStamp
  <2>2. QED BY <1>2, <1>3, <1>4, <1>5, <2>1 DEF LiveInv, CallsAreNewest, CallIsNewest, Refreshing
<1>12. LeaversTakeAll'
  BY <1>2, <1>4 DEF LeaversTakeAll
<1>13. QED BY <1>8, <1>9, <1>10, <1>11, <1>12 DEF LiveInv

LEMMA LoginSavesStep ==
    ASSUME IInv, EndInv, LiveInv, NEW g \in Signer, LoginSaves(g)
    PROVE  LiveInv'
<1> USE DEF memoryVars, flowVars, worldVars
<1> DEFINE t == signer[g].stamp.tenant
           n == signer[g].number
<1>1. /\ signer \in [Signer -> SignIn] /\ keyring \in [Tenant -> Token]
      /\ Signer \subseteq Grant /\ g \in Grant
  BY DEF IInv, TypeOK, Types, Grant
<1>2. signer[g].at = "saving" /\ t \in Tenant /\ server[g].tenant = t
  BY DEF LoginSaves, IInv, Owned, SignerOwns
<1>3. /\ \A d \in Caller : call[d].at \notin {"saving", "deleting"}
      /\ \A o \in Leaver : leaver[o].at # "deleting"
  BY <1>2 DEF IInv, TypeOK, HalvesHold
<1>4. \A h \in Signer \ {g} : signer[h].at \in {"idle", "done"}
  BY <1>1, <1>2 DEF EndInv, SignersEnd, SignIn
<1>5. /\ \A h \in Signer \ {g} : signer'[h] = signer[h]
      /\ signer'[g].at = "done"
  BY <1>1 DEF LoginSaves, NoSigner
<1>6. UNCHANGED <<tenant, session, tokens, lock, call, leaver, server, dropped>>
  BY DEF LoginSaves
<1>7. over \subseteq over' /\ lost \subseteq lost'
  BY DEF LoginSaves, Loses
<1>8. \A h \in Grant : server[h].tenant = t => h \in Ended(t)
  BY DEF Ended
<1>9. \/ /\ n # 0 /\ keyring' = [keyring EXCEPT ![t] = [grant |-> g, number |-> n]]
         /\ Ended(t) \ {g} \subseteq over'
      \/ /\ keyring' = [keyring EXCEPT ![t] = NoToken]
         /\ Ended(t) \ {g} \subseteq over'
         /\ n # 0 => g \in over' \union lost'
      \/ /\ keyring' = keyring
         /\ Ended(t) \subseteq over' \union lost'
  BY DEF LoginSaves, Loses
<1>10. /\ \A h : Live(h)' => Live(h)
       /\ \A h : Carried(h)' <=> Carried(h)
       /\ \A h \in Grant : Live(h)' /\ server[h].tenant = t => h = g
  BY <1>6, <1>7, <1>8, <1>9 DEF Live, Carried, Carries
<1>11. \A h : ~InReply(h) /\ (Entering(h) => h = g) /\ ~Entering(h)'
  BY <1>2, <1>4, <1>5 DEF InReply, Entering
<1>12. \A h \in Grant : Present(h)' => Present(h)
  <2> SUFFICES ASSUME NEW h \in Grant, Present(h)' PROVE Present(h)
    OBVIOUS
  <2>1. Live(h) /\ (server[h].tenant = t => h = g)
    BY <1>10 DEF Present
  <2>2. ~Superseded(h)
    BY <1>2, <1>4, <2>1 DEF Superseded
  <2>3. QED BY <1>11, <2>1, <2>2 DEF Present
<1>13. Live(g) /\ ~Carried(g) => n = server[g].valid /\ n # 0
  BY <1>2 DEF LiveInv, EnteringIsNewest, Live
<1>14. GrantsAreReal'
  <2>1. \A u \in Tenant : keyring'[u] # NoToken => keyring'[u].number # 0
    BY <1>1, <1>2, <1>9 DEF LiveInv, GrantsAreReal
  <2>2. QED BY <1>6, <2>1 DEF LiveInv, GrantsAreReal
<1>15. LiveIsFiled'
  <2> SUFFICES ASSUME NEW h \in Grant, Live(h)', ~Carried(h)'
               PROVE  keyring'[server[h].tenant] = [grant |-> h, number |-> server[h].valid]
    BY <1>6 DEF LiveIsFiled
  <2>1. Live(h) /\ ~Carried(h) /\ server[h].tenant \in Tenant
    BY <1>10 DEF Live, LiveInv, GrantsAreReal
  <2>2. CASE server[h].tenant # t
    <3>1. keyring'[server[h].tenant] = keyring[server[h].tenant]
      BY <1>1, <1>2, <1>9, <2>1, <2>2
    <3>2. QED BY <1>2, <1>11, <2>1, <2>2, <3>1 DEF LiveInv, LiveIsFiled
  <2>3. CASE server[h].tenant = t
    <3>1. h = g /\ h \notin over' \union lost'
      BY <1>10, <2>3 DEF Live
    <3>2. n = server[h].valid /\ n # 0 /\ h \in Ended(t)
      BY <1>8, <1>13, <2>1, <2>3, <3>1
    <3>3. keyring' = [keyring EXCEPT ![t] = [grant |-> g, number |-> n]]
      BY <1>9, <3>1, <3>2
    <3>4. QED BY <1>1, <1>2, <2>3, <3>1, <3>2, <3>3
  <2>4. QED BY <2>2, <2>3
<1>16. EnteringIsNewest'
  <2>1. \A h \in Signer \ {g}, u \in Tenant : keyring[u].grant # h => keyring'[u].grant # h
    BY <1>1, <1>2, <1>9 DEF NoToken
  <2>2. QED BY <1>4, <1>5, <1>6, <2>1 DEF LiveInv, EnteringIsNewest, Presents
<1>17. MemoryIsNewest'
  BY <1>6, <1>10, <1>12 DEF LiveInv, MemoryIsNewest
<1>18. CallsAreNewest'
  BY <1>6, <1>7, <1>10, <1>12 DEF LiveInv, CallsAreNewest, CallIsNewest
<1>19. LeaversTakeAll'
  BY <1>3, <1>6 DEF LeaversTakeAll
<1>20. QED BY <1>14, <1>15, <1>16, <1>17, <1>18, <1>19 DEF LiveInv

(* The sign-outs, and the change of tenant.                                 *)
LEMMA LogoutForgetsStep ==
    ASSUME IInv, LiveInv, NEW o \in Leaver, LogoutForgets(o)
    PROVE  LiveInv'
<1> USE DEF memoryVars, flowVars, worldVars
<1>1. /\ \A p \in Leaver \ {o} : leaver'[p] = leaver[p]
      /\ leaver'[o].tenant = tenant /\ leaver'[o].ends = Ended(tenant)
  BY DEF LogoutForgets, IInv, TypeOK, Types
<1>2. UNCHANGED <<tenant, keyring, lock, call, signer, server, over, lost, dropped>>
  BY DEF LogoutForgets
<1>3. tokens' = NoTokens /\ session' = session + 1
  BY DEF LogoutForgets
<1>4. /\ \A d \in Caller : call[d].at \notin {"saving", "deleting"}
      /\ \A p \in Leaver : leaver[p].at # "deleting"
  BY DEF IInv, TypeOK, HalvesHold, LogoutForgets
<1>5. \A h : /\ Live(h)' <=> Live(h)
             /\ Carried(h)' <=> Carried(h)
             /\ InReply(h)' <=> InReply(h)
             /\ Entering(h)' <=> Entering(h)
  BY <1>2 DEF Live, Carried, Carries, InReply, Entering
<1>6. GrantsAreReal' /\ LiveIsFiled'
  BY <1>2, <1>5 DEF LiveInv, GrantsAreReal, LiveIsFiled
<1>7. EnteringIsNewest'
  BY <1>2, <1>3, <1>5 DEF LiveInv, EnteringIsNewest, Presents, NoTokens
<1>8. MemoryIsNewest'
  BY <1>3 DEF MemoryIsNewest, NoTokens
<1>9. CallsAreNewest'
  <2>1. \A d \in Caller : call[d].stamp.session \in Nat /\ session \in Nat
    BY DEF IInv, TypeOK, Types, Call, GrantStamp
  <2>2. QED BY <1>2, <1>3, <1>4, <1>5, <2>1 DEF LiveInv, CallsAreNewest, CallIsNewest, Refreshing
<1>10. LeaversTakeAll'
  <2>1. \A h \in Grant : server[h].tenant = tenant => h \in Ended(tenant)
    BY DEF Ended
  <2>2. QED BY <1>1, <1>2, <1>4, <2>1 DEF LeaversTakeAll
<1>11. QED BY <1>6, <1>7, <1>8, <1>9, <1>10 DEF LiveInv

LEMMA LogoutDeletesStep ==
    ASSUME IInv, EndInv, LiveInv, NEW o \in Leaver, LogoutDeletes(o)
    PROVE  LiveInv'
<1> USE DEF memoryVars, flowVars, worldVars
<1> DEFINE t == leaver[o].tenant
<1>1. keyring \in [Tenant -> Token] /\ t \in Tenant /\ leaver[o].at = "deleting"
  BY DEF LogoutDeletes, IInv, TypeOK, Types, EndInv, LeaversEnd
<1>2. /\ \A p \in Leaver \ {o} : leaver[p].at # "deleting" /\ leaver'[p] = leaver[p]
      /\ leaver'[o].at = "done"
      /\ \A h \in Signer : signer[h].at # "saving"
  BY DEF LogoutDeletes, NoLeaver, IInv, TypeOK, Types, HalvesHold
<1>3. UNCHANGED <<tenant, session, tokens, lock, call, signer, server, dropped>>
  BY DEF LogoutDeletes
<1>4. over \subseteq over' /\ lost \subseteq lost' /\ leaver[o].ends \subseteq over' \union lost'
  BY DEF LogoutDeletes, Loses
<1>5. \A u \in Tenant : /\ keyring'[u] \in {keyring[u], NoToken}
                        /\ u # t => keyring'[u] = keyring[u]
  BY <1>1 DEF LogoutDeletes
<1>6. \A h : /\ Live(h)' => Live(h) /\ h \notin leaver[o].ends
             /\ Carried(h)' <=> Carried(h)
             /\ InReply(h)' <=> InReply(h)
             /\ Entering(h)' <=> Entering(h)
             /\ Superseded(h)' <=> Superseded(h)
  BY <1>3, <1>4 DEF Live, Carried, Carries, InReply, Entering, Superseded
<1>7. \A h : Present(h)' => Present(h)
  BY <1>6 DEF Present
<1>8. GrantsAreReal'
  BY <1>3, <1>5 DEF LiveInv, GrantsAreReal
<1>9. LiveIsFiled'
  <2> SUFFICES ASSUME NEW h \in Grant, Live(h)', ~InReply(h), ~Entering(h), ~Carried(h)
               PROVE  keyring'[server[h].tenant] = [grant |-> h, number |-> server[h].valid]
    BY <1>3, <1>6 DEF LiveIsFiled
  <2>1. Live(h) /\ server[h].tenant \in Tenant
    BY <1>6 DEF Live, LiveInv, GrantsAreReal
  <2>2. server[h].tenant # t
    BY <1>1, <1>6, <2>1 DEF LiveInv, LeaversTakeAll
  <2>3. QED BY <1>5, <2>1, <2>2 DEF LiveInv, LiveIsFiled
<1>10. EnteringIsNewest'
  <2>1. \A h \in Signer, u \in Tenant : keyring[u].grant # h => keyring'[u].grant # h
    BY <1>5 DEF NoToken
  <2>2. QED BY <1>3, <1>6, <2>1 DEF LiveInv, EnteringIsNewest, Presents
<1>11. MemoryIsNewest'
  BY <1>3, <1>6, <1>7 DEF LiveInv, MemoryIsNewest
<1>12. CallsAreNewest'
  BY <1>3, <1>4, <1>6, <1>7 DEF LiveInv, CallsAreNewest, CallIsNewest
<1>13. LeaversTakeAll'
  BY <1>2 DEF LeaversTakeAll
<1>14. QED BY <1>8, <1>9, <1>10, <1>11, <1>12, <1>13 DEF LiveInv

LEMMA WorldSteps ==
    ASSUME IInv, LiveInv, Expires \/ SwitchesTenant
    PROVE  LiveInv'
<1> USE DEF memoryVars, flowVars, worldVars
<1>1. UNCHANGED <<session, keyring, lock, call, signer, leaver, server, over, lost, dropped>>
  BY DEF Expires, SwitchesTenant
<1>2. tokens' = NoTokens \/ UNCHANGED <<tenant, tokens>>
  BY DEF Expires, SwitchesTenant
<1>3. \A h : /\ Live(h)' <=> Live(h)
             /\ Carried(h)' <=> Carried(h)
             /\ InReply(h)' <=> InReply(h)
             /\ Entering(h)' <=> Entering(h)
             /\ Superseded(h)' <=> Superseded(h)
             /\ Present(h)' <=> Present(h)
  BY <1>1 DEF Live, Carried, Carries, InReply, Entering, Superseded, Present
<1>4. NoTokens.grant = NoGrant /\ NoTokens.refresh = 0
  BY DEF NoTokens
<1>5. GrantsAreReal' /\ LiveIsFiled' /\ LeaversTakeAll'
  BY <1>1, <1>3 DEF LiveInv, GrantsAreReal, LiveIsFiled, LeaversTakeAll
<1>6. EnteringIsNewest'
  <2>1. \A h \in Signer : tokens.grant # h => tokens'.grant # h
    BY <1>2, <1>4
  <2>2. QED BY <1>1, <1>3, <2>1 DEF LiveInv, EnteringIsNewest, Presents
<1>7. MemoryIsNewest'
  BY <1>1, <1>2, <1>3, <1>4 DEF LiveInv, MemoryIsNewest
<1>8. CallsAreNewest'
  BY <1>1, <1>2, <1>3, <1>4 DEF LiveInv, CallsAreNewest, CallIsNewest
<1>9. QED BY <1>5, <1>6, <1>7, <1>8 DEF LiveInv

LEMMA LiveKept == ASSUME ~ReadsAcrossSessions, IInv, EndInv, LiveInv, Next PROVE LiveInv'
<1>1. ASSUME NEW c \in Caller, CallerStep(c) PROVE LiveInv'
  BY <1>1, QuietSteps, LosingSteps, PresentingSteps, GrantsStep, StoresStep, DiscardsStep,
     SavesStep, DeletesStep DEF CallerStep
<1>2. ASSUME NEW g \in Signer, SignerStep(g) PROVE LiveInv'
  BY <1>2, LoginBeginsStep, IssuesStep, LoginFailsStep, LoginStoresStep, LoginSavesStep
     DEF SignerStep
<1>3. QED BY <1>1, <1>2, LogoutForgetsStep, LogoutDeletesStep, WorldSteps DEF Next

LEMMA LiveStarts == Init => LiveInv
<1> SUFFICES ASSUME Init PROVE LiveInv
  OBVIOUS
<1>1. GrantsAreReal
  BY DEF Init, GrantsAreReal, NotIssued, NoToken, Grant
<1>2. LiveIsFiled
  BY DEF Init, LiveIsFiled, Live, NotIssued, Grant
<1>3. EnteringIsNewest
  BY DEF Init, EnteringIsNewest, Live, NotIssued, NoSigner, NoTokens, NoToken, Presents, NoCall, Grant
<1>4. MemoryIsNewest /\ CallsAreNewest /\ LeaversTakeAll
  BY DEF Init, MemoryIsNewest, CallsAreNewest, CallIsNewest, LeaversTakeAll, NoTokens, NoCall,
     NoLeaver, Refreshing
<1>5. QED BY <1>1, <1>2, <1>3, <1>4 DEF LiveInv

(* Where the newest token of every live grant is, in every behaviour.       *)
THEOREM NewestIsKnown == ASSUME ~ReadsAcrossSessions PROVE Spec => []LiveInv
<1>1. IInv /\ EndInv /\ LiveInv /\ [Next]_vars => LiveInv'
  <2> SUFFICES ASSUME IInv, EndInv, LiveInv, [Next]_vars PROVE LiveInv'
    OBVIOUS
  <2>1. CASE Next
    BY <2>1, LiveKept
  <2>2. CASE UNCHANGED vars
    <3>1. \A d \in Caller : call'[d] = call[d]
      BY <2>2 DEF vars
    <3>2. QED BY <2>2, <3>1, QuietKeeps DEF vars, memoryVars, flowVars, worldVars
  <2>3. QED BY <2>1, <2>2
<1>2. QED BY Inductive, EndInductive, LiveStarts, <1>1, PTL DEF Spec

(* refresh, store_tokens and login_pkce: of a sign-in that is alive at the  *)
(* server the newest refresh token is in memory, saved, or on its way,      *)
(* unless a fault, a cancellation or a moved session dropped it.            *)
THEOREM LiveGrantsAreKept == ASSUME ~ReadsAcrossSessions PROVE Spec => []LiveGrantIsKept
<1>1. IInv /\ LiveInv => LiveGrantIsKept
  <2> SUFFICES ASSUME IInv, LiveInv, NEW g \in Grant, Live(g) PROVE Kept(g)
    BY DEF LiveGrantIsKept, Live
  <2>1. server[g].tenant \in Tenant
    BY DEF LiveInv, GrantsAreReal, Live
  <2>2. CASE InReply(g) \/ Entering(g)
    BY <2>2 DEF InReply, Entering, Kept
  <2>3. CASE Carried(g)
    <3>1. PICK c \in Caller : Carries(c, g)
      BY <2>3 DEF Carried
    <3>2. call[c].refresh = server[g].valid
      BY <3>1 DEF Carries, LiveInv, CallsAreNewest, CallIsNewest
    <3>3. QED BY <3>1, <3>2 DEF Carries, Kept
  <2>4. CASE ~InReply(g) /\ ~Entering(g) /\ ~Carried(g)
    BY <2>1, <2>4 DEF LiveInv, LiveIsFiled, Kept
  <2>5. QED BY <2>2, <2>3, <2>4
<1>2. QED BY Inductive, NewestIsKnown, <1>1, PTL

(* refresh_lock and the checks of the stamp: no refresh presents a token    *)
(* the server has already replaced ("every loser presents an already-       *)
(* consumed token"), as long as none was lost.                              *)
THEOREM NewestIsPresented == ASSUME ~ReadsAcrossSessions PROVE Spec => []PresentsTheNewest
<1>1. LiveInv => PresentsTheNewest
  BY DEF LiveInv, CallsAreNewest, CallIsNewest, PresentsTheNewest, Live
<1>2. QED BY NewestIsKnown, <1>1, PTL
=============================================================================
