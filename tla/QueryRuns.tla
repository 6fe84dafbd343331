------------------------------ MODULE QueryRuns ------------------------------
(***************************************************************************)
(* A query from the Run button to the table: the frontend's queue and      *)
(* stamps (web-rs/src/app/state/query.rs, util/query.rs), query_patches,   *)
(* the result cache every page, export and report reads (state.rs), and    *)
(* the snapshot the next run is compared with (changes.rs); with the       *)
(* commands that end a session and empty the cache under it.               *)
(*                                                                         *)
(* A result is the generation of its query.  Its rows are the set of       *)
(* sources they came from: the tenant and the operator of each fetch.      *)
(*                                                                         *)
(* begin_query reads generation, tenant and epoch one after another, here  *)
(* at once: the bumps come after what they end, so a token taken across    *)
(* one is refused or is the later token.  One query scope is modelled; the *)
(* first-seen ledger, saved beside the snapshot, is left out.              *)
(***************************************************************************)
EXTENDS Integers, FiniteSets

CONSTANTS
    Run,           \* query_patches calls that can be in flight together
    Reader,        \* readers that build a sort order or a grouping
    Tenant,
    Saver,         \* save_settings calls that switch the tenant
    Signer,        \* sign_in, reauthorize and sign_out calls
    FirstTenant,   \* the tenant, and who is signed in, at the start
    FirstOperator,
    Nobody,        \* no one is signed in
    Overlaps,      \* does the frontend start a run while one is in flight?  Its guard
                   \* never does; the result cache is written for one that does
    MaxRuns        \* bound: runs started

ASSUME FirstAssumption == FirstTenant \in Tenant
ASSUME OperatorAssumption ==
    FirstOperator \notin Signer /\ Nobody \notin Signer \union {FirstOperator}
ASSUME OverlapAssumption == Overlaps \in BOOLEAN
ASSUME BoundAssumption == MaxRuns \in Nat

VARIABLES
    \* the backend
    tenant,      \* the tenant of the settings
    auth,        \* AuthState: its tenant, and the operator whose grant it holds
    epoch,       \* result_epoch
    generation,  \* query_generation
    slot,        \* last_result: tenant, result, rows and the memo's result
    file,        \* changes.rs: the snapshot on disk per tenant, 0 for none
    memory,      \* LAST_SAVED
    call,        \* per run: where it is, its stamp, token, rows, baseline, reply
    reader,      \* per reader: the result it builds an order for, 0 when idle
    \* the commands that end a session
    saving, aim, signing,
    \* the frontend
    seq,         \* query_seq
    queued,      \* a manual run waits for the one in flight
    painted,     \* the result on screen, 0 for none
    \* what the properties remember
    newest,      \* per tenant, the last stored result whose snapshot was not lost
    overlapped,  \* a run was started while one was in flight
    stranded     \* a command emptied the cache and failed, and no later run has filled it

diskVars == <<file, memory, newest>>
flowVars == <<saving, aim, signing>>
screenVars == <<seq, queued, painted, overlapped, stranded>>
vars == <<tenant, auth, epoch, generation, slot, diskVars, call, reader, flowVars, screenVars>>

NoResult == [tenant |-> FirstTenant, gen |-> 0, rows |-> {}, memo |-> 0, mid |-> FALSE]
NoSnapshot == [tenant |-> FirstTenant, gen |-> 0]
NoCall == [at |-> "idle", seq |-> 0, gen |-> 0, tenant |-> FirstTenant, epoch |-> 0,
           mid |-> FALSE, rows |-> {}, previous |-> 0, shown |-> FALSE]

Init ==
    /\ tenant = FirstTenant
    /\ auth = [tenant |-> FirstTenant, operator |-> FirstOperator]
    /\ epoch = 0
    /\ generation = 0
    /\ slot = NoResult
    /\ file = [t \in Tenant |-> 0]
    /\ memory = NoSnapshot
    /\ call = [r \in Run |-> NoCall]
    /\ reader = [v \in Reader |-> 0]
    /\ saving = [s \in Saver |-> "idle"]
    /\ aim = [s \in Saver |-> FirstTenant]
    /\ signing = [g \in Signer |-> "idle"]
    /\ seq = 0
    /\ queued = FALSE
    /\ painted = 0
    /\ newest = [t \in Tenant |-> 0]
    /\ overlapped = FALSE
    /\ stranded = FALSE

-----------------------------------------------------------------------------
(* run_query_inner *)

InFlight(r) == call[r].at # "idle"
MayStart == generation + Cardinality({r \in Run : call[r].at = "invoked"}) < MaxRuns
Started == [NoCall EXCEPT !.at = "invoked", !.seq = seq + 1]

(* Run, or a refresh tick: run_decision starts one only when none is.       *)
Starts(r) ==
    /\ ~InFlight(r)
    /\ Overlaps \/ \A o \in Run : ~InFlight(o)
    /\ MayStart
    /\ seq' = seq + 1
    /\ call' = [call EXCEPT ![r] = Started]
    /\ overlapped' = (overlapped \/ \E o \in Run : InFlight(o))
    /\ UNCHANGED <<tenant, auth, epoch, generation, slot, diskVars, reader, flowVars,
                   queued, painted, stranded>>

(* A manual run that finds one in flight is queued, not dropped.            *)
Queues ==
    /\ \E r \in Run : InFlight(r)
    /\ queued' = TRUE
    /\ UNCHANGED <<tenant, auth, epoch, generation, slot, diskVars, call, reader, flowVars,
                   seq, painted, overlapped, stranded>>

-----------------------------------------------------------------------------
(* query_patches *)

(* A sign-in, re-authorization or sign-out has ended the session and has    *)
(* yet to drop the grant.                                                   *)
MidSign == \E g \in Signer : signing[g] \in {"bumped", "taken"}

(* begin_query, before any fetch.                                           *)
Begins(r) ==
    /\ call[r].at = "invoked"
    /\ generation' = generation + 1
    /\ call' = [call EXCEPT ![r] = [@ EXCEPT !.at = "fetching", !.gen = generation + 1,
                                             !.tenant = tenant, !.epoch = epoch, !.mid = MidSign]]
    /\ UNCHANGED <<tenant, auth, epoch, slot, diskVars, reader, flowVars, screenVars>>

(* One of the run's fetches, under the grant AuthState holds by now.        *)
Fetches(r) ==
    /\ call[r].at = "fetching"
    /\ auth.operator # Nobody
    /\ call' = [call EXCEPT ![r].rows = @ \union {auth}]
    /\ UNCHANGED <<tenant, auth, epoch, generation, slot, diskVars, reader, flowVars, screenVars>>

Answers(r, ok) ==
    call' = [call EXCEPT ![r] = [NoCall EXCEPT !.at = "answered", !.seq = call[r].seq,
                                               !.gen = call[r].gen, !.shown = ok]]

FetchFails(r) ==
    /\ call[r].at = "fetching"
    /\ Answers(r, FALSE)
    /\ UNCHANGED <<tenant, auth, epoch, generation, slot, diskVars, reader, flowVars, screenVars>>

(* changes::load: the snapshot saved last if it is this tenant's, else its  *)
(* file.                                                                    *)
Baseline(t) == IF memory.gen # 0 /\ memory.tenant = t THEN memory.gen ELSE file[t]

(* run_query joins the rows, diff_against_previous_run compares them.       *)
Assembles(r) ==
    /\ call[r].at = "fetching"
    /\ call[r].rows # {}
    /\ call' = [call EXCEPT ![r] = [@ EXCEPT !.at = "assembled",
                                             !.previous = Baseline(call[r].tenant)]]
    /\ UNCHANGED <<tenant, auth, epoch, generation, slot, diskVars, reader, flowVars, screenVars>>

(* store_last_result_if_current compares the tenants before it takes the    *)
(* lock: TenantChanged is an error.                                         *)
Checks(r) ==
    /\ call[r].at = "assembled"
    /\ IF call[r].tenant = tenant
       THEN call' = [call EXCEPT ![r] = [@ EXCEPT !.at = "checked", !.previous = 0]]
       ELSE Answers(r, FALSE)
    /\ UNCHANGED <<tenant, auth, epoch, generation, slot, diskVars, reader, flowVars, screenVars>>

(* A newer query has begun.  The summary is returned all the same.          *)
Superseded(r) ==
    /\ call[r].at = "checked"
    /\ generation # call[r].gen
    /\ Answers(r, TRUE)
    /\ UNCHANGED <<tenant, auth, epoch, generation, slot, diskVars, reader, flowVars, screenVars>>

(* The session was cleared: an error.                                       *)
SessionCleared(r) ==
    /\ call[r].at = "checked"
    /\ generation = call[r].gen
    /\ epoch # call[r].epoch
    /\ Answers(r, FALSE)
    /\ UNCHANGED <<tenant, auth, epoch, generation, slot, diskVars, reader, flowVars, screenVars>>

Cached(r) == [tenant |-> call[r].tenant, gen |-> call[r].gen, rows |-> call[r].rows,
              memo |-> 0, mid |-> call[r].mid]

(* What the call still needs of its query once it is cached.                *)
Kept(r) == [NoCall EXCEPT !.at = "stored", !.seq = call[r].seq, !.gen = call[r].gen,
                          !.tenant = call[r].tenant]

(* Mutant of Stores: the session's epoch is not compared.                   *)
StoresAnySession(r) ==
    /\ call[r].at = "checked"
    /\ generation = call[r].gen
    /\ slot' = Cached(r)
    /\ newest' = [newest EXCEPT ![call[r].tenant] = call[r].gen]
    /\ call' = [call EXCEPT ![r] = Kept(r)]
    /\ UNCHANGED <<tenant, auth, epoch, generation, file, memory, reader, flowVars, screenVars>>

(* Mutant of Stores: the last to finish wins.                               *)
StoresLast(r) ==
    /\ call[r].at = "checked"
    /\ epoch = call[r].epoch
    /\ slot' = Cached(r)
    /\ newest' = [newest EXCEPT ![call[r].tenant] = call[r].gen]
    /\ call' = [call EXCEPT ![r] = Kept(r)]
    /\ UNCHANGED <<tenant, auth, epoch, generation, file, memory, reader, flowVars, screenVars>>

(* Under the slot's lock.                                                   *)
Stores(r) ==
    /\ call[r].at = "checked"
    /\ generation = call[r].gen
    /\ epoch = call[r].epoch
    /\ slot' = Cached(r)
    /\ newest' = [newest EXCEPT ![call[r].tenant] = call[r].gen]
    /\ call' = [call EXCEPT ![r] = Kept(r)]
    /\ UNCHANGED <<tenant, auth, epoch, generation, file, memory, reader, flowVars, screenVars>>

(* persist_if_stored: save_to replaces the file, and may evict others.      *)
Writes(r) ==
    /\ call[r].at = "stored"
    /\ \E gone \in SUBSET (Tenant \ {call[r].tenant}) :
          LET left(f) == [t \in Tenant |-> IF t \in gone THEN 0 ELSE f[t]]
          IN  /\ file' = [left(file) EXCEPT ![call[r].tenant] = call[r].gen]
              /\ newest' = left(newest)
    /\ call' = [call EXCEPT ![r].at = "written"]
    /\ UNCHANGED <<tenant, auth, epoch, generation, slot, memory, reader, flowVars, screenVars>>

(* Too large, or the disk refuses it: only logged.                          *)
WriteFails(r) ==
    /\ call[r].at = "stored"
    /\ newest' = [newest EXCEPT ![call[r].tenant] = file[call[r].tenant]]
    /\ Answers(r, TRUE)
    /\ UNCHANGED <<tenant, auth, epoch, generation, slot, file, memory, reader, flowVars, screenVars>>

Remembers(r) ==
    /\ call[r].at = "written"
    /\ memory' = [tenant |-> call[r].tenant, gen |-> call[r].gen]
    /\ Answers(r, TRUE)
    /\ UNCHANGED <<tenant, auth, epoch, generation, slot, file, newest, reader, flowVars, screenVars>>

-----------------------------------------------------------------------------
(* the reply, in the frontend *)

Overtaken(r) == call[r].seq # seq

Last(r) == \A o \in Run : o = r \/ ~InFlight(o)

(* take_queued_run: the last run in flight starts the one queued behind it, *)
(* which its guards may refuse (signed out, no status picked).              *)
RunsQueued(r) ==
    \/ /\ queued /\ Last(r) /\ MayStart
       /\ call' = [call EXCEPT ![r] = Started]
       /\ seq' = seq + 1
       /\ queued' = FALSE
    \/ /\ call' = [call EXCEPT ![r] = NoCall]
       /\ queued' = (queued /\ ~Last(r))
       /\ UNCHANGED seq

(* Mutant of Overtakes: an overtaken run returns without draining the queue. *)
OvertakesEarly(r) ==
    /\ call[r].at = "answered"
    /\ Overtaken(r)
    /\ call' = [call EXCEPT ![r] = NoCall]
    /\ UNCHANGED <<tenant, auth, epoch, generation, slot, diskVars, reader, flowVars, screenVars>>

(* A newer run, or the end of a session, has moved the stamp: nothing is    *)
(* painted.                                                                 *)
Overtakes(r) ==
    /\ call[r].at = "answered"
    /\ Overtaken(r)
    /\ RunsQueued(r)
    /\ UNCHANGED <<tenant, auth, epoch, generation, slot, diskVars, reader, flowVars,
                   painted, overlapped, stranded>>

Paints(r) ==
    /\ call[r].at = "answered"
    /\ ~Overtaken(r)
    /\ call[r].shown
    /\ painted' = call[r].gen
    /\ stranded' = (stranded /\ slot.gen # call[r].gen)
    /\ RunsQueued(r)
    /\ UNCHANGED <<tenant, auth, epoch, generation, slot, diskVars, reader, flowVars, overlapped>>

(* The error is shown over the previous result.                             *)
ShowsError(r) ==
    /\ call[r].at = "answered"
    /\ ~Overtaken(r)
    /\ ~call[r].shown
    /\ RunsQueued(r)
    /\ UNCHANGED <<tenant, auth, epoch, generation, slot, diskVars, reader, flowVars,
                   painted, overlapped, stranded>>

-----------------------------------------------------------------------------
(* memoized reads: a handle, and the order offered back for its result *)

TakesHandle(v) ==
    /\ reader[v] = 0
    /\ slot.gen # 0 /\ slot.tenant = tenant
    /\ slot.memo = 0
    /\ reader' = [reader EXCEPT ![v] = slot.gen]
    /\ UNCHANGED <<tenant, auth, epoch, generation, slot, diskVars, call, flowVars, screenVars>>

(* store_memo: kept only for the very result it was built from.             *)
OffersMemo(v) ==
    /\ reader[v] # 0
    /\ slot' = IF slot.gen = reader[v] /\ slot.tenant = tenant
               THEN [slot EXCEPT !.memo = reader[v]] ELSE slot
    /\ reader' = [reader EXCEPT ![v] = 0]
    /\ UNCHANGED <<tenant, auth, epoch, generation, diskVars, call, flowVars, screenVars>>

-----------------------------------------------------------------------------
(* the commands that end a session, and clear_session when they succeed *)

(* clear_last_result: the bump, then the slot.                              *)
BumpsEpoch ==
    /\ epoch' = epoch + 1
    /\ UNCHANGED <<tenant, auth, generation, slot, diskVars, call, reader, screenVars>>

TakesResult ==
    /\ slot' = NoResult
    /\ UNCHANGED <<tenant, auth, epoch, generation, diskVars, call, reader, screenVars>>

(* Mutant of ClearSession: the stamp of a run in flight is left alone.       *)
ClearsOnly ==
    /\ painted' = 0
    /\ stranded' = FALSE
    /\ queued' = FALSE
    /\ UNCHANGED <<tenant, auth, epoch, generation, slot, diskVars, call, reader,
                   seq, overlapped>>

(* The command succeeded: the frontend drops the result, the queued run and *)
(* the stamp of a run still in flight.                                      *)
ClearSession ==
    /\ painted' = 0
    /\ stranded' = FALSE
    /\ seq' = seq + 1
    /\ queued' = FALSE
    /\ UNCHANGED <<tenant, auth, epoch, generation, slot, diskVars, call, reader, overlapped>>

(* The command failed: the error is shown, and that is all.                 *)
ShowsFailure ==
    /\ stranded' = TRUE
    /\ UNCHANGED <<tenant, auth, epoch, generation, slot, diskVars, call, reader,
                   seq, queued, painted, overlapped>>

SaveGoes(s, from, to) ==
    /\ saving[s] = from
    /\ saving' = [saving EXCEPT ![s] = to]
    /\ UNCHANGED signing

(* A browser sign-in stores nothing once the session it began in has ended. *)
Ended(at) == IF at = "browsing" THEN "stale" ELSE at

(* save_settings runs one at a time; a switch is published, then applied to *)
(* AuthState, which drops the grant, then ends the session.                 *)
Publish(s) ==
    /\ \A o \in Saver : saving[o] \in {"idle", "done"}
    /\ SaveGoes(s, "idle", "published")
    /\ \E t \in Tenant \ {tenant} :
          /\ tenant' = t
          /\ aim' = [aim EXCEPT ![s] = t]
    /\ UNCHANGED <<auth, epoch, generation, slot, diskVars, call, reader, screenVars>>

ApplySettings(s) ==
    /\ saving[s] = "published"
    /\ saving' = [saving EXCEPT ![s] = "applied"]
    /\ auth' = [tenant |-> aim[s], operator |-> Nobody]
    /\ signing' = [g \in Signer |-> Ended(signing[g])]
    /\ UNCHANGED <<tenant, epoch, generation, slot, diskVars, call, reader, aim, screenVars>>

SaveBumps(s) == SaveGoes(s, "applied", "bumped") /\ BumpsEpoch /\ UNCHANGED aim
SaveTakes(s) == SaveGoes(s, "bumped", "taken") /\ TakesResult /\ UNCHANGED aim

(* Ok, or the error of apply_settings' keyring write, kept until now.       *)
SaveReturns(s) ==
    /\ SaveGoes(s, "taken", "done")
    /\ ClearSession \/ ShowsFailure
    /\ UNCHANGED aim

SignGoes(g, from, to) ==
    /\ signing[g] = from
    /\ signing' = [signing EXCEPT ![g] = to]
    /\ UNCHANGED <<saving, aim>>

SignBumps(g) == SignGoes(g, "idle", "bumped") /\ BumpsEpoch
SignTakes(g) == SignGoes(g, "bumped", "taken") /\ TakesResult

Leaves ==
    /\ auth' = [auth EXCEPT !.operator = Nobody]
    /\ UNCHANGED <<tenant, epoch, generation, slot, diskVars, call, reader, screenVars>>

(* login_gate: one browser sign-in at a time, the next is refused.          *)
Browse(g) ==
    IF \E o \in Signer \ {g} : signing[o] \in {"browsing", "stale"} THEN "refused" ELSE "browsing"

(* sign_out and reauthorize drop the grant, which ends the session; the     *)
(* wake-up between reauthorize's logout and its sign-in is left out.        *)
Logout(g) ==
    /\ signing[g] = "taken"
    /\ \E next \in {"left", Browse(g)} :
          signing' = [o \in Signer |-> IF o = g THEN next ELSE Ended(signing[o])]
    /\ Leaves
    /\ UNCHANGED <<saving, aim>>

(* sign_in finds no saved sign-in that works.                               *)
FindsNone(g) ==
    /\ SignGoes(g, "taken", Browse(g))
    /\ Leaves

(* sign_out has left, or sign_in found the saved sign-in working.           *)
SignReturns(g) ==
    /\ \/ SignGoes(g, "left", "done")
       \/ SignGoes(g, "taken", "done") /\ auth.operator # Nobody
       \/ SignGoes(g, "entered", "done")
    /\ ClearSession

(* The keyring refused the delete, the browser's sign-in was given up, or   *)
(* its tokens were discarded, or it was refused.                            *)
SignFails(g) ==
    /\ \E from \in {"left", "browsing", "stale", "refused"} : SignGoes(g, from, "done")
    /\ ShowsFailure

Login(g) ==
    /\ SignGoes(g, "browsing", "entered")
    /\ auth' = [auth EXCEPT !.operator = g]
    /\ UNCHANGED <<tenant, epoch, generation, slot, diskVars, call, reader, screenVars>>

(* No run is in flight: the app waits for the operator.                     *)
Waits ==
    /\ \A r \in Run : ~InFlight(r)
    /\ UNCHANGED vars

-----------------------------------------------------------------------------
RunStep(r) ==
    \/ Starts(r) \/ Begins(r) \/ Fetches(r) \/ FetchFails(r) \/ Assembles(r)
    \/ Checks(r) \/ Superseded(r) \/ SessionCleared(r) \/ Stores(r)
    \/ Writes(r) \/ WriteFails(r) \/ Remembers(r)
    \/ Overtakes(r) \/ Paints(r) \/ ShowsError(r)

SaverStep(s) ==
    Publish(s) \/ ApplySettings(s) \/ SaveBumps(s) \/ SaveTakes(s) \/ SaveReturns(s)

SignerStep(g) ==
    \/ SignBumps(g) \/ SignTakes(g) \/ Logout(g) \/ FindsNone(g) \/ Login(g)
    \/ SignReturns(g) \/ SignFails(g)

Next ==
    \/ \E r \in Run : RunStep(r)
    \/ Queues \/ Waits
    \/ \E v \in Reader : TakesHandle(v) \/ OffersMemo(v)
    \/ \E s \in Saver : SaverStep(s)
    \/ \E g \in Signer : SignerStep(g)

Spec == Init /\ [][Next]_vars

-----------------------------------------------------------------------------
Operator == Signer \union {FirstOperator, Nobody}
Source == [tenant : Tenant, operator : Operator]
Result == [tenant : Tenant, gen : Nat, rows : SUBSET Source, memo : Nat, mid : BOOLEAN]
Snapshot == [tenant : Tenant, gen : Nat]
Places == {"idle", "invoked", "fetching", "assembled", "checked", "stored", "written", "answered"}
Call == [at : Places, seq : Nat, gen : Nat, tenant : Tenant, epoch : Nat, mid : BOOLEAN,
         rows : SUBSET Source, previous : Nat, shown : BOOLEAN]
SavePlaces == {"idle", "published", "applied", "bumped", "taken", "done"}
SignPlaces ==
    {"idle", "bumped", "taken", "left", "browsing", "stale", "refused", "entered", "done"}

(* Every variable has its type, and no stamp runs ahead of its counter.     *)
TypeOK ==
    /\ tenant \in Tenant
    /\ auth \in Source
    /\ epoch \in Nat
    /\ generation \in Nat
    /\ slot \in Result /\ slot.gen <= generation
    /\ file \in [Tenant -> Nat]
    /\ memory \in Snapshot
    /\ newest \in [Tenant -> Nat]
    /\ call \in [Run -> Call]
    /\ \A r \in Run : call[r].gen <= generation /\ call[r].seq <= seq
    /\ reader \in [Reader -> Nat]
    /\ saving \in [Saver -> SavePlaces]
    /\ aim \in [Saver -> Tenant]
    /\ signing \in [Signer -> SignPlaces]
    /\ seq \in Nat
    /\ queued \in BOOLEAN
    /\ painted \in Nat
    /\ overlapped \in BOOLEAN
    /\ stranded \in BOOLEAN

SaveUnderWay == \E s \in Saver : saving[s] \notin {"idle", "done"}
SignUnderWay == \E g \in Signer : signing[g] \notin {"idle", "done"}

(* The result on screen is the one behind it, or one whose reply is about   *)
(* to replace it.                                                           *)
Behind ==
    /\ slot.gen # 0 /\ slot.tenant = tenant
    /\ \/ slot.gen = painted
       \/ \E r \in Run : /\ call[r].at \in {"stored", "written", "answered"}
                         /\ call[r].gen = slot.gen

(* "Return a summary only when the rows behind it are readable"             *)
(* (query-cache.md): while no session is being ended, the table on screen   *)
(* is of the result that paging, export and the report will read, or the    *)
(* run that replaced it is about to answer.  Except after a command that    *)
(* emptied the cache and failed, and once runs have overlapped.             *)
ScreenIsReadable ==
    painted # 0 /\ ~stranded /\ ~overlapped /\ ~SaveUnderWay /\ ~SignUnderWay => Behind

(* The cache holds no rows of another tenant or operator than the present   *)
(* ones, except while a session is being ended, or when the run began       *)
(* between the two halves of a sign-out (clear_session_state).              *)
OnlyOwnRows ==
    slot.gen # 0 /\ ~slot.mid
        /\ (\A s \in Saver : saving[s] \in {"idle", "taken", "done"})
        /\ (\A g \in Signer : signing[g] # "bumped")
        => slot.tenant = tenant /\ slot.rows = {auth}

(* Why OnlyOwnRows holds: what it says of the cache holds, ahead of the     *)
(* store, of every run the cache would accept, and nobody fetches while a   *)
(* browser sign-in is awaited.                                              *)
Acceptable(c) ==
    c.at \in {"fetching", "assembled", "checked"} /\ c.epoch = epoch /\ ~c.mid
Switching == \E s \in Saver : saving[s] \in {"published", "applied"}

Own(c) ==
    /\ c.epoch <= epoch
    /\ \A row \in c.rows : row.operator # Nobody
    /\ c.at = "invoked" => c.rows = {}
    /\ c.at \in {"assembled", "checked"} => c.rows # {}
    /\ Acceptable(c) => ~MidSign
    /\ Acceptable(c) /\ ~Switching => c.tenant = tenant /\ c.rows \subseteq {auth}

InBrowser(g) == signing[g] \in {"browsing", "stale"}

OwnInv ==
    /\ \A r \in Run : Own(call[r])
    /\ \A row \in slot.rows : row.operator # Nobody
    /\ \A g \in Signer : signing[g] = "browsing" => auth.operator = Nobody
    /\ \A g, h \in Signer : InBrowser(g) /\ InBrowser(h) => g = h
    /\ \A g \in Signer : signing[g] = "taken" => slot.gen = 0 \/ slot.mid
    /\ OnlyOwnRows

(* A result is never replaced by that of a run that began before it, in     *)
(* whatever order they finish (state.rs, "Supersession").                   *)
NeverOlder == [][slot'.gen = 0 \/ slot'.gen >= slot.gen]_slot

(* A kept sort order or grouping is of the result it is kept with.          *)
MemoFits == slot.memo \in {0, slot.gen}

(* A queued run always has a run in flight that will start it.              *)
NoClickLost == queued => \E r \in Run : InFlight(r)
=============================================================================
