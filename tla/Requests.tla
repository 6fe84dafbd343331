------------------------------ MODULE Requests ------------------------------
(***************************************************************************)
(* One call of the API client (src-tauri/src/api/mod.rs): send_with_retry, *)
(* the decoders around it, and what its calls share, the pause a 429 asks  *)
(* of all of them.                                                         *)
(*                                                                         *)
(* NinjaOne is the environment: it answers an attempt in one of Outcome's  *)
(* ways, and some of these leave open whether it acted. served counts the  *)
(* times it did. departed says that the tenant has moved since the call    *)
(* was made or, of an acting call, that its session has ended.             *)
(***************************************************************************)
EXTENDS Naturals

CONSTANTS Req,          \* the places a call can be made from
          MaxRetries,   \* MAX_RETRIES
          MaxPause      \* MAX_RETRY_AFTER_SECS, in ticks

ASSUME RetriesAreCounted == MaxRetries \in Nat /\ MaxPause \in Nat \ {0}

VARIABLES req,          \* the calls
          paused        \* what is left of the shared pause

reqVars == <<req, paused>>

\* ReplaySafety.
Kind == {"Idempotent", "CursorPage", "ActOnce"}

\* How an attempt ends: lost before, maybe after or after it was handled,
\* refused, or answered with a body that can, or cannot, be read.
Outcome == {"unbuilt", "noConnection", "timeout", "brokenOff", "429", "401",
            "4xx", "5xx", "unreadable", "2xx"}

\* How often NinjaOne may have handled an attempt that ends so.
Handled(out) == CASE out \in {"timeout", "brokenOff", "5xx"} -> {0, 1}
                  [] out \in {"unreadable", "2xx"}           -> {1}
                  [] OTHER                                   -> {0}

Result == {"none", "ok", "error", "refused", "unknown", "lost", "lostServed"}

RequestsTypeOK ==
    /\ req \in [Req -> [pc : {"idle", "paused", "sent", "backoff", "done"},
                        kind : Kind, attempt : 0..MaxRetries, served : Nat,
                        departed : BOOLEAN, result : Result]]
    /\ paused \in 0..MaxPause

NoCall == [pc |-> "idle", kind |-> "Idempotent", attempt |-> 0, served |-> 0,
           departed |-> FALSE, result |-> "none"]

RequestsInit == req = [q \in Req |-> NoCall] /\ paused = 0

Open(q) == req[q].pc \notin {"idle", "done"}

-----------------------------------------------------------------------------
(* The call.                                                               *)

\* A call is made: its URL is stamped with the tenant of now.
Calls(q, kind) ==
    /\ ~Open(q)
    /\ req' = [req EXCEPT ![q] = [NoCall EXCEPT !.pc = "paused", !.kind = kind]]
    /\ UNCHANGED paused

\* What is left of a call that has returned.
Done(r, result) == [NoCall EXCEPT !.pc = "done", !.kind = r.kind, !.served = r.served,
                                  !.result = result]
Ends(q, result) == req' = [req EXCEPT ![q] = Done(@, result)]

\* The pause is over, or there is none, and the token is asked for: it is refused to
\* a tenant that has moved, or there is none to be had. An acting call asks its guard
\* with the token in hand; then the attempt goes out.
Sends(q) ==
    /\ req[q].pc = "paused" /\ paused = 0
    /\ \/ req[q].departed /\ Ends(q, IF req[q].kind = "ActOnce" THEN "refused" ELSE "error")
       \/ ~req[q].departed /\ req' = [req EXCEPT ![q].pc = "sent"]
       \/ Ends(q, "error")
    /\ UNCHANGED paused

\* Mutant of Retries: a cursor page is asked for again like any read.
RetriesPages(kind, attempt, out) ==
    /\ attempt < MaxRetries
    /\ \/ out \in {"429", "401"}
       \/ out \in {"timeout", "5xx"} /\ kind # "ActOnce"
       \/ out = "noConnection" /\ kind # "ActOnce"

\* retry_for, and the arms for an attempt that got no answer.
Retries(kind, attempt, out) ==
    /\ attempt < MaxRetries
    /\ \/ out \in {"429", "401"}
       \/ out \in {"timeout", "5xx"} /\ kind = "Idempotent"
       \/ out = "noConnection" /\ kind # "ActOnce"

\* What a call ends with that ends so.
Verdict(kind, out) ==
    CASE out = "2xx" -> "ok"
      [] out \in {"timeout", "brokenOff", "5xx"} /\ kind = "ActOnce" -> "unknown"
      [] out \in {"timeout", "brokenOff", "5xx"} /\ kind = "CursorPage" -> "lost"
      [] out = "unreadable" /\ kind = "ActOnce" -> "unknown"
      [] out = "unreadable" /\ kind = "CursorPage" -> "lostServed"
      [] OTHER -> "error"

\* Mutant of Answered: a rate limit is waited out without counting the attempt.
AnsweredUncounted(q, out, handled) ==
    /\ req[q].pc = "sent"
    /\ LET r == [req[q] EXCEPT !.served = @ + handled]
       IN  req' = [req EXCEPT ![q] =
             IF Retries(r.kind, r.attempt, out)
             THEN [r EXCEPT !.attempt = IF out = "429" THEN @ ELSE @ + 1,
                            !.pc = IF out \in {"429", "401"} THEN "paused" ELSE "backoff"]
             ELSE Done(r, Verdict(r.kind, out))]
    /\ IF out = "429" THEN paused' = MaxPause ELSE UNCHANGED paused

\* The attempt ends. A 429 pauses every call, also when this one gives up, and
\* never shortens the pause; its own retry waits for nothing else, a 401's for a
\* new token only.
Answered(q, out, handled) ==
    /\ req[q].pc = "sent"
    /\ LET r == [req[q] EXCEPT !.served = @ + handled]
       IN  req' = [req EXCEPT ![q] =
             IF Retries(r.kind, r.attempt, out)
             THEN [r EXCEPT !.attempt = @ + 1,
                            !.pc = IF out \in {"429", "401"} THEN "paused" ELSE "backoff"]
             ELSE Done(r, Verdict(r.kind, out))]
    /\ IF out = "429"
       THEN \E asked \in 1..MaxPause :
              paused' = IF asked > paused THEN asked ELSE paused
       ELSE UNCHANGED paused

\* The backoff of a timeout, a 5xx or a refused connection is over.
BackoffEnds(q) ==
    /\ req[q].pc = "backoff"
    /\ req' = [req EXCEPT ![q].pc = "paused"]
    /\ UNCHANGED paused

Proceeds(q) == Sends(q) \/ BackoffEnds(q)

-----------------------------------------------------------------------------
(* What happens meanwhile.                                                 *)

Tick == paused > 0 /\ paused' = paused - 1 /\ UNCHANGED req

Departs(calls) ==
    /\ \E q \in calls : ~req[q].departed
    /\ req' = [q \in Req |-> [req[q] EXCEPT !.departed = @ \/ q \in calls]]
    /\ UNCHANGED paused

\* The tenant changes under every call that is open; the session ends under those
\* that have a guard to ask.
TenantMoves == Departs({q \in Req : Open(q)})
SessionEnds == Departs({q \in Req : Open(q) /\ req[q].kind = "ActOnce"})

-----------------------------------------------------------------------------
(* What the callers may rely on.                                           *)

\* What a call reports is what happened. NinjaOne handles an acting request, or a
\* cursor page, once at most, however often it is sent; a plain error, or a refusal
\* to send, means that it did not; "lostServed" that it did; success that it did.
\* (The callers record the first as not sent or failed, re-read a lost page, and
\* start a scan over after a served one: actions/dispatch.rs, api/paging.rs.)
ReportsWhatHappened ==
    \A q \in Req :
        LET r == req[q]
        IN  /\ r.kind # "Idempotent" => r.served <= 1
            /\ r.pc = "done" =>
                 /\ r.result \in {"ok", "lostServed"} => r.served > 0
                 /\ r.result \in {"error", "refused"} /\ r.kind # "Idempotent" => r.served = 0
                 /\ r.result = "lost" => r.kind = "CursorPage"
=============================================================================
