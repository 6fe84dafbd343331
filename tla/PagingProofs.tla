---------------------------- MODULE PagingProofs ----------------------------
(***************************************************************************)
(* What a call of the API client reports is what happened, for any number  *)
(* of calls, retries and pages, and what a fetch returns is the whole feed:*)
(* the proofs about Paging.                                                *)
(* And what the Jobs tab shows becomes what happened, for any number of    *)
(* dispatches, events and reads: the proofs about JobBoard.                *)
(* And the filters on screen ask for what they show, for any lists, views  *)
(* and sessions: the proofs about QueryForm. And slicing a fleet's patches *)
(* does not show in them, for any fleet: the proofs about SlicedFeed.      *)
(***************************************************************************)
EXTENDS Paging, JobBoard, QueryForm, SlicedFeed, TLAPS, FiniteSetTheorems

\* A call under way that must not be handled twice has not been handled yet: each of its
\* attempts so far is one that NinjaOne certainly refused.
UnservedWhileOpen ==
    \A q \in Req : req[q].kind # "Idempotent" /\ Open(q) => req[q].served = 0

ReportInv == RequestsTypeOK /\ UnservedWhileOpen /\ ReportsWhatHappened

Call == [pc : {"idle", "paused", "sent", "backoff", "done"}, kind : Kind,
         attempt : 0..MaxRetries, served : Nat, departed : BOOLEAN, result : Result]

\* The three conjuncts, of one call.
Truthful(r) ==
    /\ r \in Call
    /\ r.kind # "Idempotent" /\ r.pc \notin {"idle", "done"} => r.served = 0
    /\ r.kind # "Idempotent" => r.served <= 1
    /\ r.pc = "done" =>
         /\ r.result \in {"ok", "lostServed"} => r.served > 0
         /\ r.result \in {"error", "refused"} /\ r.kind # "Idempotent" => r.served = 0
         /\ r.result = "lost" => r.kind = "CursorPage"

TruthfulInv == paused \in 0..MaxPause /\ req \in [Req -> Call] /\ \A q \in Req : Truthful(req[q])

LEMMA InvIsTruthful == ReportInv <=> TruthfulInv
  BY DEF ReportInv, TruthfulInv, RequestsTypeOK, UnservedWhileOpen, ReportsWhatHappened,
         Truthful, Call, Open

LEMMA IdleIsTruthful ==
    /\ NoCall \in Call /\ NoCall.served = 0 /\ NoCall.pc = "idle"
    /\ Truthful(NoCall)
  BY RetriesAreCounted DEF Truthful, Call, NoCall, Kind, Result

LEMMA NewCallIsTruthful ==
    ASSUME NEW kind \in Kind
    PROVE  Truthful([NoCall EXCEPT !.pc = "paused", !.kind = kind])
  <1> DEFINE s == [NoCall EXCEPT !.pc = "paused", !.kind = kind]
  <1>1. s \in Call /\ s.pc = "paused" /\ s.served = 0
    BY IdleIsTruthful DEF Call
  <1> QED BY <1>1 DEF Truthful

\* What is kept of a call that has returned.
LEMMA DoneIs ==
    ASSUME NEW r \in Call, NEW result \in Result
    PROVE  /\ Done(r, result) \in Call /\ Done(r, result).pc = "done"
           /\ Done(r, result).kind = r.kind /\ Done(r, result).served = r.served
           /\ Done(r, result).result = result
  <1>1. r.kind \in Kind /\ r.served \in Nat
    BY DEF Call
  <1> QED BY <1>1, IdleIsTruthful DEF Done, Call

\* Moving on without an answer changes nothing that is promised.
LEMMA MovedIsTruthful ==
    ASSUME NEW r, Truthful(r), r.pc \notin {"idle", "done"},
           NEW pc \in {"paused", "sent", "backoff"}
    PROVE  Truthful([r EXCEPT !.pc = pc])
  BY DEF Truthful, Call

\* A call that gives up before an attempt of it goes out.
LEMMA GivenUpIsTruthful ==
    ASSUME NEW r, Truthful(r), r.pc \notin {"idle", "done"},
           NEW result \in {"error", "refused"}
    PROVE  Truthful(Done(r, result))
  <1>1. r \in Call /\ result \in Result
    BY DEF Truthful, Result
  <1>2. r.kind # "Idempotent" => r.served = 0
    BY DEF Truthful
  <1> QED BY <1>1, <1>2, DoneIs DEF Truthful

\* An answered attempt: retried only if NinjaOne refused it or it can be repeated, and
\* otherwise reported by how it ended.
LEMMA AnsweredIsTruthful ==
    ASSUME NEW r, Truthful(r), r.pc = "sent",
           NEW out \in Outcome, NEW handled \in Handled(out)
    PROVE  LET s == [r EXCEPT !.served = @ + handled]
           IN  Truthful(IF Retries(s.kind, s.attempt, out)
                        THEN [s EXCEPT !.attempt = @ + 1,
                                       !.pc = IF out \in {"429", "401"} THEN "paused" ELSE "backoff"]
                        ELSE Done(s, Verdict(s.kind, out)))
  <1> DEFINE s == [r EXCEPT !.served = @ + handled]
  <1>1. handled \in {0, 1}
    BY DEF Handled, Outcome
  <1>2. /\ s \in Call /\ s.kind = r.kind /\ s.attempt = r.attempt /\ s.pc = "sent"
        /\ s.served = r.served + handled
        /\ r.kind # "Idempotent" => r.served = 0
        /\ r.served \in Nat /\ r.kind \in Kind /\ r.attempt \in 0..MaxRetries
    BY <1>1 DEF Truthful, Call
  <1>3. CASE Retries(s.kind, s.attempt, out)
    <2> DEFINE next == [s EXCEPT !.attempt = @ + 1,
                                 !.pc = IF out \in {"429", "401"} THEN "paused" ELSE "backoff"]
    <2>1. r.kind # "Idempotent" => handled = 0
      BY <1>2, <1>3 DEF Retries, Handled, Kind
    <2>2. s.attempt + 1 \in 0..MaxRetries
      BY <1>2, <1>3, RetriesAreCounted DEF Retries
    <2>3. next \in Call /\ next.pc \in {"paused", "backoff"} /\ next.kind = r.kind
          /\ next.served = r.served + handled
      BY <1>2, <2>2 DEF Call
    <2>4. Truthful(next)
      BY <1>2, <2>1, <2>3 DEF Truthful
    <2> QED BY <1>3, <2>4
  <1>4. CASE ~Retries(s.kind, s.attempt, out)
    <2> DEFINE verdict == Verdict(s.kind, out)
    <2>1. verdict \in Result
      BY DEF Verdict, Result
    <2>2. /\ Done(s, verdict) \in Call /\ Done(s, verdict).pc = "done"
          /\ Done(s, verdict).kind = r.kind /\ Done(s, verdict).served = r.served + handled
          /\ Done(s, verdict).result = verdict
      BY <1>2, <2>1, DoneIs
    <2>3. verdict \in {"ok", "lostServed"} => handled = 1
      BY DEF Verdict, Handled, Outcome
    <2>4. verdict \in {"error", "refused"} /\ r.kind # "Idempotent" => handled = 0
      BY <1>2 DEF Verdict, Handled, Outcome, Kind
    <2>5. verdict = "lost" => r.kind = "CursorPage"
      BY <1>2 DEF Verdict, Outcome
    <2>6. Truthful(Done(s, verdict))
      BY <1>1, <1>2, <2>2, <2>3, <2>4, <2>5 DEF Truthful
    <2> QED BY <1>4, <2>6
  <1> QED BY <1>3, <1>4

-----------------------------------------------------------------------------
(* The steps of one call, and what happens to all of them.                 *)

\* A step of one call, which leaves it truthful, leaves them all.
LEMMA OneCallMoves ==
    ASSUME TruthfulInv, NEW q \in Req, NEW r, Truthful(r), req' = [req EXCEPT ![q] = r],
           paused' \in 0..MaxPause
    PROVE  TruthfulInv'
  <1>1. req' \in [Req -> Call]
    BY DEF TruthfulInv, Truthful
  <1>2. \A p \in Req : Truthful(req'[p])
    BY DEF TruthfulInv
  <1> QED BY <1>1, <1>2 DEF TruthfulInv, Truthful, Call

LEMMA CallsStep ==
    ASSUME TruthfulInv, NEW q \in Req, NEW kind \in Kind, Calls(q, kind)
    PROVE  TruthfulInv'
  <1>1. Truthful([NoCall EXCEPT !.pc = "paused", !.kind = kind])
    BY NewCallIsTruthful
  <1>2. paused' \in 0..MaxPause
    BY DEF Calls, TruthfulInv
  <1> QED BY <1>1, <1>2, OneCallMoves DEF Calls

LEMMA ProceedsStep ==
    ASSUME TruthfulInv, NEW q \in Req, Proceeds(q)
    PROVE  TruthfulInv'
  <1>0. Truthful(req[q]) /\ paused' \in 0..MaxPause
    BY DEF TruthfulInv, Proceeds, Sends, BackoffEnds
  <1>1. ASSUME NEW result \in {"error", "refused"}, req[q].pc = "paused", Ends(q, result)
        PROVE  TruthfulInv'
    <2>1. Truthful(Done(req[q], result))
      BY <1>0, <1>1, GivenUpIsTruthful
    <2> QED BY <1>0, <1>1, <2>1, OneCallMoves DEF Ends
  <1>2. ASSUME NEW pc \in {"paused", "sent", "backoff"}, req[q].pc \notin {"idle", "done"},
               req' = [req EXCEPT ![q].pc = pc]
        PROVE  TruthfulInv'
    <2>1. Truthful([req[q] EXCEPT !.pc = pc])
      BY <1>0, <1>2, MovedIsTruthful
    <2> QED BY <1>0, <1>2, <2>1, OneCallMoves
  <1>3. CASE Sends(q)
    <2>1. CASE req[q].departed /\ Ends(q, IF req[q].kind = "ActOnce" THEN "refused" ELSE "error")
      BY <1>3, <2>1, <1>1 DEF Sends
    <2>2. CASE ~req[q].departed /\ req' = [req EXCEPT ![q].pc = "sent"]
      BY <1>3, <2>2, <1>2 DEF Sends
    <2>3. CASE Ends(q, "error")
      BY <1>3, <2>3, <1>1 DEF Sends
    <2> QED BY <1>3, <2>1, <2>2, <2>3 DEF Sends
  <1>4. CASE BackoffEnds(q)
    BY <1>4, <1>2 DEF BackoffEnds
  <1> QED BY <1>3, <1>4 DEF Proceeds

LEMMA AnsweredStep ==
    ASSUME TruthfulInv, NEW q \in Req, NEW out \in Outcome, NEW handled \in Handled(out),
           Answered(q, out, handled)
    PROVE  TruthfulInv'
  <1> DEFINE s == [req[q] EXCEPT !.served = @ + handled]
             after == IF Retries(s.kind, s.attempt, out)
                      THEN [s EXCEPT !.attempt = @ + 1,
                                     !.pc = IF out \in {"429", "401"} THEN "paused" ELSE "backoff"]
                      ELSE Done(s, Verdict(s.kind, out))
  <1>1. Truthful(req[q]) /\ req[q].pc = "sent"
    BY DEF TruthfulInv, Answered
  <1>2. Truthful(after)
    BY <1>1, AnsweredIsTruthful
  <1>3. req' = [req EXCEPT ![q] = after]
    BY DEF Answered
  <1>4. paused' \in 0..MaxPause
    BY RetriesAreCounted DEF Answered, TruthfulInv
  <1> HIDE DEF after
  <1> QED BY <1>2, <1>3, <1>4, OneCallMoves

LEMMA PauseStep == ASSUME TruthfulInv, Tick PROVE TruthfulInv'
  <1>1. paused' \in 0..MaxPause
    BY RetriesAreCounted DEF Tick, TruthfulInv
  <1> QED BY <1>1 DEF Tick, TruthfulInv, Truthful, Call

LEMMA DepartsStep == ASSUME TruthfulInv, NEW calls, Departs(calls) PROVE TruthfulInv'
  <1>1. ASSUME NEW q \in Req, NEW d \in BOOLEAN
        PROVE  Truthful([req[q] EXCEPT !.departed = d])
    BY DEF TruthfulInv, Truthful, Call
  <1>2. ASSUME NEW q \in Req
        PROVE  Truthful(req'[q])
    <2>1. req'[q] = [req[q] EXCEPT !.departed = (req[q].departed \/ q \in calls)]
      BY <1>2 DEF Departs
    <2> QED BY <1>1, <2>1
  <1>3. req' = [q \in Req |-> req'[q]]
    BY DEF Departs
  <1>4. req' \in [Req -> Call]
    BY <1>2, <1>3 DEF Truthful
  <1> QED BY <1>2, <1>4 DEF TruthfulInv, Truthful, Call, Departs

-----------------------------------------------------------------------------
(* The theorems.                                                           *)

LEMMA TruthfulNext == TruthfulInv /\ [Next]_vars => TruthfulInv'
  <1> SUFFICES ASSUME TruthfulInv, [Next]_vars PROVE TruthfulInv'
    OBVIOUS
  <1>1. ASSUME NEW f \in Fetch, Begins(f) PROVE TruthfulInv'
    BY <1>1 DEF Begins, TruthfulInv, Truthful, Call
  <1>2. ASSUME NEW f \in Fetch, FetchStep(f) PROVE TruthfulInv'
    <2>0. f \in Req
      BY FetchesAreCalls
    <2>1. CASE Asks(f)
      <3>1. (IF fetch[f].cursor # NoCursor THEN "CursorPage" ELSE "Idempotent") \in Kind
        BY DEF Kind
      <3> QED BY <2>0, <2>1, <3>1, CallsStep DEF Asks
    <2>2. CASE PagesForEver(f)
      BY <2>2 DEF PagesForEver, TruthfulInv, Truthful, Call
    <2>3. CASE Receives(f)
      <3>1. req' = [req EXCEPT ![f] = NoCall] /\ paused' = paused
        BY <2>3 DEF Receives
      <3>2. paused' \in 0..MaxPause
        BY <3>1 DEF TruthfulInv
      <3> QED BY <2>0, <3>1, <3>2, IdleIsTruthful, OneCallMoves
    <2>4. CASE PageAnswered(f)
      BY <2>0, <2>4, AnsweredStep DEF PageAnswered
    <2> QED BY <1>2, <2>1, <2>2, <2>3, <2>4 DEF FetchStep
  <1>3. ASSUME NEW q \in Req, ActsOn(q) PROVE TruthfulInv'
    BY <1>3, CallsStep DEF ActsOn, Kind
  <1>4. ASSUME NEW q \in Req, ActionAnswered(q) PROVE TruthfulInv'
    BY <1>4, AnsweredStep DEF ActionAnswered
  <1>5. ASSUME NEW q \in Req, Runs(q) PROVE TruthfulInv'
    BY <1>5, ProceedsStep DEF Runs
  <1>6. CASE Passes
    BY <1>6, PauseStep DEF Passes
  <1>7. CASE Switches
    BY <1>7, DepartsStep DEF Switches, TenantMoves, SessionEnds
  <1>8. CASE UNCHANGED vars
    BY <1>8 DEF vars, TruthfulInv, Truthful, Call
  <1> QED BY <1>1, <1>2, <1>3, <1>4, <1>5, <1>6, <1>7, <1>8 DEF Next

LEMMA TruthfulInit == Init => TruthfulInv
  <1> SUFFICES ASSUME Init PROVE TruthfulInv
    OBVIOUS
  <1>1. req = [q \in Req |-> NoCall] /\ paused = 0
    BY DEF Init, RequestsInit
  <1> QED BY <1>1, IdleIsTruthful, RetriesAreCounted DEF TruthfulInv

\* The calls and the pause they share keep their types: no call is sent more often than
\* MAX_RETRIES allows, and no pause is longer than MAX_RETRY_AFTER_SECS (send_with_retry
\* in api/mod.rs), for any number of calls and whatever the pages bring.
THEOREM RequestsKeepTheirTypes == Spec => []RequestsTypeOK
  <1>1. ReportInv => RequestsTypeOK
    BY DEF ReportInv
  <1>2. TruthfulInv => ReportInv
    BY InvIsTruthful
  <1> QED BY <1>1, <1>2, TruthfulInit, TruthfulNext, PTL DEF Spec

\* A request that acts on a device, and one that moves a cursor, is handled at most once
\* by NinjaOne however often it is sent again, and what the caller is told of it is what
\* happened (send_with_retry and its callers, api/mod.rs).
THEOREM ReportsAreTrue == Spec => []ReportsWhatHappened
  <1>1. ReportInv => ReportsWhatHappened
    BY DEF ReportInv
  <1>2. TruthfulInv => ReportInv
    BY InvIsTruthful
  <1> QED BY <1>1, <1>2, TruthfulInit, TruthfulNext, PTL DEF Spec

-----------------------------------------------------------------------------
(* A fetch and its pages.                                                  *)

\* Induction on the natural numbers, for sets.
LEMMA Induction ==
    ASSUME NEW S \in SUBSET Nat, 0 \in S, \A n \in S : n + 1 \in S
    PROVE  S = Nat
  <1> DEFINE R == {ss \in Nat \X Nat : ss[1] < ss[2]}
             T == Nat \ S
  <1>1. IsWellFoundedOn(R, Nat)
    BY NatLessThanWellFounded DEF OpToRel
  <1>2. SUFFICES ASSUME T # {} PROVE FALSE
    OBVIOUS
  <1>3. PICK x \in T : \A y \in T : ~(<<y, x>> \in R)
    <2> HIDE DEF R
    <2>1. T \subseteq Nat
      OBVIOUS
    <2>2. IsWellFoundedOn(R, T)
      BY <1>1, <2>1, IsWellFoundedOnSubset
    <2> QED BY <1>1, <1>2, <2>1, WFMin
  <1>4. x # 0 /\ x \in Nat /\ x - 1 \in Nat /\ x - 1 \notin T
    <2>1. x \in Nat /\ x # 0
      BY <1>3
    <2>2. x - 1 \in Nat /\ x - 1 < x
      BY <2>1
    <2>3. <<x - 1, x>> \in R
      BY <2>1, <2>2
    <2> QED BY <1>3, <2>1, <2>2, <2>3
  <1>5. x - 1 \in S
    BY <1>4
  <1>6. (x - 1) + 1 \in S
    BY <1>5
  <1>7. (x - 1) + 1 = x
    BY <1>4
  <1> QED BY <1>3, <1>6, <1>7

FetchState == [pc : {"loop", "asking", "ok", "error"}, style : Style, rows : Seq(Nat),
               after : Nat, pages : Nat, restarts : Nat, rereads : Nat, cursor : Nat,
               seen : SUBSET (Nat \ {0}), announced : Nat, rereading : BOOLEAN,
               reread : BOOLEAN]
ServerState == [size : 0..MaxRows, counts : BOOLEAN, pos : Nat, count : Nat, cursor : Nat,
                body : [shape : {"empty", "envelope", "array"}, rows : Seq(Nat), cursor : Nat],
                lied : BOOLEAN]

\* A fetch has read the feed up to where the server is; or it has missed rows, and the
\* count will show it.
WithScan(fs, s, rows) ==
    \/ rows = Rows(0, s.pos)
    \/ fs.reread /\ fs.announced # Unknown /\ Len(rows) < s.pos

\* A scan by cursor: what a request that NinjaOne has handled will bring, and where the
\* fetch is while none has been.
EnvelopeHeld(fs, s, r) ==
    /\ fs.after = 0
    /\ fs.cursor = NoCursor =>
         /\ fs.rows = <<>> /\ fs.announced = Unknown /\ ~fs.reread /\ ~fs.rereading
    /\ fs.cursor # NoCursor => fs.announced = s.count
    /\ fs.cursor # NoCursor /\ ~s.lied /\ r.served = 0 => WithScan(fs, s, fs.rows)
    /\ fs.pc = "asking" /\ r.served > 0 /\ ~s.lied =>
         /\ WithScan(fs, s, fs.rows \o s.body.rows)
         /\ s.body.cursor = NoCursor => s.pos = s.size
         /\ s.body.rows = <<>> =>
              \/ s.pos = s.size
              \/ s.count = s.size /\ s.body.shape = "envelope" /\ s.body.cursor # NoCursor
    /\ fs.pc = "asking" /\ r.served > 0 =>
         /\ s.body.shape \in {"envelope", "empty"}
         /\ s.body.shape = "empty" => s.body.cursor = NoCursor /\ s.body.rows = <<>>

\* A scan by id: the rows up to `after`, and the page that follows them.
ArrayHeld(fs, s, r) ==
    /\ fs.after <= s.size /\ fs.rows = Rows(0, fs.after)
    /\ fs.cursor = NoCursor /\ fs.announced = Unknown /\ ~fs.reread /\ ~fs.rereading
    /\ fs.pc = "asking" /\ r.served > 0 =>
         /\ s.body.shape = "array"
         /\ \E from \in 0..fs.after :
              fs.after <= from + 1 /\ s.body.rows = Rows(from, Least(from + PageSize, s.size))

\* One fetch, with what the server holds for it and the call it has out.
Held(fs, s, r) ==
    /\ fs \in FetchState /\ s \in ServerState
    /\ fs.pc = "asking" <=> r.pc # "idle"
    /\ r.pc = "idle" => r.served = 0
    /\ fs.pc = "asking" =>
         /\ fs.pages \in 1..MaxPages
         /\ r.kind = IF fs.cursor # NoCursor THEN "CursorPage" ELSE "Idempotent"
    /\ r.result \in {"lost", "lostServed"} => r.kind = "CursorPage"
    /\ s.pos <= s.size /\ s.count \in {Unknown, s.size}
    /\ fs.pc \in {"loop", "asking"} =>
         IF fs.style = "array" THEN ArrayHeld(fs, s, r) ELSE EnvelopeHeld(fs, s, r)
    /\ fs.pc = "ok" /\ ~s.lied => fs.rows = Rows(0, s.size)

\* The rows of the feed, and how two stretches of it join.
LEMMA RowsAre ==
    ASSUME NEW a \in Nat, NEW b \in Nat, a <= b
    PROVE  /\ Rows(a, b) \in Seq(Nat) /\ Len(Rows(a, b)) = b - a
           /\ Rows(a, b) = <<>> <=> a = b
           /\ \A i \in 1..(b - a) : Rows(a, b)[i] = a + i
           /\ DOMAIN Rows(a, b) = 1..(b - a)
  <1>1. b - a \in Nat
    OBVIOUS
  <1>2. Rows(a, b) \in Seq(Nat) /\ Len(Rows(a, b)) = b - a /\ DOMAIN Rows(a, b) = 1..(b - a)
    BY <1>1 DEF Rows
  <1> QED BY <1>1, <1>2 DEF Rows

LEMMA FirstRowsAre ==
    ASSUME NEW a \in Nat
    PROVE  /\ Rows(0, a) \in Seq(Nat) /\ Len(Rows(0, a)) = a
           /\ \A i \in 1..a : Rows(0, a)[i] = i
           /\ Rows(0, a) = <<>> <=> a = 0
  <1>1. 0 \in Nat /\ 0 <= a /\ a - 0 = a /\ \A i \in 1..a : 0 + i = i
    OBVIOUS
  <1>2. /\ Rows(0, a) \in Seq(Nat) /\ Len(Rows(0, a)) = a - 0
        /\ Rows(0, a) = <<>> <=> 0 = a
        /\ \A i \in 1..(a - 0) : Rows(0, a)[i] = 0 + i
    BY <1>1, RowsAre
  <1> QED BY <1>1, <1>2

LEMMA RowsJoin ==
    ASSUME NEW a \in Nat, NEW b \in Nat, a <= b
    PROVE  Rows(0, a) \o Rows(a, b) = Rows(0, b)
  <1>1. /\ Rows(0, a) \in Seq(Nat) /\ Len(Rows(0, a)) = a
        /\ \A i \in 1..a : Rows(0, a)[i] = i
    BY FirstRowsAre
  <1>2. /\ Rows(a, b) \in Seq(Nat) /\ Len(Rows(a, b)) = b - a
        /\ \A i \in 1..(b - a) : Rows(a, b)[i] = a + i
    BY RowsAre
  <1>3. /\ Rows(0, b) \in Seq(Nat) /\ Len(Rows(0, b)) = b
        /\ \A i \in 1..b : Rows(0, b)[i] = i
    BY FirstRowsAre
  <1> DEFINE first == Rows(0, a)
             rest == Rows(a, b)
             whole == first \o rest
             all == Rows(0, b)
  <1> HIDE DEF first, rest, all
  <1>10. /\ first \in Seq(Nat) /\ Len(first) = a /\ \A i \in 1..a : first[i] = i
         /\ rest \in Seq(Nat) /\ Len(rest) = b - a /\ \A i \in 1..(b - a) : rest[i] = a + i
         /\ all \in Seq(Nat) /\ Len(all) = b /\ \A i \in 1..b : all[i] = i
    BY <1>1, <1>2, <1>3 DEF first, rest, all
  <1>4. whole \in Seq(Nat) /\ Len(whole) = b
    <2>1. a + (b - a) = b
      OBVIOUS
    <2>2. whole \in Seq(Nat) /\ Len(whole) = Len(first) + Len(rest)
      BY <1>10
    <2> QED BY <1>10, <2>1, <2>2
  <1>5. ASSUME NEW i \in 1..b PROVE whole[i] = i
    <2>1. CASE i <= a
      BY <1>10, <2>1
    <2>2. CASE i > a
      <3>1. i - a \in 1..(b - a) /\ a + (i - a) = i
        BY <2>2
      <3>2. whole[i] = rest[i - a]
        BY <1>10, <2>2
      <3>3. rest[i - a] = a + (i - a)
        BY <1>10, <3>1
      <3> QED BY <3>1, <3>2, <3>3
    <2>3. i <= a \/ i > a
      OBVIOUS
    <2> QED BY <2>1, <2>2, <2>3
  <1> HIDE DEF whole
  <1>6. \A i \in 1..b : whole[i] = all[i]
    BY <1>10, <1>5
  <1>7. whole = all
    BY <1>10, <1>4, <1>6
  <1> QED BY <1>7 DEF whole, first, rest, all

\* A row is taken in its turn: one that has been read is skipped, the next one is added.
LEMMA TakenIs ==
    ASSUME NEW fs \in FetchState, NEW a \in Nat, fs.rows = Rows(0, a), fs.after = a,
           NEW r \in Nat \ {0}, r <= a + 1
    PROVE  Taken(fs, r) = [fs EXCEPT !.rows = Rows(0, IF r > a THEN r ELSE a),
                                     !.after = IF r > a THEN r ELSE a]
  <1>1. /\ fs.rows \in Seq(Nat) /\ Len(fs.rows) = a
        /\ \A i \in 1..a : fs.rows[i] = i
    BY FirstRowsAre
  <1>2. CASE r <= a
    <2>1. \E i \in 1..Len(fs.rows) : fs.rows[i] = r
      BY <1>1, <1>2
    <2>2. Taken(fs, r) = fs
      BY <2>1 DEF Taken
    <2>3. fs = [fs EXCEPT !.rows = fs.rows, !.after = fs.after]
      BY DEF FetchState
    <2>4. (IF r > a THEN r ELSE a) = a
      BY <1>2
    <2>5. [fs EXCEPT !.rows = Rows(0, IF r > a THEN r ELSE a), !.after = IF r > a THEN r ELSE a]
            = [fs EXCEPT !.rows = fs.rows, !.after = fs.after]
      BY <2>4
    <2> QED BY <2>2, <2>3, <2>5
  <1>3. CASE r > a
    <2>1. r = a + 1 /\ a + 1 \in Nat
      BY <1>3
    <2>2. ~\E i \in 1..Len(fs.rows) : fs.rows[i] = r
      BY <1>1, <2>1
    <2>3. Append(fs.rows, r) = Rows(0, a + 1)
      <3> DEFINE rows == fs.rows
                 all == Rows(0, a + 1)
      <3>1. /\ all \in Seq(Nat) /\ Len(all) = a + 1
            /\ \A i \in 1..(a + 1) : all[i] = i
        BY <2>1, FirstRowsAre
      <3>2. rows \in Seq(Nat) /\ Len(rows) = a /\ \A i \in 1..a : rows[i] = i
        BY <1>1
      <3> HIDE DEF rows, all
      <3>3. \A i \in 1..(a + 1) : Append(rows, r)[i] = all[i]
        BY <2>1, <3>1, <3>2
      <3>4. Append(rows, r) \in Seq(Nat) /\ Len(Append(rows, r)) = a + 1
        BY <3>2
      <3>5. Append(rows, r) = all
        BY <3>1, <3>3, <3>4
      <3> QED BY <3>5 DEF rows, all
    <2>4. (IF r > fs.after THEN r ELSE fs.after) = a + 1
      BY <2>1
    <2> QED BY <1>3, <2>1, <2>2, <2>3, <2>4 DEF Taken
  <1> QED BY <1>2, <1>3

\* The rows of a page, in turn.
Reading(fs, rows, g) ==
    g = [i \in 0..Len(rows) |-> IF i = 0 THEN fs ELSE Taken(g[i - 1], rows[i])]

\* How far a fetch has come that has read up to `to`.
ReadTo(fs, to) == [fs EXCEPT !.rows = Rows(0, IF to > fs.after THEN to ELSE fs.after),
                             !.after = IF to > fs.after THEN to ELSE fs.after]

LEMMA ReadToIs ==
    ASSUME NEW fs \in FetchState, NEW to \in Nat, fs.rows = Rows(0, fs.after)
    PROVE  LET m == IF to > fs.after THEN to ELSE fs.after
           IN  /\ m \in Nat
               /\ ReadTo(fs, to) \in FetchState
               /\ ReadTo(fs, to).rows = Rows(0, m)
               /\ ReadTo(fs, to).after = m
               /\ ReadTo(fs, to).pc = fs.pc
               /\ ReadTo(fs, to).style = fs.style
               /\ ReadTo(fs, to).pages = fs.pages
               /\ ReadTo(fs, to).cursor = fs.cursor
               /\ ReadTo(fs, to).announced = fs.announced
               /\ ReadTo(fs, to).rereading = fs.rereading
               /\ ReadTo(fs, to).reread = fs.reread
  <1> DEFINE m == IF to > fs.after THEN to ELSE fs.after
  <1>1. m \in Nat
    BY DEF FetchState
  <1>2. Rows(0, m) \in Seq(Nat)
    BY <1>1, FirstRowsAre
  <1> HIDE DEF m
  <1>3. PICK t : t = [fs EXCEPT !.rows = Rows(0, m), !.after = m]
    OBVIOUS
  <1>4. /\ t \in FetchState /\ t.rows = Rows(0, m) /\ t.after = m /\ t.pc = fs.pc /\ t.style = fs.style
        /\ t.pages = fs.pages /\ t.cursor = fs.cursor /\ t.announced = fs.announced
        /\ t.rereading = fs.rereading /\ t.reread = fs.reread
    BY <1>1, <1>2, <1>3 DEF FetchState
  <1>5. ReadTo(fs, to) = t
    BY <1>3 DEF ReadTo, m
  <1> QED BY <1>1, <1>4, <1>5 DEF m

LEMMA StepRead ==
    ASSUME NEW fs \in FetchState, NEW to \in Nat, fs.rows = Rows(0, fs.after),
           fs.after <= to + 1
    PROVE  Taken(ReadTo(fs, to), to + 1) = ReadTo(fs, to + 1)
  <1> DEFINE m == IF to > fs.after THEN to ELSE fs.after
             m2 == IF to + 1 > fs.after THEN to + 1 ELSE fs.after
  <1>1. PICK t : t = ReadTo(fs, to)
    OBVIOUS
  <1>2. t \in FetchState /\ t.rows = Rows(0, m) /\ t.after = m /\ m \in Nat
    BY <1>1, ReadToIs
  <1>3. to + 1 \in Nat \ {0} /\ to + 1 <= m + 1 /\ fs.after \in Nat
    BY DEF FetchState
  <1>4. Taken(t, to + 1) = [t EXCEPT !.rows = Rows(0, IF to + 1 > m THEN to + 1 ELSE m),
                                     !.after = IF to + 1 > m THEN to + 1 ELSE m]
    <2> HIDE DEF m, m2
    <2> QED BY <1>2, <1>3, TakenIs, Zenon
  <1>5. (IF to + 1 > m THEN to + 1 ELSE m) = m2
    BY <1>3
  <1>6. t = [fs EXCEPT !.rows = Rows(0, m), !.after = m]
    BY <1>1 DEF ReadTo
  <1>7. [t EXCEPT !.rows = Rows(0, m2), !.after = m2] = [fs EXCEPT !.rows = Rows(0, m2), !.after = m2]
    <2> HIDE DEF m, m2
    <2> QED BY <1>6 DEF FetchState
  <1>8. ReadTo(fs, to + 1) = [fs EXCEPT !.rows = Rows(0, m2), !.after = m2]
    BY DEF ReadTo
  <1> HIDE DEF m, m2
  <1> QED BY <1>1, <1>4, <1>5, <1>7, <1>8

LEMMA StartRead ==
    ASSUME NEW fs \in FetchState, NEW to \in Nat, fs.rows = Rows(0, fs.after), to <= fs.after
    PROVE  ReadTo(fs, to) = fs
  <1>1. (IF to > fs.after THEN to ELSE fs.after) = fs.after
    BY DEF FetchState
  <1>2. ReadTo(fs, to) = [fs EXCEPT !.rows = fs.rows, !.after = fs.after]
    BY <1>1 DEF ReadTo
  <1>3. fs = [x \in DOMAIN fs |-> fs[x]]
    BY DEF FetchState
  <1>4. [fs EXCEPT !.rows = fs.rows, !.after = fs.after] = fs
    BY <1>3
  <1> QED BY <1>2, <1>4

\* A page that continues the feed, or repeats the row that was asked for, brings the
\* fetch to its end.
LEMMA PageRead ==
    ASSUME NEW fs \in FetchState, fs.rows = Rows(0, fs.after),
           NEW from \in Nat, NEW to \in Nat, from <= to, from <= fs.after, fs.after <= from + 1
    PROVE  /\ \E g : Reading(fs, Rows(from, to), g)
           /\ \A g : Reading(fs, Rows(from, to), g) => g[Len(Rows(from, to))] = ReadTo(fs, to)
  <1> DEFINE rows == Rows(from, to)
             n == to - from
  <1>1. /\ n \in Nat /\ Len(rows) = n
        /\ \A i \in 1..n : rows[i] = from + i
    <2>1. to - from \in Nat
      OBVIOUS
    <2>2. /\ Len(Rows(from, to)) = to - from
          /\ \A i \in 1..(to - from) : Rows(from, to)[i] = from + i
      BY RowsAre
    <2> QED BY <2>1, <2>2
  <1>2. ReadTo(fs, from) = fs
    BY StartRead
  <1>3. ASSUME NEW i \in 1..n
        PROVE  Taken(ReadTo(fs, from + (i - 1)), rows[i]) = ReadTo(fs, from + i)
    <2>1. from + (i - 1) \in Nat /\ (from + (i - 1)) + 1 = from + i /\ fs.after <= (from + (i - 1)) + 1
      BY DEF FetchState
    <2> QED BY <1>1, <2>1, StepRead
  <1> HIDE DEF rows, n
  <1>4. \E g : Reading(fs, rows, g)
    <2> DEFINE g == [i \in 0..n |-> ReadTo(fs, from + i)]
    <2>1. ASSUME NEW i \in 0..n
          PROVE  g[i] = IF i = 0 THEN fs ELSE Taken(g[i - 1], rows[i])
      <3>1. CASE i = 0
        <4>1. from + 0 = from
          OBVIOUS
        <4> QED BY <1>2, <3>1, <4>1
      <3>2. CASE i # 0
        <4>1. i \in 1..n /\ i - 1 \in 0..n
          BY <1>1, <3>2
        <4> QED BY <1>3, <3>2, <4>1
      <3> QED BY <3>1, <3>2
    <2>2. g = [i \in 0..n |-> g[i]]
      OBVIOUS
    <2> HIDE DEF g
    <2>3. g = [i \in 0..n |-> IF i = 0 THEN fs ELSE Taken(g[i - 1], rows[i])]
      BY <2>1, <2>2, Zenon
    <2> QED BY <1>1, <2>3 DEF Reading
  <1>5. ASSUME NEW g, Reading(fs, rows, g)
        PROVE  g[n] = ReadTo(fs, to)
    <2>1. g = [i \in 0..n |-> IF i = 0 THEN fs ELSE Taken(g[i - 1], rows[i])]
      BY <1>1, <1>5 DEF Reading
    <2> DEFINE S == {i \in Nat : i <= n => g[i] = ReadTo(fs, from + i)}
    <2>2. 0 \in S
      <3>1. 0 \in 0..n /\ from + 0 = from
        BY <1>1
      <3>2. g[0] = fs
        BY <2>1, <3>1
      <3> QED BY <1>2, <3>1, <3>2
    <2>3. ASSUME NEW i \in S PROVE i + 1 \in S
      <3>1. CASE i + 1 <= n
        <4>1. i + 1 \in 0..n /\ i + 1 # 0 /\ (i + 1) - 1 = i /\ i + 1 \in 1..n /\ i <= n /\ i + 1 \in Nat
          BY <1>1, <3>1
        <4>2. g[i + 1] = Taken(g[(i + 1) - 1], rows[i + 1])
          BY <2>1, <4>1
        <4>3. g[i] = ReadTo(fs, from + i)
          BY <4>1
        <4>4. Taken(ReadTo(fs, from + i), rows[i + 1]) = ReadTo(fs, from + (i + 1))
          BY <1>3, <4>1
        <4> QED BY <4>1, <4>2, <4>3, <4>4
      <3>2. CASE ~(i + 1 <= n)
        <4>1. i + 1 \in Nat
          OBVIOUS
        <4> QED BY <3>2, <4>1
      <3> QED BY <3>1, <3>2
    <2>4. S \in SUBSET Nat
      OBVIOUS
    <2>5. S = Nat
      <3> HIDE DEF S
      <3> QED BY <2>2, <2>3, <2>4, Induction
    <2>6. n \in S
      BY <1>1, <2>5
    <2>7. g[n] = ReadTo(fs, from + n)
      BY <1>1, <2>6
    <2>8. from + n = to
      BY DEF n
    <2> QED BY <2>7, <2>8
  <1> QED BY <1>1, <1>4, <1>5 DEF rows

LEMMA OnArrayIs ==
    ASSUME NEW fs \in FetchState, fs.rows = Rows(0, fs.after),
           NEW from \in Nat, NEW to \in Nat, from <= to, from <= fs.after, fs.after <= from + 1,
           NEW body, body.rows = Rows(from, to)
    PROVE  OnArray(fs, body) =
             IF to - from < PageSize THEN OnEnd(ReadTo(fs, to))
             ELSE IF ReadTo(fs, to).after = fs.after THEN Failed
             ELSE [ReadTo(fs, to) EXCEPT !.pc = "loop"]
  <1> DEFINE read[i \in 0..Len(body.rows)] ==
               IF i = 0 THEN fs ELSE Taken(read[i - 1], body.rows[i])
             grown == read[Len(body.rows)]
  <1>1. Reading(fs, body.rows, read)
    <2>1. \E g : g = [i \in 0..Len(body.rows) |-> IF i = 0 THEN fs ELSE Taken(g[i - 1], body.rows[i])]
      <3>1. \E g : Reading(fs, Rows(from, to), g)
        BY PageRead
      <3> QED BY <3>1, Zenon DEF Reading
    <2> QED BY <2>1, Zenon DEF Reading
  <1>2. grown = ReadTo(fs, to)
    <2> HIDE DEF read
    <2> QED BY <1>1, PageRead
  <1>3. Len(body.rows) = to - from
    BY RowsAre
  <1>4. OnArray(fs, body) = IF Len(body.rows) < PageSize THEN OnEnd(grown)
             ELSE IF grown.after = fs.after THEN Failed
             ELSE [grown EXCEPT !.pc = "loop"]
    BY DEF OnArray
  <1> HIDE DEF grown
  <1> QED BY <1>2, <1>3, <1>4

\* What a fetch may make of an answer: an error, a new scan, the whole feed, or the next
\* page to ask for.
Follows(fs, s) ==
    /\ fs \in FetchState
    /\ \/ fs = Failed
       \/ /\ fs.pc = "loop" /\ fs.style = "envelope" /\ fs.after = 0 /\ fs.cursor = NoCursor
          /\ fs.rows = <<>> /\ fs.announced = Unknown /\ ~fs.reread /\ ~fs.rereading
       \/ fs.pc = "ok" /\ (~s.lied => fs.rows = Rows(0, s.size))
       \/ /\ fs.pc = "loop" /\ fs.style = "envelope" /\ fs.after = 0 /\ fs.cursor # NoCursor
          /\ fs.announced = s.count /\ (~s.lied => WithScan(fs, s, fs.rows))
       \/ /\ fs.pc = "loop" /\ fs.style = "array" /\ fs.after # 0
          /\ fs.after <= s.size /\ fs.rows = Rows(0, fs.after)
          /\ fs.cursor = NoCursor /\ fs.announced = Unknown /\ ~fs.reread /\ ~fs.rereading

LEMMA ConstantsAre ==
    /\ NoCursor = 0 /\ Unknown \in Nat /\ OddCursor \in Nat \ {0} /\ NoCursor \in Nat
    /\ PageSize \in Nat /\ PageSize > 0 /\ MaxPages \in Nat
    /\ \A n \in 0..MaxRows : n # Unknown /\ n \in Nat
  BY BudgetsAreCounted DEF NoCursor, Unknown, OddCursor

LEMMA EmptyRows == Rows(0, 0) = <<>> /\ <<>> \in Seq(Nat) /\ Len(<<>>) = 0
  <1>1. 0 \in Nat
    OBVIOUS
  <1>2. Rows(0, 0) = <<>>
    BY <1>1, FirstRowsAre
  <1> QED BY <1>2

LEMMA FailedIs ==
    /\ Failed \in FetchState /\ Failed.pc = "error" /\ Failed.rows = <<>> /\ Failed.after = 0
    /\ Failed.cursor = NoCursor /\ Failed.announced = Unknown /\ Failed.style = "envelope"
    /\ ~Failed.reread /\ ~Failed.rereading /\ Failed.pages = 0 /\ Failed.seen = {}
  <1> USE ConstantsAre, EmptyRows
  <1> QED BY DEF Failed, FetchState, Style

LEMMA ReturnedIs ==
    ASSUME NEW fs \in FetchState
    PROVE  /\ Returned(fs) \in FetchState /\ Returned(fs).pc = "ok"
           /\ Returned(fs).rows = fs.rows
  <1>1. fs.rows \in Seq(Nat)
    BY DEF FetchState
  <1>2. PICK t : t = [Failed EXCEPT !.pc = "ok", !.rows = fs.rows]
    OBVIOUS
  <1>3. t \in FetchState /\ t.pc = "ok" /\ t.rows = fs.rows
    BY <1>1, <1>2, FailedIs DEF FetchState
  <1> QED BY <1>2, <1>3 DEF Returned

LEMMA RestartFollows ==
    ASSUME NEW fs \in FetchState, fs.style = "envelope", fs.after = 0, NEW s
    PROVE  Follows(Restart(fs), s)
  <1>1. CASE fs.restarts < ScanRestarts
    <2>1. PICK t : t = [fs EXCEPT !.pc = "loop", !.restarts = @ + 1, !.rows = <<>>]
      OBVIOUS
    <2>2. t \in FetchState /\ t.pc = "loop" /\ t.style = "envelope" /\ t.after = 0 /\ t.rows = <<>>
      <3>1. fs.restarts + 1 \in Nat /\ <<>> \in Seq(Nat)
        BY EmptyRows DEF FetchState
      <3> DEFINE more == fs.restarts + 1
                 none == <<>>
      <3>2. more \in Nat /\ none \in Seq(Nat) /\ t = [fs EXCEPT !.pc = "loop", !.restarts = more, !.rows = none]
        BY <2>1, <3>1
      <3> HIDE DEF more, none
      <3>3. t \in FetchState /\ t.pc = "loop" /\ t.style = "envelope" /\ t.after = 0 /\ t.rows = none
        BY <3>2 DEF FetchState
      <3> QED BY <3>3 DEF none
    <2>3. PICK u : u = FreshScan(t)
      OBVIOUS
    <2>4. /\ u \in FetchState /\ u.pc = "loop" /\ u.style = "envelope" /\ u.after = 0 /\ u.rows = <<>>
          /\ u.cursor = NoCursor /\ u.announced = Unknown /\ ~u.reread /\ ~u.rereading
      BY <2>2, <2>3, ConstantsAre DEF FreshScan, FetchState
    <2>5. Restart(fs) = u
      BY <1>1, <2>1, <2>3 DEF Restart
    <2> QED BY <2>4, <2>5 DEF Follows
  <1>2. CASE ~(fs.restarts < ScanRestarts)
    <2>1. Restart(fs) = Failed
      BY <1>2 DEF Restart
    <2> QED BY <2>1, FailedIs DEF Follows
  <1> QED BY <1>1, <1>2

\* A scan that ends where the server has ended it, truly, holds the whole feed or starts
\* over.
LEMMA OnEndFollows ==
    ASSUME NEW fs \in FetchState, NEW s \in ServerState,
           fs.reread => fs.style = "envelope" /\ fs.after = 0,
           ~s.lied =>
             \/ fs.rows = Rows(0, s.size)
             \/ fs.reread /\ fs.announced = s.size /\ Len(fs.rows) < s.size
    PROVE  Follows(OnEnd(fs), s)
  <1>1. CASE fs.reread /\ fs.announced # Unknown /\ Len(fs.rows) # fs.announced
    <2>1. OnEnd(fs) = Restart(fs)
      BY <1>1 DEF OnEnd
    <2> QED BY <1>1, <2>1, RestartFollows
  <1>2. CASE ~(fs.reread /\ fs.announced # Unknown /\ Len(fs.rows) # fs.announced)
    <2>1. OnEnd(fs) = Returned(fs)
      BY <1>2 DEF OnEnd
    <2>2. s.size \in 0..MaxRows /\ s.size # Unknown
      BY ConstantsAre DEF ServerState
    <2>3. ~s.lied => fs.rows = Rows(0, s.size)
      BY <1>2, <2>2
    <2> QED BY <2>1, <2>3, ReturnedIs DEF Follows
  <1> QED BY <1>1, <1>2

LEMMA ArrayFollows ==
    ASSUME NEW fs \in FetchState, NEW s \in ServerState, fs.pc = "asking", fs.style = "array",
           NEW r, r.served > 0, ArrayHeld(fs, s, r)
    PROVE  Follows(OnPage(fs, s), s)
  <1>1. PICK from \in 0..fs.after :
          fs.after <= from + 1 /\ s.body.rows = Rows(from, Least(from + PageSize, s.size))
    BY DEF ArrayHeld
  <1> DEFINE to == Least(from + PageSize, s.size)
             grown == ReadTo(fs, to)
  <1>2. /\ fs.after \in Nat /\ fs.after <= s.size /\ fs.rows = Rows(0, fs.after)
        /\ fs.cursor = NoCursor /\ fs.announced = Unknown /\ ~fs.reread /\ ~fs.rereading
        /\ s.body.shape = "array" /\ s.size \in Nat /\ from \in Nat
    BY DEF ArrayHeld, FetchState, ServerState
  <1>3. to \in Nat /\ from <= to /\ to <= s.size /\ (to - from < PageSize => to = s.size)
    BY <1>1, <1>2, ConstantsAre DEF Least
  <1> HIDE DEF to
  <1>4. OnPage(fs, s) = OnArray(fs, s.body)
    BY <1>2 DEF OnPage
  <1>5. OnArray(fs, s.body) =
          IF to - from < PageSize THEN OnEnd(grown)
          ELSE IF grown.after = fs.after THEN Failed
          ELSE [grown EXCEPT !.pc = "loop"]
    <2>1. s.body.rows = Rows(from, to)
      BY <1>1 DEF to
    <2>2. PICK body : body = s.body
      OBVIOUS
    <2> QED BY <1>1, <1>2, <1>3, <2>1, <2>2, OnArrayIs
  <1> DEFINE m == IF to > fs.after THEN to ELSE fs.after
  <1>6. /\ m \in Nat /\ grown \in FetchState /\ grown.rows = Rows(0, m) /\ grown.after = m
        /\ grown.style = "array"
        /\ grown.cursor = NoCursor /\ grown.announced = Unknown /\ ~grown.rereading
        /\ ~grown.reread
    BY <1>2, <1>3, ReadToIs
  <1>7. m <= s.size /\ m >= fs.after /\ (to = s.size => m = s.size)
    BY <1>2, <1>3
  <1> HIDE DEF grown, m
  <1>8. CASE to - from < PageSize
    <2>1. m = s.size
      BY <1>3, <1>7, <1>8
    <2> QED BY <1>4, <1>5, <1>6, <1>8, <2>1, OnEndFollows
  <1>9. CASE ~(to - from < PageSize) /\ grown.after = fs.after
    BY <1>4, <1>5, <1>9, FailedIs DEF Follows
  <1>10. CASE ~(to - from < PageSize) /\ grown.after # fs.after
    <2>1. PICK t : t = [grown EXCEPT !.pc = "loop"]
      OBVIOUS
    <2>2. /\ t \in FetchState /\ t.pc = "loop" /\ t.rows = Rows(0, m) /\ t.after = m /\ t.style = "array"
          /\ t.cursor = NoCursor /\ t.announced = Unknown /\ ~t.rereading /\ ~t.reread
      BY <1>6, <2>1 DEF FetchState
    <2>3. m # 0
      BY <1>2, <1>6, <1>7, <1>10
    <2>4. Follows(t, s)
      BY <1>7, <2>2, <2>3 DEF Follows
    <2> QED BY <1>4, <1>5, <1>10, <2>1, <2>4
  <1> QED BY <1>8, <1>9, <1>10

\* What an answered page says to the fetch that asked for it.
EnvelopePage(fs, s) ==
    /\ ~s.lied =>
         /\ WithScan(fs, s, fs.rows \o s.body.rows)
         /\ s.body.cursor = NoCursor => s.pos = s.size
         /\ s.body.rows = <<>> =>
              \/ s.pos = s.size
              \/ s.count = s.size /\ s.body.shape = "envelope" /\ s.body.cursor # NoCursor
    /\ s.body.shape \in {"envelope", "empty"}
    /\ s.body.shape = "empty" => s.body.cursor = NoCursor /\ s.body.rows = <<>>

LEMMA NoMoreRows == \A rows \in Seq(Nat) : rows \o <<>> = rows
  OBVIOUS

LEMMA EnvelopeFollows ==
    ASSUME NEW fs \in FetchState, NEW s \in ServerState, fs.pc = "asking", fs.style = "envelope",
           fs.after = 0, s.pos <= s.size, s.count \in {Unknown, s.size},
           fs.cursor = NoCursor => fs.announced = Unknown /\ ~fs.reread,
           fs.cursor # NoCursor => fs.announced = s.count,
           EnvelopePage(fs, s)
    PROVE  Follows(OnPage(fs, s), s)
  <1>1. /\ s.size \in 0..MaxRows /\ s.size # Unknown /\ s.size \in Nat /\ s.pos \in Nat
        /\ s.body.rows \in Seq(Nat) /\ s.body.cursor \in Nat /\ s.count \in Nat
    BY ConstantsAre DEF ServerState
  <1>2. CASE s.body.shape = "empty"
    <2>1. OnPage(fs, s) = OnEnd(fs)
      BY <1>2 DEF OnPage
    <2>2. s.body.rows = <<>> /\ s.body.cursor = NoCursor
      BY <1>2 DEF EnvelopePage
    <2>3. fs.rows \o s.body.rows = fs.rows
      <3>1. fs.rows \in Seq(Nat)
        BY DEF FetchState
      <3> QED BY <2>2, <3>1, NoMoreRows
    <2>4. ~s.lied => s.pos = s.size /\ WithScan(fs, s, fs.rows)
      BY <2>2, <2>3 DEF EnvelopePage
    <2>5. ~s.lied => \/ fs.rows = Rows(0, s.size)
                     \/ fs.reread /\ fs.announced = s.size /\ Len(fs.rows) < s.size
      BY <2>4 DEF WithScan
    <2> QED BY <2>1, <2>5, OnEndFollows
  <1>3. CASE s.body.shape = "envelope"
    <2> DEFINE rows == fs.rows \o s.body.rows
               announced == IF fs.announced = Unknown /\ s.body.cursor # NoCursor
                            THEN s.count ELSE fs.announced
    <2>1. PICK grown : grown = [fs EXCEPT !.rows = rows, !.announced = announced, !.rereading = FALSE]
      OBVIOUS
    <2>2. rows \in Seq(Nat) /\ announced \in Nat
      BY <1>1 DEF FetchState
    <2> HIDE DEF rows, announced
    <2>3. /\ grown \in FetchState /\ grown.rows = rows /\ grown.announced = announced
          /\ grown.pc = "asking" /\ grown.style = "envelope" /\ grown.after = 0
          /\ grown.reread = fs.reread /\ grown.cursor = fs.cursor /\ grown.seen = fs.seen
      BY <2>1, <2>2 DEF FetchState
    <2>4. OnPage(fs, s) =
            IF s.body.rows = <<>>
            THEN IF grown.announced # Unknown /\ Len(grown.rows) < grown.announced
                 THEN Restart(grown)
                 ELSE OnEnd(grown)
            ELSE IF s.body.cursor = NoCursor THEN OnEnd(grown)
            ELSE IF s.body.cursor \in fs.seen \union {fs.cursor, OddCursor}
            THEN Failed
            ELSE [grown EXCEPT !.pc = "loop", !.cursor = s.body.cursor,
                               !.seen = @ \union {s.body.cursor}]
      BY <1>3, <2>1 DEF OnPage, OnEnvelope, rows, announced
    <2>5. /\ announced \in {Unknown, s.size}
          /\ s.body.cursor # NoCursor => announced = s.count
          /\ fs.announced # Unknown => announced = fs.announced
          /\ fs.reread => fs.announced = s.count
      BY <1>1 DEF announced
    <2>6. ~s.lied => WithScan(fs, s, rows)
      BY DEF EnvelopePage, rows
    <2>7. ~s.lied => WithScan(grown, s, grown.rows)
      BY <2>3, <2>5, <2>6 DEF WithScan
    <2>8. grown.reread => grown.style = "envelope" /\ grown.after = 0
      BY <2>3
    <2>9. ASSUME ~s.lied => s.pos = s.size
          PROVE  Follows(OnEnd(grown), s)
      <3>1. ~s.lied => \/ grown.rows = Rows(0, s.size)
                       \/ grown.reread /\ grown.announced = s.size /\ Len(grown.rows) < s.size
        BY <2>3, <2>5, <2>7, <2>9 DEF WithScan
      <3> QED BY <2>3, <2>8, <3>1, OnEndFollows
    <2>10. CASE s.body.rows = <<>>
      <3>1. CASE grown.announced # Unknown /\ Len(grown.rows) < grown.announced
        BY <2>3, <2>4, <2>10, <3>1, RestartFollows
      <3>2. CASE ~(grown.announced # Unknown /\ Len(grown.rows) < grown.announced)
        <4>1. ASSUME ~s.lied, s.pos # s.size PROVE FALSE
          <5>1. s.count = s.size /\ s.body.cursor # NoCursor
            BY <2>10, <4>1 DEF EnvelopePage
          <5>2. grown.announced = s.size /\ grown.announced # Unknown
            BY <1>1, <2>3, <2>5, <5>1
          <5>3. Len(grown.rows) \in Nat /\ Len(grown.rows) >= s.size
            BY <1>1, <2>3, <2>2, <3>2, <5>2
          <5>4. s.pos < s.size
            BY <1>1, <4>1
          <5>5. CASE grown.rows = Rows(0, s.pos)
            <6>1. Len(grown.rows) = s.pos
              BY <1>1, <5>5, FirstRowsAre
            <6> QED BY <1>1, <5>3, <5>4, <6>1
          <5>6. CASE Len(grown.rows) < s.pos
            BY <1>1, <5>3, <5>4, <5>6
          <5> QED BY <2>7, <4>1, <5>5, <5>6 DEF WithScan
        <4> QED BY <2>4, <2>9, <2>10, <3>2, <4>1
      <3> QED BY <3>1, <3>2
    <2>11. CASE s.body.rows # <<>> /\ s.body.cursor = NoCursor
      <3>1. ~s.lied => s.pos = s.size
        BY <2>11 DEF EnvelopePage
      <3> QED BY <2>4, <2>9, <2>11, <3>1
    <2>12. CASE s.body.rows # <<>> /\ s.body.cursor # NoCursor
      <3>1. CASE s.body.cursor \in fs.seen \union {fs.cursor, OddCursor}
        BY <2>4, <2>12, <3>1, FailedIs DEF Follows
      <3>2. CASE ~(s.body.cursor \in fs.seen \union {fs.cursor, OddCursor})
        <4> DEFINE seen2 == grown.seen \union {s.body.cursor}
        <4>1. PICK t : t = [grown EXCEPT !.pc = "loop", !.cursor = s.body.cursor, !.seen = seen2]
          OBVIOUS
        <4>2. seen2 \in SUBSET (Nat \ {0}) /\ s.body.cursor \in Nat
          BY <1>1, <2>3, <2>12, ConstantsAre DEF FetchState
        <4>3. OnPage(fs, s) = t
          BY <2>3, <2>4, <2>12, <3>2, <4>1
        <4> HIDE DEF seen2
        <4>4. /\ t \in FetchState /\ t.pc = "loop" /\ t.style = "envelope" /\ t.after = 0
              /\ t.cursor = s.body.cursor /\ t.announced = announced /\ t.reread = grown.reread
              /\ t.rows = grown.rows
          BY <2>3, <4>1, <4>2 DEF FetchState
        <4>5. ~s.lied => WithScan(t, s, t.rows)
          BY <2>3, <2>7, <4>4 DEF WithScan
        <4>6. t.cursor # NoCursor /\ t.announced = s.count
          BY <2>5, <2>12, <4>4
        <4> QED BY <4>3, <4>4, <4>5, <4>6 DEF Follows
      <3> QED BY <3>1, <3>2
    <2> QED BY <2>10, <2>11, <2>12
  <1> QED BY <1>2, <1>3 DEF EnvelopePage

\* A request of a scan that failed: the page is asked for again where the count can show
\* what was missed.
LEMMA ErrorFollows ==
    ASSUME NEW fs \in FetchState, NEW s \in ServerState, NEW r, Held(fs, s, r),
           fs.pc = "asking", r.served \in Nat
    PROVE  Follows(OnError(fs, r.result), s)
  <1>0. s.pos \in Nat /\ s.size \in Nat /\ s.body.rows \in Seq(Nat) /\ fs.rows \in Seq(Nat)
    BY DEF ServerState, FetchState
  <1>1. CASE ~fs.rereading /\ fs.rereads < PageRereads /\ fs.announced # Unknown /\ r.result = "lost"
    <2>1. fs.style = "envelope" /\ fs.cursor # NoCursor /\ EnvelopeHeld(fs, s, r)
      BY <1>1 DEF Held, ArrayHeld, FetchState, Style
    <2>2. PICK t : t = [fs EXCEPT !.pc = "loop", !.rereads = @ + 1, !.rereading = TRUE, !.reread = TRUE]
      OBVIOUS
    <2>3. fs.rereads + 1 \in Nat
      BY DEF FetchState
    <2>4. /\ t \in FetchState /\ t.pc = "loop" /\ t.style = "envelope" /\ t.after = 0
          /\ t.cursor = fs.cursor /\ t.announced = fs.announced /\ t.rows = fs.rows /\ t.reread
      BY <2>1, <2>2, <2>3 DEF FetchState, EnvelopeHeld
    <2>5. OnError(fs, r.result) = t
      BY <1>1, <2>2 DEF OnError
    <2>6. ASSUME ~s.lied PROVE WithScan(t, s, t.rows)
      <3>1. CASE r.served = 0
        <4>1. WithScan(fs, s, fs.rows)
          BY <2>1, <2>6, <3>1 DEF EnvelopeHeld
        <4> QED BY <1>1, <2>4, <4>1 DEF WithScan
      <3>2. CASE r.served > 0
        <4>1. WithScan(fs, s, fs.rows \o s.body.rows)
          BY <2>1, <2>6, <3>2 DEF EnvelopeHeld
        <4>2. CASE s.body.rows = <<>>
          <5>1. fs.rows \o s.body.rows = fs.rows
            BY <1>0, <4>2, NoMoreRows
          <5> QED BY <1>1, <2>4, <4>1, <5>1 DEF WithScan
        <4>3. CASE s.body.rows # <<>>
          <5> DEFINE now == Len(fs.rows)
                     page == Len(s.body.rows)
                     then == Len(fs.rows \o s.body.rows)
                     pos == s.pos
          <5>1. page > 0 /\ page \in Nat /\ now \in Nat /\ pos \in Nat
            BY <1>0, <4>3
          <5>2. then = now + page
            BY <1>0
          <5>3. then = pos \/ then < pos
            BY <1>0, <4>1, FirstRowsAre DEF WithScan
          <5>4. now < pos
            <6> HIDE DEF now, page, then, pos
            <6> QED BY <5>1, <5>2, <5>3
          <5> QED BY <1>1, <2>4, <5>4 DEF WithScan
        <4> QED BY <4>2, <4>3
      <3> QED BY <3>1, <3>2
    <2>7. t.announced = s.count
      BY <2>1, <2>4 DEF EnvelopeHeld
    <2> QED BY <2>1, <2>4, <2>5, <2>6, <2>7 DEF Follows
  <1>2. CASE ~(~fs.rereading /\ fs.rereads < PageRereads /\ fs.announced # Unknown /\ r.result = "lost")
    <2>1. CASE fs.rereading \/ r.result \in {"lost", "lostServed"}
      <3>1. OnError(fs, r.result) = Restart(fs)
        BY <1>2, <2>1 DEF OnError
      <3>2. fs.style = "envelope" /\ fs.after = 0
        BY <2>1 DEF Held, ArrayHeld, EnvelopeHeld, FetchState, Style
      <3> QED BY <3>1, <3>2, RestartFollows
    <2>2. CASE ~(fs.rereading \/ r.result \in {"lost", "lostServed"})
      <3>1. OnError(fs, r.result) = Failed
        BY <1>2, <2>2 DEF OnError
      <3> QED BY <3>1, FailedIs DEF Follows
    <2> QED BY <2>1, <2>2
  <1> QED BY <1>1, <1>2

LEMMA FollowsHeld ==
    ASSUME NEW fs, NEW s \in ServerState, Follows(fs, s), s.pos <= s.size, s.count \in {Unknown, s.size},
           NEW t, t = IF fs.cursor # NoCursor \/ fs.pc = "ok" \/ fs.after # 0
                      THEN [s EXCEPT !.body = EmptyBody] ELSE NoScan(s)
    PROVE  Held(fs, t, NoCall)
  <1>1. EmptyBody \in [shape : {"empty", "envelope", "array"}, rows : Seq(Nat), cursor : Nat]
    BY ConstantsAre, EmptyRows DEF EmptyBody
  <1>2. s.size \in Nat /\ s.size \in 0..MaxRows
    BY ConstantsAre DEF ServerState
  <1>3. /\ NoCall.pc = "idle" /\ NoCall.served = 0 /\ NoCall.result = "none"
    BY DEF NoCall
  <1>4. CASE fs.cursor # NoCursor \/ fs.pc = "ok" \/ fs.after # 0
    <2>1. t = [s EXCEPT !.body = EmptyBody]
      BY <1>4
    <2>2. /\ t \in ServerState /\ t.size = s.size /\ t.pos = s.pos /\ t.count = s.count /\ t.lied = s.lied
      BY <1>1, <2>1 DEF ServerState
    <2>3. \A rows : WithScan(fs, s, rows) => WithScan(fs, t, rows)
      BY <2>2 DEF WithScan
    <2>4. \/ fs.pc = "ok" /\ (~s.lied => fs.rows = Rows(0, s.size))
          \/ /\ fs.pc = "loop" /\ fs.style = "envelope" /\ fs.after = 0 /\ fs.cursor # NoCursor
             /\ fs.announced = s.count /\ (~s.lied => WithScan(fs, s, fs.rows))
          \/ /\ fs.pc = "loop" /\ fs.style = "array"
             /\ fs.after <= s.size /\ fs.rows = Rows(0, fs.after)
             /\ fs.cursor = NoCursor /\ fs.announced = Unknown /\ ~fs.reread /\ ~fs.rereading
      BY <1>4, FailedIs DEF Follows
    <2>5. fs \in FetchState
      BY DEF Follows
    <2>6. fs.pc \in {"loop", "asking"} =>
            IF fs.style = "array" THEN ArrayHeld(fs, t, NoCall) ELSE EnvelopeHeld(fs, t, NoCall)
      BY <1>3, <2>2, <2>3, <2>4 DEF ArrayHeld, EnvelopeHeld
    <2> QED BY <1>3, <2>2, <2>4, <2>5, <2>6 DEF Held
  <1>5. CASE ~(fs.cursor # NoCursor \/ fs.pc = "ok" \/ fs.after # 0)
    <2>1. t = [s EXCEPT !.pos = 0, !.count = Unknown, !.cursor = 0, !.body = EmptyBody, !.lied = FALSE]
      BY <1>5 DEF NoScan
    <2>2. /\ t \in ServerState /\ t.size = s.size /\ t.pos = 0 /\ t.count = Unknown
      <3>1. PICK none, body : none = Unknown /\ body = EmptyBody
        OBVIOUS
      <3>2. none \in Nat /\ body \in [shape : {"empty", "envelope", "array"}, rows : Seq(Nat), cursor : Nat]
        BY <1>1, <3>1, ConstantsAre
      <3>3. t = [s EXCEPT !.pos = 0, !.count = none, !.cursor = 0, !.body = body, !.lied = FALSE]
        BY <2>1, <3>1
      <3>4. /\ s.size \in 0..MaxRows /\ s.counts \in BOOLEAN
            /\ s = [size |-> s.size, counts |-> s.counts, pos |-> s.pos, count |-> s.count,
                   cursor |-> s.cursor, body |-> s.body, lied |-> s.lied]
        BY DEF ServerState
      <3>5. t = [size |-> s.size, counts |-> s.counts, pos |-> 0, count |-> none, cursor |-> 0,
                 body |-> body, lied |-> FALSE]
        BY <3>3, <3>4
      <3>6. t \in ServerState /\ t.size = s.size /\ t.pos = 0 /\ t.count = none
        <4>1. PICK size \in 0..MaxRows, counts \in BOOLEAN, zero \in Nat, no \in BOOLEAN :
                size = s.size /\ counts = s.counts /\ zero = 0 /\ no = FALSE
          BY <3>4
        <4>2. t = [size |-> size, counts |-> counts, pos |-> zero, count |-> none, cursor |-> zero,
                   body |-> body, lied |-> no]
          BY <3>5, <4>1
        <4>3. t \in ServerState
          <5>1. [size |-> size, counts |-> counts, pos |-> zero, count |-> none,
                 cursor |-> zero, body |-> body, lied |-> no] \in ServerState
            BY <3>2, Zenon DEF ServerState
          <5> QED BY <4>2, <5>1
        <4>4. t.size = size /\ t.pos = zero /\ t.count = none
          BY <4>2
        <4> QED BY <4>1, <4>3, <4>4
      <3> QED BY <3>1, <3>6
    <2>3. /\ fs \in FetchState /\ fs.pc \in {"loop", "error"}
          /\ fs.pc = "loop" =>
               /\ fs.style = "envelope" /\ fs.after = 0 /\ fs.cursor = NoCursor
               /\ fs.rows = <<>> /\ fs.announced = Unknown /\ ~fs.reread /\ ~fs.rereading
      BY <1>5, FailedIs DEF Follows
    <2>4. fs.pc = "loop" => EnvelopeHeld(fs, t, NoCall)
      BY <1>3, <2>3 DEF EnvelopeHeld
    <2> QED BY <1>2, <1>3, <2>2, <2>3, <2>4 DEF Held
  <1> QED BY <1>4, <1>5

LEMMA CallIs ==
    ASSUME NEW r, Truthful(r), r.pc = "done"
    PROVE  /\ r \in Call /\ r.served \in Nat
           /\ r.result = "ok" => r.served > 0
  BY DEF Truthful, Call

LEMMA ReceivedHolds ==
    ASSUME NEW fs, NEW s, NEW r, Held(fs, s, r), Truthful(r), fs.pc = "asking", r.pc = "done",
           NEW fs2, fs2 = (IF r.result = "ok" THEN OnPage(fs, s) ELSE OnError(fs, r.result)),
           NEW t, t = IF fs2.cursor # NoCursor \/ fs2.pc = "ok" \/ fs2.after # 0
                      THEN [s EXCEPT !.body = EmptyBody] ELSE NoScan(s)
    PROVE  Held(fs2, t, NoCall)
  <1>1. /\ fs \in FetchState /\ s \in ServerState /\ s.pos <= s.size /\ s.count \in {Unknown, s.size}
    BY DEF Held
  <1>2. Follows(fs2, s)
    <2>1. CASE r.result # "ok"
      BY <1>1, <2>1, CallIs, ErrorFollows
    <2>2. CASE r.result = "ok" /\ fs.style = "array"
      BY <1>1, <2>2, CallIs, ArrayFollows DEF Held
    <2>3. CASE r.result = "ok" /\ fs.style = "envelope"
      <3>1. EnvelopeHeld(fs, s, r) /\ r.served > 0
        BY <2>3, CallIs DEF Held
      <3>2. EnvelopePage(fs, s)
        BY <3>1 DEF EnvelopeHeld, EnvelopePage
      <3> QED BY <1>1, <2>3, <3>1, <3>2, EnvelopeFollows DEF EnvelopeHeld
    <2> QED BY <1>1, <2>1, <2>2, <2>3 DEF FetchState, Style
  <1> QED BY <1>1, <1>2, FollowsHeld

\* A call on its way, or back, without an answer: nothing changes but how far it is.
LEMMA CallMovesHeld ==
    ASSUME NEW fs, NEW s, NEW r, Held(fs, s, r), NEW r2, r.pc # "idle", r2.pc # "idle",
           r2.kind = r.kind, r2.served = r.served,
           r2.result \in {"lost", "lostServed"} => r2.kind = "CursorPage"
    PROVE  Held(fs, s, r2)
  <1>1. ArrayHeld(fs, s, r) => ArrayHeld(fs, s, r2)
    BY DEF ArrayHeld
  <1>2. EnvelopeHeld(fs, s, r) => EnvelopeHeld(fs, s, r2)
    BY DEF EnvelopeHeld
  <1> QED BY <1>1, <1>2 DEF Held

LEMMA AskedHolds ==
    ASSUME NEW fs, NEW s, NEW r, Held(fs, s, r), fs.pc = "loop", fs.pages < MaxPages, 
           NEW kind, kind = IF fs.cursor # NoCursor THEN "CursorPage" ELSE "Idempotent"
    PROVE  Held([fs EXCEPT !.pc = "asking", !.pages = @ + 1], s,
                [NoCall EXCEPT !.pc = "paused", !.kind = kind])
  <1>1. fs \in FetchState /\ fs.pages + 1 \in 1..MaxPages /\ fs.pages + 1 \in Nat
    BY ConstantsAre DEF Held, FetchState
  <1>2. PICK t : t = [fs EXCEPT !.pc = "asking", !.pages = @ + 1]
    OBVIOUS
  <1>3. /\ t \in FetchState /\ t.pc = "asking" /\ t.pages = fs.pages + 1 /\ t.style = fs.style
        /\ t.rows = fs.rows /\ t.after = fs.after /\ t.cursor = fs.cursor
        /\ t.announced = fs.announced /\ t.rereading = fs.rereading /\ t.reread = fs.reread
    BY <1>1, <1>2 DEF FetchState
  <1>4. PICK u : u = [NoCall EXCEPT !.pc = "paused", !.kind = kind]
    OBVIOUS
  <1>5. u.pc = "paused" /\ u.kind = kind /\ u.served = 0 /\ u.result = "none"
    BY <1>4 DEF NoCall
  <1>6. r.pc = "idle" /\ r.served = 0
    BY DEF Held
  <1>7. \A rows : WithScan(fs, s, rows) => WithScan(t, s, rows)
    BY <1>3 DEF WithScan
  <1>8. ArrayHeld(fs, s, r) => ArrayHeld(t, s, u)
    BY <1>3, <1>5 DEF ArrayHeld
  <1>9. EnvelopeHeld(fs, s, r) => EnvelopeHeld(t, s, u)
    BY <1>3, <1>5, <1>6, <1>7 DEF EnvelopeHeld
  <1>10. Held(t, s, u)
    BY <1>1, <1>3, <1>5, <1>8, <1>9 DEF Held
  <1> QED BY <1>2, <1>4, <1>10

LEMMA BegunHolds ==
    ASSUME NEW fs, NEW s, NEW r, Held(fs, s, r), fs.pc \in {"ok", "error"}, NEW style \in Style
    PROVE  Held([Failed EXCEPT !.pc = "loop", !.style = style], s, r)
  <1>1. PICK t : t = [Failed EXCEPT !.pc = "loop", !.style = style]
    OBVIOUS
  <1>2. /\ t \in FetchState /\ t.pc = "loop" /\ t.style = style /\ t.rows = <<>> /\ t.after = 0
        /\ t.cursor = NoCursor /\ t.announced = Unknown /\ ~t.reread /\ ~t.rereading
    BY <1>1, FailedIs DEF FetchState
  <1>3. s.size \in Nat /\ 0 <= s.size
    BY DEF Held, ServerState
  <1>4. ArrayHeld(t, s, r) /\ EnvelopeHeld(t, s, r)
    BY <1>2, <1>3, EmptyRows DEF ArrayHeld, EnvelopeHeld
  <1> QED BY <1>1, <1>2, <1>4 DEF Held

LEMMA ForEverHolds ==
    ASSUME NEW fs, NEW s, NEW r, Held(fs, s, r), fs.pc = "loop"
    PROVE  Held(Failed, s, r)
  BY FailedIs DEF Held

\* The page the server turns to, from where the scan is.
LEMMA TurnedIs ==
    ASSUME NEW f \in Fetch, NEW r, Held(fetch[f], server[f], r), fetch[f].pc = "asking"
    PROVE  LET fs == fetch[f]
               s  == server[f]
               t  == TurnedPage(f)
           IN  \E from \in Nat :
                 /\ from = IF fs.cursor = NoCursor THEN 0 ELSE s.pos
                 /\ t \in ServerState /\ t.size = s.size /\ t.pos <= s.size /\ from <= t.pos
                 /\ from = t.pos => t.pos = s.size
                 /\ t.count \in {Unknown, s.size}
                 /\ fs.cursor # NoCursor => t.count = s.count
                 /\ t.body.shape = "envelope" /\ t.body.rows = Rows(from, t.pos)
                 /\ t.body.cursor \in Nat \ {0}
                 /\ t.lied = (fs.cursor # NoCursor /\ s.lied)
  <1> DEFINE fs == fetch[f]
             s == server[f]
             opens == fs.cursor = NoCursor
             from == IF opens THEN 0 ELSE Least(s.pos, s.size)
             to == Least(from + PageSize, s.size)
             next == IF opens THEN 1 ELSE Least(s.cursor + 1, MaxPages)
             count == IF opens THEN IF s.counts THEN s.size ELSE Unknown ELSE s.count
             body == [shape |-> "envelope", rows |-> Rows(from, to), cursor |-> next]
  <1>1. /\ s \in ServerState /\ s.size \in 0..MaxRows /\ s.size \in Nat /\ s.pos \in Nat /\ s.pos <= s.size
        /\ s.count \in {Unknown, s.size} /\ s.cursor \in Nat /\ MaxPages >= 1 /\ s.lied \in BOOLEAN
    BY ConstantsAre DEF Held, ServerState
  <1>2. from \in Nat /\ from <= s.size /\ from = IF opens THEN 0 ELSE s.pos
    BY <1>1 DEF Least
  <1> HIDE DEF from
  <1>3. to \in Nat /\ to <= s.size /\ from <= to /\ (from = to => to = s.size)
    BY <1>1, <1>2, ConstantsAre DEF Least
  <1>4. next \in Nat \ {0}
    BY <1>1, ConstantsAre DEF Least
  <1>5. count \in {Unknown, s.size} /\ count \in Nat /\ (fs.cursor # NoCursor => count = s.count)
    BY <1>1, ConstantsAre
  <1>6. Rows(from, to) \in Seq(Nat)
    BY <1>2, <1>3, RowsAre
  <1>7. TurnedPage(f) = [s EXCEPT !.pos = to, !.cursor = next, !.count = count,
                                  !.lied = ~opens /\ s.lied, !.body = body]
    BY DEF TurnedPage, from
  <1> HIDE DEF to, next, count, fs, s
  <1>8. body \in [shape : {"empty", "envelope", "array"}, rows : Seq(Nat), cursor : Nat]
    BY <1>4, <1>6
  <1>9. body.shape = "envelope" /\ body.rows = Rows(from, to) /\ body.cursor = next
    OBVIOUS
  <1> DEFINE lied == ~opens /\ s.lied
  <1>10. lied \in BOOLEAN
    OBVIOUS
  <1> HIDE DEF body, lied
  <1>11. PICK t : t = [s EXCEPT !.pos = to, !.cursor = next, !.count = count, !.lied = lied, !.body = body]
    OBVIOUS
  <1>12. /\ t \in ServerState /\ t.size = s.size /\ t.pos = to /\ t.count = count /\ t.body = body
         /\ t.lied = lied
    BY <1>1, <1>3, <1>4, <1>5, <1>8, <1>10, <1>11 DEF ServerState
  <1>13. TurnedPage(f) = t
    BY <1>7, <1>11 DEF lied
  <1>14. /\ t.pos <= s.size /\ from <= t.pos /\ (from = t.pos => t.pos = s.size)
         /\ t.count \in {Unknown, s.size} /\ (fs.cursor # NoCursor => t.count = s.count)
         /\ t.body.shape = "envelope" /\ t.body.rows = Rows(from, t.pos)
         /\ t.body.cursor \in Nat \ {0} /\ t.lied = (fs.cursor # NoCursor /\ s.lied)
    BY <1>3, <1>4, <1>5, <1>9, <1>12 DEF lied
  <1> QED BY <1>2, <1>12, <1>13, <1>14 DEF fs, s

\* An answer, of either kind of endpoint, as the fetch will find it.
Heard(fs, s, t) ==
    /\ t \in ServerState /\ t.size = s.size /\ t.pos <= s.size /\ t.count \in {Unknown, s.size}
    /\ fs.cursor # NoCursor => t.count = s.count
    /\ EnvelopePage(fs, t)

LEMMA EnvelopeHeard ==
    ASSUME NEW f \in Fetch, NEW r, Held(fetch[f], server[f], r), fetch[f].pc = "asking",
           fetch[f].style = "envelope", fetch[f].cursor # NoCursor => r.served = 0,
           NEW u \in EnvelopeAnswers(f)
    PROVE  Heard(fetch[f], server[f], u)
  <1> DEFINE fs == fetch[f]
             s == server[f]
  <1>1. PICK t : t = TurnedPage(f)
    OBVIOUS
  <1>2. PICK from \in Nat :
          /\ from = IF fs.cursor = NoCursor THEN 0 ELSE s.pos
          /\ t \in ServerState /\ t.size = s.size /\ t.pos <= s.size /\ from <= t.pos
          /\ from = t.pos => t.pos = s.size
          /\ t.count \in {Unknown, s.size}
          /\ fs.cursor # NoCursor => t.count = s.count
          /\ t.body.shape = "envelope" /\ t.body.rows = Rows(from, t.pos)
          /\ t.body.cursor \in Nat \ {0}
          /\ t.lied = (fs.cursor # NoCursor /\ s.lied)
    BY <1>1, TurnedIs
  <1>3. /\ fs \in FetchState /\ s \in ServerState /\ s.size \in Nat /\ t.pos \in Nat /\ t.count \in Nat
        /\ fs.rows \in Seq(Nat) /\ fs.seen \subseteq Nat \ {0} /\ s.pos \in Nat
        /\ t.lied \in BOOLEAN /\ EnvelopeHeld(fs, s, r)
    <2>1. fs \in FetchState /\ s \in ServerState
      BY DEF Held
    <2>2. EnvelopeHeld(fs, s, r)
      BY DEF Held
    <2> QED BY <1>2, <2>1, <2>2, ConstantsAre DEF FetchState, ServerState
  <1>4. /\ Rows(from, t.pos) \in Seq(Nat) /\ Len(Rows(from, t.pos)) = t.pos - from
        /\ Rows(from, t.pos) = <<>> <=> from = t.pos
    BY <1>2, <1>3, RowsAre
  \* Where the fetch is when it hears the answer.
  <1>5. ~t.lied => \/ fs.rows = Rows(0, from)
                   \/ fs.reread /\ fs.announced # Unknown /\ Len(fs.rows) < from
    <2>1. CASE fs.cursor = NoCursor
      BY <1>2, <1>3, <2>1, EmptyRows DEF EnvelopeHeld
    <2>2. CASE fs.cursor # NoCursor
      BY <1>2, <1>3, <2>2 DEF EnvelopeHeld, WithScan
    <2> QED BY <2>1, <2>2
  <1> DEFINE whole == t.pos = t.size
             back == from - Least(from, PageSize)
             last == Rows(back, from)
  <1>6. last \in Seq(Nat)
    <2>1. back \in Nat /\ back <= from
      BY <1>2, ConstantsAre DEF Least
    <2> HIDE DEF back
    <2> QED BY <1>2, <2>1, RowsAre
  <1>7. from = t.pos - Len(t.body.rows)
    BY <1>2, <1>3, <1>4
  <1>8. \/ u = t
        \/ u = [t EXCEPT !.body.cursor = NoCursor, !.lied = @ \/ ~whole]
        \/ u = [t EXCEPT !.body = EmptyBody, !.lied = @ \/ ~whole \/ t.body.rows # <<>>]
        \/ u = [t EXCEPT !.body.rows = <<>>, !.pos = from,
                         !.lied = @ \/ (t.body.rows # <<>> /\ t.count = Unknown)]
        \/ u = [t EXCEPT !.body.rows = last, !.pos = from, !.lied = TRUE]
        \/ \E c \in Nat \ {0} : u = [t EXCEPT !.body.cursor = c]
    <2> DEFINE place == t.pos - Len(t.body.rows)
    <2>1. u \in {t,
         [t EXCEPT !.body.cursor = NoCursor, !.lied = @ \/ ~whole],
         [t EXCEPT !.body = EmptyBody, !.lied = @ \/ ~whole \/ t.body.rows # <<>>],
         [t EXCEPT !.body.rows = <<>>, !.pos = place,
                   !.lied = @ \/ (t.body.rows # <<>> /\ t.count = Unknown)],
         [t EXCEPT !.body.rows = Rows(place - Least(place, PageSize), place), !.pos = place,
                   !.lied = TRUE],
         [t EXCEPT !.body.cursor = OddCursor]}
        \union {[t EXCEPT !.body.cursor = c] : c \in fetch[f].seen}
      BY <1>1 DEF EnvelopeAnswers
    <2>2. place = from
      BY <1>7
    <2> HIDE DEF place, whole
    <2> QED BY <1>3, <2>1, <2>2, ConstantsAre
  <1>9. s.size # Unknown /\ t.size = s.size
    BY <1>2, ConstantsAre DEF ServerState
  \* The page itself.
  <1>10. ~t.lied => WithScan(fs, t, fs.rows \o Rows(from, t.pos))
    <2>1. ASSUME fs.rows = Rows(0, from) PROVE WithScan(fs, t, fs.rows \o Rows(from, t.pos))
      BY <1>2, <1>3, <2>1, RowsJoin DEF WithScan
    <2>2. ASSUME fs.reread, fs.announced # Unknown, Len(fs.rows) < from
          PROVE WithScan(fs, t, fs.rows \o Rows(from, t.pos))
      <3> DEFINE now == Len(fs.rows)
                 then == Len(fs.rows \o Rows(from, t.pos))
                 pos == t.pos
      <3>1. then = now + (pos - from) /\ now \in Nat /\ pos \in Nat /\ now < from
        <4>1. PICK page : page = Rows(from, t.pos)
          OBVIOUS
        <4>2. page \in Seq(Nat) /\ Len(page) = pos - from
          BY <1>4, <4>1
        <4>3. Len(fs.rows \o page) = Len(fs.rows) + Len(page)
          <5>1. PICK mine : mine = fs.rows
            OBVIOUS
          <5>2. mine \in Seq(Nat) /\ page \in Seq(Nat)
            BY <1>3, <1>4, <4>1, <5>1
          <5>3. Len(mine \o page) = Len(mine) + Len(page)
            BY <5>2
          <5> QED BY <5>1, <5>3
        <4> QED BY <1>3, <2>2, <4>1, <4>2, <4>3
      <3>2. then < pos
        <4> HIDE DEF now, then, pos
        <4> QED BY <3>1
      <3> QED BY <2>2, <3>2 DEF WithScan
    <2> QED BY <1>5, <2>1, <2>2
  <1> HIDE DEF last, whole
  <1>11. /\ t.body \in [shape : {"empty", "envelope", "array"}, rows : Seq(Nat), cursor : Nat]
    BY <1>2 DEF ServerState
  \* An answer that says the page, under some cursor.
  <1>12. ASSUME NEW c \in Nat, NEW lied \in BOOLEAN, u = [t EXCEPT !.body.cursor = c, !.lied = lied],
                ~lied => ~t.lied, c = 0 /\ ~lied => t.pos = t.size
         PROVE  Heard(fs, s, u)
    <2>1. /\ u \in ServerState /\ u.size = t.size /\ u.pos = t.pos /\ u.count = t.count /\ u.lied = lied
          /\ u.body.cursor = c /\ u.body.rows = t.body.rows /\ u.body.shape = "envelope"
      BY <1>2, <1>11, <1>12 DEF ServerState
    <2>2. ~u.lied => WithScan(fs, u, fs.rows \o u.body.rows)
      BY <1>2, <1>10, <1>12, <2>1 DEF WithScan
    <2>3. u.body.rows = <<>> => u.pos = u.size
      BY <1>2, <1>4, <1>9, <2>1
    <2>4. u.body.cursor = NoCursor /\ ~u.lied => u.pos = u.size
      BY <1>12, <2>1, ConstantsAre
    <2>5. EnvelopePage(fs, u)
      BY <2>1, <2>2, <2>3, <2>4 DEF EnvelopePage
    <2> QED BY <1>2, <2>1, <2>5 DEF Heard
  \* An answer without rows, which leaves the scan where it was.
  <1>13. ASSUME NEW body \in [shape : {"empty", "envelope"}, rows : {<<>>}, cursor : Nat],
                NEW pos \in {from, t.pos}, NEW lied \in BOOLEAN,
                u = [t EXCEPT !.body = body, !.pos = pos, !.lied = lied],
                ~lied => ~t.lied /\ pos = from,
                body.shape = "empty" => body.cursor = NoCursor,
                ~lied => \/ pos = t.size
                         \/ t.count = t.size /\ body.shape = "envelope" /\ body.cursor # NoCursor
         PROVE  Heard(fs, s, u)
    <2>1. body \in [shape : {"empty", "envelope", "array"}, rows : Seq(Nat), cursor : Nat] /\ pos \in Nat
      BY <1>3, <1>13, EmptyRows
    <2>2. /\ u \in ServerState /\ u.size = t.size /\ u.pos = pos /\ u.count = t.count /\ u.lied = lied
          /\ u.body = body
      BY <1>2, <1>13, <2>1 DEF ServerState
    <2>3. body.rows = <<>> /\ body.shape \in {"empty", "envelope"}
      BY <1>13
    <2>4. fs.rows \o u.body.rows = fs.rows
      BY <1>3, <2>2, <2>3, NoMoreRows
    <2>5. ~u.lied => WithScan(fs, u, fs.rows \o u.body.rows)
      BY <1>5, <1>13, <2>2, <2>4 DEF WithScan
    <2>6. pos <= s.size
      BY <1>2, <1>3, <1>13
    <2>7. ~u.lied => /\ u.body.cursor = NoCursor => u.pos = u.size
                     /\ \/ u.pos = u.size
                        \/ u.count = u.size /\ u.body.shape = "envelope" /\ u.body.cursor # NoCursor
      BY <1>13, <2>2
    <2>8. EnvelopePage(fs, u)
      BY <1>13, <2>2, <2>3, <2>5, <2>7 DEF EnvelopePage
    <2> QED BY <1>2, <2>2, <2>6, <2>8 DEF Heard
  <1>14. CASE u = t
    <2>1. t = [t EXCEPT !.body.cursor = t.body.cursor, !.lied = t.lied]
      BY <1>2 DEF ServerState
    <2> QED BY <1>2, <1>3, <1>12, <1>14, <2>1
  <1>15. CASE u = [t EXCEPT !.body.cursor = NoCursor, !.lied = @ \/ ~whole]
    <2> DEFINE lied == t.lied \/ ~whole
    <2>1. lied \in BOOLEAN /\ (~lied => ~t.lied /\ t.pos = t.size)
      BY <1>3 DEF whole
    <2>2. u = [t EXCEPT !.body.cursor = NoCursor, !.lied = lied]
      BY <1>15
    <2> HIDE DEF lied
    <2> QED BY <1>12, <2>1, <2>2, ConstantsAre
  <1>16. CASE u = [t EXCEPT !.body = EmptyBody, !.lied = @ \/ ~whole \/ t.body.rows # <<>>]
    <2> DEFINE lied == t.lied \/ ~whole \/ t.body.rows # <<>>
    <2>1. lied \in BOOLEAN /\ (~lied => ~t.lied /\ t.pos = t.size /\ from = t.pos)
      BY <1>2, <1>3, <1>4 DEF whole
    <2>2. u = [t EXCEPT !.body = EmptyBody, !.pos = t.pos, !.lied = lied]
      BY <1>2, <1>16 DEF ServerState
    <2>3. /\ EmptyBody \in [shape : {"empty", "envelope"}, rows : {<<>>}, cursor : Nat]
          /\ EmptyBody.shape = "empty" /\ EmptyBody.cursor = NoCursor
      BY ConstantsAre DEF EmptyBody
    <2> HIDE DEF lied
    <2> QED BY <1>13, <2>1, <2>2, <2>3
  <1>17. CASE u = [t EXCEPT !.body.rows = <<>>, !.pos = from,
                            !.lied = @ \/ (t.body.rows # <<>> /\ t.count = Unknown)]
    <2> DEFINE lied == t.lied \/ (t.body.rows # <<>> /\ t.count = Unknown)
               body == [t.body EXCEPT !.rows = <<>>]
    <2>1. lied \in BOOLEAN /\ (~lied => ~t.lied /\ (from = t.size \/ t.count = t.size))
      BY <1>2, <1>3, <1>4, <1>9
    <2>2. u = [t EXCEPT !.body = body, !.pos = from, !.lied = lied]
      BY <1>2, <1>17 DEF ServerState
    <2>3. /\ body \in [shape : {"empty", "envelope"}, rows : {<<>>}, cursor : Nat]
          /\ body.shape = "envelope" /\ body.cursor # NoCursor
      BY <1>2, <1>11, ConstantsAre
    <2> HIDE DEF lied, body
    <2> QED BY <1>13, <2>1, <2>2, <2>3
  <1>18. CASE u = [t EXCEPT !.body.rows = last, !.pos = from, !.lied = TRUE]
    <2>1. /\ u \in ServerState /\ u.size = t.size /\ u.pos = from /\ u.count = t.count /\ u.lied
          /\ u.body.shape = "envelope"
      BY <1>2, <1>6, <1>11, <1>18 DEF ServerState
    <2>2. EnvelopePage(fs, u)
      BY <2>1 DEF EnvelopePage
    <2> QED BY <1>2, <1>3, <2>1, <2>2 DEF Heard
  <1>19. CASE \E c \in Nat \ {0} : u = [t EXCEPT !.body.cursor = c]
    <2>1. PICK c \in Nat \ {0} : u = [t EXCEPT !.body.cursor = c]
      BY <1>19
    <2>2. u = [t EXCEPT !.body.cursor = c, !.lied = t.lied]
      BY <1>2, <2>1 DEF ServerState
    <2> QED BY <1>3, <1>12, <2>2
  <1> QED BY <1>8, <1>14, <1>15, <1>16, <1>17, <1>18, <1>19

LEMMA ArrayHeard ==
    ASSUME NEW f \in Fetch, NEW r, Held(fetch[f], server[f], r), fetch[f].pc = "asking",
           fetch[f].style = "array", NEW u \in ArrayAnswers(f),
           NEW r2, r2.served > 0, r2.pc # "idle", r2.kind = "Idempotent",
           r2.result \notin {"lost", "lostServed"}
    PROVE  Held(fetch[f], u, r2)
  <1> DEFINE fs == fetch[f]
             s == server[f]
  <1>1. /\ fs \in FetchState /\ s \in ServerState /\ ArrayHeld(fs, s, r) /\ s.size \in Nat
        /\ fs.after \in Nat /\ fs.after <= s.size
    <2>1. fs \in FetchState /\ s \in ServerState /\ ArrayHeld(fs, s, r)
      BY DEF Held
    <2>2. s.size \in Nat
      BY <2>1, ConstantsAre DEF ServerState
    <2>3. fs.after \in Nat
      BY <2>1 DEF FetchState
    <2>4. fs.after <= s.size
      BY <2>1 DEF ArrayHeld
    <2> QED BY <2>1, <2>2, <2>3, <2>4
  <1> DEFINE Page(from) == [shape |-> "array", rows |-> Rows(from, Least(from + PageSize, s.size)),
                            cursor |-> NoCursor]
  <1>2. PICK from \in 0..fs.after :
          fs.after <= from + 1 /\ u = [s EXCEPT !.lied = FALSE, !.body = Page(from)]
    <2>1. Least(fs.after, s.size) = fs.after
      BY <1>1 DEF Least
    <2>2. /\ fs.after \in 0..fs.after /\ fs.after <= fs.after + 1
          /\ fs.after # 0 => fs.after - 1 \in 0..fs.after /\ fs.after <= (fs.after - 1) + 1
      BY <1>1
    <2>3. \/ u = [s EXCEPT !.lied = FALSE, !.body = Page(fs.after)]
          \/ u = [s EXCEPT !.lied = FALSE, !.body = Page(IF fs.after = 0 THEN 0 ELSE fs.after - 1)]
      <3>1. PICK t : t = [s EXCEPT !.lied = FALSE]
        OBVIOUS
      <3>2. t.size = s.size /\ (\A b : [t EXCEPT !.body = b] = [s EXCEPT !.lied = FALSE, !.body = b])
        BY <1>1, <3>1 DEF ServerState
      <3>3. u \in {[t EXCEPT !.body = Page(fs.after)],
                   [t EXCEPT !.body = Page(IF fs.after = 0 THEN 0 ELSE fs.after - 1)]}
        BY <2>1, <3>1, <3>2 DEF ArrayAnswers
      <3>4. PICK b1, b2 : b1 = Page(fs.after) /\ b2 = Page(IF fs.after = 0 THEN 0 ELSE fs.after - 1)
        OBVIOUS
      <3>5. u = [t EXCEPT !.body = b1] \/ u = [t EXCEPT !.body = b2]
        BY <3>3, <3>4
      <3>6. u = [s EXCEPT !.lied = FALSE, !.body = b1] \/ u = [s EXCEPT !.lied = FALSE, !.body = b2]
        BY <3>2, <3>5, Zenon
      <3> QED BY <3>4, <3>6
    <2> HIDE DEF Page
    <2>4. CASE u = [s EXCEPT !.lied = FALSE, !.body = Page(fs.after)]
      BY <2>2, <2>4
    <2>5. CASE u = [s EXCEPT !.lied = FALSE, !.body = Page(IF fs.after = 0 THEN 0 ELSE fs.after - 1)]
      <3>1. CASE fs.after = 0
        BY <2>2, <2>5, <3>1
      <3>2. CASE fs.after # 0
        BY <2>2, <2>5, <3>2
      <3> QED BY <3>1, <3>2
    <2> QED BY <2>3, <2>4, <2>5
  <1> DEFINE to == Least(from + PageSize, s.size)
  <1>3. to \in Nat /\ from <= to /\ from \in Nat
    BY <1>1, <1>2, ConstantsAre DEF Least
  <1>4. PICK body : body = Page(from)
    OBVIOUS
  <1>5. /\ body \in [shape : {"empty", "envelope", "array"}, rows : Seq(Nat), cursor : Nat]
        /\ body.shape = "array" /\ body.rows = Rows(from, to)
    <2>1. Rows(from, to) \in Seq(Nat)
      <3> HIDE DEF to
      <3> QED BY <1>3, RowsAre
    <2> QED BY <1>4, <2>1, ConstantsAre
  <1>6. /\ u \in ServerState /\ u.size = s.size /\ u.pos = s.pos /\ u.count = s.count
        /\ u.body = body /\ ~u.lied
    <2>1. u = [s EXCEPT !.lied = FALSE, !.body = body]
      BY <1>2, <1>4
    <2> HIDE DEF Page
    <2> QED BY <1>1, <1>5, <2>1 DEF ServerState
  <1>7. ArrayHeld(fs, u, r2)
    BY <1>1, <1>2, <1>5, <1>6 DEF ArrayHeld
  <1>8. fs.pages \in 1..MaxPages /\ s.pos <= s.size /\ s.count \in {Unknown, s.size} /\ fs.cursor = NoCursor
    BY <1>1 DEF Held, ArrayHeld
  <1> QED BY <1>1, <1>6, <1>7, <1>8 DEF Held

\* NinjaOne handles a request of a fetch: what it says is what the fetch will be told.
LEMMA AnsweredHolds ==
    ASSUME NEW f \in Fetch, NEW r, Held(fetch[f], server[f], r), fetch[f].pc = "asking",
           fetch[f].cursor # NoCursor => r.served = 0,
           NEW u \in Answers(f),
           NEW r2, r2.served > 0, r2.pc # "idle", r2.kind = r.kind,
           r2.result \in {"lost", "lostServed"} => r2.kind = "CursorPage"
    PROVE  Held(fetch[f], u, r2)
  <1> DEFINE fs == fetch[f]
             s == server[f]
  <1>1. CASE fs.style = "array"
    <2>1. r2.kind = "Idempotent"
      BY <1>1 DEF Held, ArrayHeld
    <2>2. u \in ArrayAnswers(f) /\ r2.result \notin {"lost", "lostServed"}
      BY <1>1, <2>1 DEF Answers
    <2> QED BY <1>1, <2>1, <2>2, ArrayHeard
  <1>2. CASE fs.style = "envelope"
    <2>1. u \in EnvelopeAnswers(f)
      BY <1>2 DEF Answers
    <2>2. Heard(fs, s, u)
      BY <1>2, <2>1, EnvelopeHeard
    <2>3. /\ fs \in FetchState /\ EnvelopeHeld(fs, s, r) /\ fs.pages \in 1..MaxPages
          /\ r.kind = IF fs.cursor # NoCursor THEN "CursorPage" ELSE "Idempotent"
      BY <1>2 DEF Held
    <2>4. EnvelopeHeld(fs, u, r2)
      BY <2>2, <2>3 DEF EnvelopeHeld, EnvelopePage, Heard
    <2> QED BY <1>2, <2>2, <2>3, <2>4 DEF Held, Heard
  <1> QED BY <1>1, <1>2 DEF Held, FetchState, Style

\* The invariant of a fetch: by what it has read it is in step with its scan, as far as
\* the server tells the truth, or the count will show that it is not.
HeldInv ==
    /\ fetch = [f \in Fetch |-> fetch[f]] /\ server = [f \in Fetch |-> server[f]]
    /\ \A f \in Fetch : Held(fetch[f], server[f], req[f])

\* A step of one fetch, or of its call, leaves the other fetches as they were.
LEMMA OneFetchMoves ==
    ASSUME HeldInv, TruthfulInv, NEW f \in Fetch, NEW fs, NEW s, NEW r, Held(fs, s, r),
           fetch' = [fetch EXCEPT ![f] = fs], server' = [server EXCEPT ![f] = s],
           req' = [req EXCEPT ![f] = r]
    PROVE  HeldInv'
  <1>1. fetch' = [g \in Fetch |-> fetch'[g]] /\ server' = [g \in Fetch |-> server'[g]]
    BY DEF HeldInv
  <1>2. ASSUME NEW g \in Fetch PROVE Held(fetch'[g], server'[g], req'[g])
    <2>1. f \in Req /\ g \in Req /\ f \in DOMAIN fetch /\ f \in DOMAIN server /\ g \in DOMAIN fetch
          /\ g \in DOMAIN server /\ DOMAIN req = Req
      BY FetchesAreCalls DEF HeldInv, TruthfulInv
    <2>2. CASE g = f
      <3>1. fetch'[g] = fs /\ server'[g] = s /\ req'[g] = r
        BY <2>1, <2>2
      <3> QED BY <3>1
    <2>3. CASE g # f
      <3>1. fetch'[g] = fetch[g] /\ server'[g] = server[g] /\ req'[g] = req[g]
        BY <2>1, <2>3
      <3> QED BY <3>1 DEF HeldInv
    <2> QED BY <2>2, <2>3
  <1>3. \A g \in Fetch : Held(fetch'[g], server'[g], req'[g])
    BY <1>2
  <1> QED BY <1>1, <1>3 DEF HeldInv

\* A step of the other calls, and what happens to them all.
LEMMA OtherCallsMove ==
    ASSUME HeldInv, UNCHANGED <<fetch, server>>,
           \A f \in Fetch : /\ (req'[f].pc = "idle") <=> (req[f].pc = "idle")
                            /\ req'[f].kind = req[f].kind /\ req'[f].served = req[f].served
                            /\ req'[f].result \in {req[f].result, "none", "error", "refused"}
    PROVE  HeldInv'
  <1>1. ASSUME NEW f \in Fetch PROVE Held(fetch'[f], server'[f], req'[f])
    <2>1. Held(fetch[f], server[f], req[f])
      BY DEF HeldInv
    <2>2. fetch'[f] = fetch[f] /\ server'[f] = server[f]
      OBVIOUS
    <2>3. PICK fs, s, r, r2 : fs = fetch[f] /\ s = server[f] /\ r = req[f] /\ r2 = req'[f]
      OBVIOUS
    <2>4. /\ (r2.pc = "idle") <=> (r.pc = "idle")
          /\ r2.kind = r.kind /\ r2.served = r.served
          /\ r2.result \in {r.result, "none", "error", "refused"}
      BY <2>3
    <2>5. r2.result \in {"lost", "lostServed"} => r2.kind = "CursorPage"
      BY <2>1, <2>3, <2>4 DEF Held
    <2>6. Held(fs, s, r2)
      <3>1. ArrayHeld(fs, s, r) => ArrayHeld(fs, s, r2)
        BY <2>4 DEF ArrayHeld
      <3>2. EnvelopeHeld(fs, s, r) => EnvelopeHeld(fs, s, r2)
        BY <2>4 DEF EnvelopeHeld
      <3>3. Held(fs, s, r)
        BY <2>1, <2>3
      <3> QED BY <2>4, <2>5, <3>1, <3>2, <3>3 DEF Held
    <2> QED BY <2>2, <2>3, <2>6
  <1>2. fetch' = [g \in Fetch |-> fetch'[g]] /\ server' = [g \in Fetch |-> server'[g]]
    BY DEF HeldInv
  <1>3. \A g \in Fetch : Held(fetch'[g], server'[g], req'[g])
    BY <1>1
  <1> QED BY <1>2, <1>3 DEF HeldInv

LEMMA ProceedsHolds ==
    ASSUME HeldInv, TruthfulInv, NEW q \in Req, Proceeds(q), UNCHANGED <<fetch, server>>
    PROVE  HeldInv'
  <1>1. PICK r : /\ req' = [req EXCEPT ![q] = r] /\ r.pc # "idle" /\ req[q].pc # "idle"
                 /\ r.kind = req[q].kind /\ r.served = req[q].served
                 /\ r.result \in {req[q].result, "error", "refused"}
    <2>0. req[q] \in Call
      BY DEF TruthfulInv
    <2>1. ASSUME NEW result \in {"error", "refused"}, req[q].pc = "paused", Ends(q, result)
          PROVE  \E r : /\ req' = [req EXCEPT ![q] = r] /\ r.pc # "idle" /\ req[q].pc # "idle"
                        /\ r.kind = req[q].kind /\ r.served = req[q].served
                        /\ r.result \in {req[q].result, "error", "refused"}
      <3>1. req' = [req EXCEPT ![q] = Done(req[q], result)]
        BY <2>1 DEF Ends
      <3>2. result \in Result
        BY <2>1 DEF Result
      <3>3. /\ Done(req[q], result).pc = "done" /\ Done(req[q], result).kind = req[q].kind
            /\ Done(req[q], result).served = req[q].served /\ Done(req[q], result).result = result
        BY <2>0, <3>2, DoneIs
      <3> WITNESS Done(req[q], result)
      <3> QED BY <2>1, <3>1, <3>3
    <2>2. ASSUME NEW pc \in {"paused", "sent"}, req[q].pc \in {"paused", "backoff"},
                 req' = [req EXCEPT ![q].pc = pc]
          PROVE  \E r : /\ req' = [req EXCEPT ![q] = r] /\ r.pc # "idle" /\ req[q].pc # "idle"
                        /\ r.kind = req[q].kind /\ r.served = req[q].served
                        /\ r.result \in {req[q].result, "error", "refused"}
      <3> WITNESS [req[q] EXCEPT !.pc = pc]
      <3> QED BY <2>0, <2>2 DEF Call
    <2>3. CASE Sends(q)
      <3>1. CASE req[q].departed /\ Ends(q, IF req[q].kind = "ActOnce" THEN "refused" ELSE "error")
        BY <2>3, <3>1, <2>1 DEF Sends
      <3>2. CASE ~req[q].departed /\ req' = [req EXCEPT ![q].pc = "sent"]
        BY <2>3, <3>2, <2>2 DEF Sends
      <3>3. CASE Ends(q, "error")
        BY <2>3, <3>3, <2>1 DEF Sends
      <3> QED BY <2>3, <3>1, <3>2, <3>3 DEF Sends
    <2>4. CASE BackoffEnds(q)
      BY <2>4, <2>2 DEF BackoffEnds
    <2> QED BY <2>3, <2>4 DEF Proceeds
  <1>2. ASSUME NEW f \in Fetch
        PROVE  /\ (req'[f].pc = "idle") <=> (req[f].pc = "idle")
               /\ req'[f].kind = req[f].kind /\ req'[f].served = req[f].served
               /\ req'[f].result \in {req[f].result, "none", "error", "refused"}
    <2>1. f \in Req /\ DOMAIN req = Req
      BY FetchesAreCalls DEF TruthfulInv
    <2>2. CASE f = q
      <3>1. req'[f] = r
        BY <1>1, <2>1, <2>2
      <3> QED BY <1>1, <2>2, <3>1
    <2>3. CASE f # q
      <3>1. req'[f] = req[f]
        BY <1>1, <2>1, <2>3
      <3> QED BY <3>1
    <2> QED BY <2>2, <2>3
  <1> QED BY <1>2, OtherCallsMove

\* What is left of a call when an attempt of it has been answered.
LEMMA AnswerIs ==
    ASSUME TruthfulInv, NEW q \in Req, NEW out \in Outcome, NEW handled \in Handled(out),
           Answered(q, out, handled)
    PROVE  /\ req[q].pc = "sent" /\ handled \in {0, 1}
           /\ \E r : /\ req' = [req EXCEPT ![q] = r] /\ r.pc # "idle"
                     /\ r.kind = req[q].kind /\ r.served = req[q].served + handled
                     /\ r.result = req[q].result
                          \/ r.result = Verdict(req[q].kind, out)
  <1> DEFINE s == [req[q] EXCEPT !.served = @ + handled]
  <1>1. req[q] \in Call /\ req[q].pc = "sent" /\ handled \in {0, 1}
    BY DEF TruthfulInv, Answered, Handled
  <1>2. /\ s \in Call /\ s.kind = req[q].kind /\ s.attempt = req[q].attempt
        /\ s.served = req[q].served + handled /\ s.result = req[q].result
    BY <1>1 DEF Call
  <1>3. CASE Retries(s.kind, s.attempt, out)
    <2> DEFINE r == [s EXCEPT !.attempt = @ + 1,
                              !.pc = IF out \in {"429", "401"} THEN "paused" ELSE "backoff"]
    <2>1. req' = [req EXCEPT ![q] = r]
      BY <1>3 DEF Answered
    <2>2. /\ r.pc # "idle" /\ r.kind = req[q].kind /\ r.served = req[q].served + handled
          /\ r.result = req[q].result
      BY <1>2 DEF Call
    <2> HIDE DEF r
    <2> QED BY <1>1, <2>1, <2>2
  <1>4. CASE ~Retries(s.kind, s.attempt, out)
    <2> DEFINE r == Done(s, Verdict(s.kind, out))
    <2>1. req' = [req EXCEPT ![q] = r]
      BY <1>4 DEF Answered
    <2>2. Verdict(s.kind, out) \in Result
      BY DEF Verdict, Result
    <2>3. /\ r.pc = "done" /\ r.kind = s.kind /\ r.served = s.served /\ r.result = Verdict(s.kind, out)
      BY <1>2, <2>2, DoneIs
    <2> HIDE DEF r
    <2> QED BY <1>1, <1>2, <2>1, <2>3
  <1> QED BY <1>3, <1>4

LEMMA VerdictIsLost ==
    ASSUME NEW kind, NEW out, Verdict(kind, out) \in {"lost", "lostServed"}
    PROVE  kind = "CursorPage"
  BY DEF Verdict

LEMMA PageAnsweredStep ==
    ASSUME HeldInv, TruthfulInv, NEW f \in Fetch, PageAnswered(f)
    PROVE  HeldInv'
  <1>0. PICK out \in Outcome :
          \E handled \in Handled(out) :
            /\ Answered(f, out, handled)
            /\ IF handled = 1 THEN \E s \in Answers(f) : server' = [server EXCEPT ![f] = s]
                              ELSE UNCHANGED server
    BY DEF PageAnswered
  <1>1. PICK handled \in Handled(out) :
          /\ Answered(f, out, handled)
          /\ IF handled = 1 THEN \E s \in Answers(f) : server' = [server EXCEPT ![f] = s]
                            ELSE UNCHANGED server
    BY <1>0
  <1>2. f \in Req /\ UNCHANGED fetch
    BY FetchesAreCalls DEF PageAnswered
  <1>3. req[f].pc = "sent" /\ handled \in {0, 1}
    BY <1>1, <1>2, AnswerIs
  <1>4. PICK r : /\ req' = [req EXCEPT ![f] = r] /\ r.pc # "idle"
                 /\ r.kind = req[f].kind /\ r.served = req[f].served + handled
                 /\ r.result = req[f].result \/ r.result = Verdict(req[f].kind, out)
    BY <1>1, <1>2, AnswerIs
  <1>5. /\ Held(fetch[f], server[f], req[f]) /\ Truthful(req[f])
    BY <1>2 DEF HeldInv, TruthfulInv
  <1>6. fetch[f].pc = "asking" /\ req[f].served \in Nat
        /\ req[f].kind = IF fetch[f].cursor # NoCursor THEN "CursorPage" ELSE "Idempotent"
    BY <1>3, <1>5 DEF Held, Truthful, Call
  <1>7. r.result \in {"lost", "lostServed"} => r.kind = "CursorPage"
    BY <1>4, <1>5, VerdictIsLost DEF Held
  <1>8. fetch' = [fetch EXCEPT ![f] = fetch[f]]
    BY <1>2 DEF HeldInv
  <1>9. CASE handled = 1
    <2>1. PICK u \in Answers(f) : server' = [server EXCEPT ![f] = u]
      BY <1>1, <1>9
    <2>2. fetch[f].cursor # NoCursor => req[f].served = 0
      BY <1>3, <1>5, <1>6 DEF Truthful
    <2>3. r.served > 0
      BY <1>4, <1>6, <1>9
    <2>4. Held(fetch[f], u, r)
      BY <1>4, <1>5, <1>6, <1>7, <2>2, <2>3, AnsweredHolds
    <2> QED BY <1>4, <1>8, <2>1, <2>4, OneFetchMoves
  <1>10. CASE handled = 0
    <2>1. server' = [server EXCEPT ![f] = server[f]]
      BY <1>1, <1>10 DEF HeldInv
    <2>2. r.served = req[f].served
      BY <1>4, <1>6, <1>10
    <2>3. Held(fetch[f], server[f], r)
      <3>1. PICK fs, s, r1 : fs = fetch[f] /\ s = server[f] /\ r1 = req[f]
        OBVIOUS
      <3>2. Held(fs, s, r1) /\ r1.pc # "idle" /\ r.kind = r1.kind /\ r.served = r1.served
        BY <1>3, <1>4, <1>5, <2>2, <3>1
      <3>3. Held(fs, s, r)
        BY <1>4, <1>7, <3>2, CallMovesHeld
      <3> QED BY <3>1, <3>3
    <2> QED BY <1>4, <1>8, <2>1, <2>3, OneFetchMoves
  <1> QED BY <1>3, <1>9, <1>10

LEMMA ReceivesStep ==
    ASSUME HeldInv, TruthfulInv, NEW f \in Fetch, Receives(f)
    PROVE  HeldInv'
  <1> DEFINE fs2 == IF req[f].result = "ok" THEN OnPage(fetch[f], server[f])
                                            ELSE OnError(fetch[f], req[f].result)
             t == IF fs2.cursor # NoCursor \/ fs2.pc = "ok" \/ fs2.after # 0
                  THEN [server[f] EXCEPT !.body = EmptyBody] ELSE NoScan(server[f])
  <1>1. /\ f \in Req /\ fetch[f].pc = "asking" /\ req[f].pc = "done"
        /\ fetch' = [fetch EXCEPT ![f] = fs2] /\ req' = [req EXCEPT ![f] = NoCall]
    BY FetchesAreCalls DEF Receives
  <1>2. f \in DOMAIN fetch
    BY DEF HeldInv
  <1> HIDE DEF fs2
  <1>3. fetch'[f] = fs2
    BY <1>1, <1>2
  <1>4. server' = [server EXCEPT ![f] = t]
    BY <1>3 DEF Receives
  <1>5. Held(fetch[f], server[f], req[f]) /\ Truthful(req[f])
    BY <1>1 DEF HeldInv, TruthfulInv
  <1>6. PICK u, x : u = fs2 /\ x = t
    OBVIOUS
  <1>7. /\ u = (IF req[f].result = "ok" THEN OnPage(fetch[f], server[f])
                                        ELSE OnError(fetch[f], req[f].result))
        /\ x = IF u.cursor # NoCursor \/ u.pc = "ok" \/ u.after # 0
               THEN [server[f] EXCEPT !.body = EmptyBody] ELSE NoScan(server[f])
    BY <1>6 DEF fs2
  <1>8. Held(u, x, NoCall)
    BY <1>1, <1>5, <1>7, ReceivedHolds
  <1> HIDE DEF t
  <1> QED BY <1>1, <1>4, <1>6, <1>8, OneFetchMoves

LEMMA DepartsHolds ==
    ASSUME HeldInv, TruthfulInv, NEW calls, Departs(calls), UNCHANGED <<fetch, server>>
    PROVE  HeldInv'
  <1>1. ASSUME NEW f \in Fetch
        PROVE  /\ (req'[f].pc = "idle") <=> (req[f].pc = "idle")
               /\ req'[f].kind = req[f].kind /\ req'[f].served = req[f].served
               /\ req'[f].result \in {req[f].result, "none", "error", "refused"}
    <2>1. f \in Req /\ req[f] \in Call
      BY FetchesAreCalls DEF TruthfulInv
    <2>2. req'[f] = [req[f] EXCEPT !.departed = (req[f].departed \/ f \in calls)]
      BY <2>1 DEF Departs
    <2> QED BY <2>1, <2>2 DEF Call
  <1> QED BY <1>1, OtherCallsMove

LEMMA HeldNext == HeldInv /\ TruthfulInv /\ [Next]_vars => HeldInv'
  <1> SUFFICES ASSUME HeldInv, TruthfulInv, [Next]_vars PROVE HeldInv'
    OBVIOUS
  <1>0. ASSUME UNCHANGED <<fetch, server>>, NEW q \in Req \ Fetch, NEW r,
               req' = [req EXCEPT ![q] = r]
        PROVE  HeldInv'
    <2>1. ASSUME NEW f \in Fetch PROVE req'[f] = req[f]
      BY <1>0, FetchesAreCalls DEF TruthfulInv
    <2> QED BY <1>0, <2>1, OtherCallsMove
  <1>1. ASSUME NEW f \in Fetch, Begins(f) PROVE HeldInv'
    <2>1. PICK style \in Style :
            fetch' = [fetch EXCEPT ![f] = [Failed EXCEPT !.pc = "loop", !.style = style]]
      BY <1>1 DEF Begins
    <2>2. /\ server' = [server EXCEPT ![f] = server[f]] /\ req' = [req EXCEPT ![f] = req[f]]
          /\ fetch[f].pc \in {"ok", "error"} /\ Held(fetch[f], server[f], req[f])
      BY <1>1 DEF Begins, HeldInv, TruthfulInv
    <2>3. Held([Failed EXCEPT !.pc = "loop", !.style = style], server[f], req[f])
      BY <2>2, BegunHolds
    <2> QED BY <2>1, <2>2, <2>3, OneFetchMoves
  <1>2. ASSUME NEW f \in Fetch, FetchStep(f) PROVE HeldInv'
    <2>0. server = [server EXCEPT ![f] = server[f]] /\ Held(fetch[f], server[f], req[f])
      BY <1>2 DEF HeldInv
    <2>1. CASE Asks(f)
      <3> DEFINE kind == IF fetch[f].cursor # NoCursor THEN "CursorPage" ELSE "Idempotent"
      <3>1. Held([fetch[f] EXCEPT !.pc = "asking", !.pages = @ + 1], server[f],
                 [NoCall EXCEPT !.pc = "paused", !.kind = kind])
        BY <2>0, <2>1, AskedHolds DEF Asks
      <3>2. /\ fetch' = [fetch EXCEPT ![f] = [fetch[f] EXCEPT !.pc = "asking", !.pages = @ + 1]]
            /\ req' = [req EXCEPT ![f] = [NoCall EXCEPT !.pc = "paused", !.kind = kind]]
            /\ server' = server
        BY <2>1 DEF Asks, Calls
      <3> HIDE DEF kind
      <3> QED BY <2>0, <3>1, <3>2, OneFetchMoves
    <2>2. CASE PagesForEver(f)
      <3>1. fetch' = [fetch EXCEPT ![f] = Failed] /\ server' = server /\ req' = [req EXCEPT ![f] = req[f]]
            /\ fetch[f].pc = "loop"
        BY <2>2 DEF PagesForEver, TruthfulInv
      <3> QED BY <2>0, <3>1, ForEverHolds, OneFetchMoves
    <2>3. CASE Receives(f)
      BY <2>3, ReceivesStep
    <2>4. CASE PageAnswered(f)
      BY <2>4, PageAnsweredStep
    <2> QED BY <1>2, <2>1, <2>2, <2>3, <2>4 DEF FetchStep
  <1>3. ASSUME NEW q \in Req \ Fetch, ActsOn(q) PROVE HeldInv'
    <2>1. req' = [req EXCEPT ![q] = [NoCall EXCEPT !.pc = "paused", !.kind = "ActOnce"]]
          /\ UNCHANGED <<fetch, server>>
      BY <1>3 DEF ActsOn, Calls
    <2> QED BY <1>0, <1>3, <2>1
  <1>4. ASSUME NEW q \in Req \ Fetch, ActionAnswered(q) PROVE HeldInv'
    <2>1. PICK out \in Outcome : \E handled \in Handled(out) : Answered(q, out, handled)
      BY <1>4 DEF ActionAnswered
    <2>2. PICK r : req' = [req EXCEPT ![q] = r]
      BY <2>1 DEF Answered
    <2> QED BY <1>0, <1>4, <2>2 DEF ActionAnswered
  <1>5. ASSUME NEW q \in Req, Runs(q) PROVE HeldInv'
    BY <1>5, ProceedsHolds DEF Runs
  <1>6. CASE Passes
    <2>1. req' = req /\ UNCHANGED <<fetch, server>>
      BY <1>6 DEF Passes, Tick
    <2> QED BY <2>1, OtherCallsMove
  <1>7. CASE Switches
    BY <1>7, DepartsHolds DEF Switches, TenantMoves, SessionEnds
  <1>8. CASE UNCHANGED vars
    <2>1. req' = req /\ UNCHANGED <<fetch, server>>
      BY <1>8 DEF vars
    <2> QED BY <2>1, OtherCallsMove
  <1> QED BY <1>1, <1>2, <1>3, <1>4, <1>5, <1>6, <1>7, <1>8 DEF Next

LEMMA HeldInit == Init => HeldInv
  <1> SUFFICES ASSUME Init PROVE HeldInv
    OBVIOUS
  <1>1. EmptyBody \in [shape : {"empty", "envelope", "array"}, rows : Seq(Nat), cursor : Nat]
    BY ConstantsAre, EmptyRows DEF EmptyBody
  <1>2. ASSUME NEW f \in Fetch
        PROVE  Held(fetch[f], server[f], req[f])
    <2>1. fetch[f] = Failed /\ req[f] = NoCall
      BY FetchesAreCalls DEF Init, RequestsInit
    <2>2. server[f] \in [size : Sizes, counts : BOOLEAN, pos : {0}, count : {Unknown}, cursor : {0},
                         body : {EmptyBody}, lied : {FALSE}]
      BY DEF Init
    <2>3. PICK s : s = server[f]
      OBVIOUS
    <2>4. /\ s \in ServerState /\ s.pos = 0 /\ s.count = Unknown /\ s.size \in Nat
      BY <1>1, <2>2, <2>3, BudgetsAreCounted, ConstantsAre DEF ServerState
    <2>5. NoCall.pc = "idle" /\ NoCall.served = 0 /\ NoCall.result = "none"
      BY DEF NoCall
    <2> QED BY <2>1, <2>3, <2>4, <2>5, FailedIs DEF Held
  <1>3. fetch = [f \in Fetch |-> fetch[f]] /\ server = [f \in Fetch |-> server[f]]
    BY DEF Init
  <1> QED BY <1>2, <1>3 DEF HeldInv

\* What a fetch returns is the whole feed, every row once and in order, whatever pages
\* are lost, asked for again or answered with the next one, unless the server lies where
\* no count can show it (get_paginated_reporting, api/paging.rs): for any number of
\* fetches, page size, feed and budgets.
THEOREM WholeFeedReturned == Spec => []ReturnsTheWholeFeed
  <1>1. HeldInv => ReturnsTheWholeFeed
    BY DEF HeldInv, Held, ReturnsTheWholeFeed
  <1> QED BY <1>1, TruthfulInit, TruthfulNext, HeldInit, HeldNext, PTL DEF Spec

-----------------------------------------------------------------------------
(* The Jobs tab.                                                           *)

JobState == {"none", "running", "done"}
EventRows == UNION {[js -> {"running", "done"}] : js \in SUBSET BoardJobs}
AskCall == [clear : BOOLEAN, answered : BOOLEAN, late : BOOLEAN, rows : [BoardJobs -> JobState]]
SendState == {"none", "sending", "returned", "refused", "back"}

BoardTyped ==
    /\ store \in [BoardJobs -> JobState] /\ sent \in [BoardJobs -> JobState]
    /\ board \in [BoardJobs -> JobState]
    /\ sends \in [Batches -> SendState] /\ told \in [Batches -> Nat]
    /\ ticking \subseteq BoardJobs /\ crossed \subseteq BoardJobs
    /\ watched \subseteq Batches
    /\ events \in Seq(EventRows) /\ asks \subseteq AskCall
    /\ toast \in [error : BOOLEAN, timer : BOOLEAN] /\ ended \in BOOLEAN

SendOf(j) == sends[BatchOf[j]]
Queued == {events[n] : n \in DOMAIN events}
\* The job's row was at x when something saw it that is on the board or on its way there.
Seen(j, x) ==
    \/ board[j] = x
    \/ \E e \in Queued : j \in DOMAIN e /\ e[j] = x
    \/ \E a \in asks : a.rows[j] = x
    \/ x = "done" /\ j \in ticking
Coming(j) == j \in ticking \/ \E e \in Queued : j \in DOMAIN e
DoneComing(j) == j \in ticking \/ \E e \in Queued : j \in DOMAIN e /\ e[j] = "done"

\* The backend has the rows of the dispatches that were recorded; nobody is ahead of it.
OnRecord == {"returned", "back"}
NobodyAhead ==
    /\ ended => store = NoJobs
    /\ \A j \in BoardJobs :
         /\ SendOf(j) = "none" => sent[j] = "none"
         /\ SendOf(j) = "returned" => sent[j] # "none"
         /\ store[j] = "running" => sent[j] = "running" /\ SendOf(j) \in OnRecord
         /\ store[j] = "done" => sent[j] # "none" /\ SendOf(j) \in OnRecord
         /\ Seen(j, "running") => sent[j] = "running"
         /\ Seen(j, "done") => \/ sent[j] = "done"
                               \/ sent[j] = "running" /\ store[j] # "running" /\ SendOf(j) \in OnRecord

\* A job that has settled since it was sent is settled on the board, or that is coming.
SettledComes ==
    \A j \in BoardJobs \ crossed :
        store[j] = "done" /\ sent[j] = "running" => board[j] = "done" \/ DoneComing(j)

\* A row that the backend no longer has is on the board only until its event comes.
GoneComes ==
    \A j \in BoardJobs \ crossed :
        ~ended /\ SendOf(j) # "sending" /\ store[j] = "none" /\ board[j] = "running" => Coming(j)

\* A list that will replace the board's.
Heals == \E a \in asks : a.clear \/ ~a.late
InStep ==
    \A j \in BoardJobs \ crossed :
        ~ended /\ SendOf(j) \notin {"sending", "returned"}
            => Heals \/ board[j] = store[j] \/ (store[j] = "done" /\ DoneComing(j))

\* A dispatch that is watched is announced once, and not before its jobs have settled.
WatchedOnce ==
    /\ \A b \in Batches : told[b] <= 1 /\ (sends[b] # "back" => told[b] = 0 /\ b \notin watched)
    /\ \A b \in watched : told[b] = 0
    /\ \A j \in BoardJobs \ crossed :
         /\ BatchOf[j] \in watched /\ store[j] = "running" => board[j] = "running"
         /\ told[BatchOf[j]] = 1 => store[j] # "running"

\* It waits for a job in flight, or for what is coming.
WatchedWaits ==
    \A b \in watched \ hasty :
        \/ ended \/ toast.timer \/ InFlightOf(board, b) \/ JobsOf(b) \intersect crossed # {}
        \/ \E j \in JobsOf(b) : Coming(j)

BoardInv ==
    /\ BoardTyped /\ NobodyAhead /\ SettledComes /\ GoneComes /\ InStep /\ WatchedOnce /\ WatchedWaits

\* What an event is.
LEMMA EventRow ==
    ASSUME NEW e \in EventRows
    PROVE  /\ DOMAIN e \subseteq BoardJobs
           /\ \A j \in DOMAIN e : e[j] \in {"running", "done"}
BY DEF EventRows

\* An event emitted, and the first one taken.
LEMMA QueueGrows ==
    ASSUME NEW S, NEW es \in Seq(S), NEW e \in S
    PROVE  /\ Append(es, e) \in Seq(S)
           /\ {Append(es, e)[n] : n \in DOMAIN Append(es, e)}
                  = {es[n] : n \in DOMAIN es} \union {e}
<1>1. Append(es, e) \in Seq(S) /\ Len(es) \in Nat /\ DOMAIN es = 1..Len(es)
      /\ DOMAIN Append(es, e) = 1..(Len(es) + 1)
  OBVIOUS
<1>2. \A n \in 1..Len(es) : Append(es, e)[n] = es[n]
  OBVIOUS
<1>3. Append(es, e)[Len(es) + 1] = e
  OBVIOUS
<1>4. \A n \in 1..(Len(es) + 1) : n \in 1..Len(es) \/ n = Len(es) + 1
  BY <1>1
<1>5. (Len(es) + 1) \in 1..(Len(es) + 1) /\ 1..Len(es) \subseteq 1..(Len(es) + 1)
  BY <1>1
<1> QED BY <1>1, <1>2, <1>3, <1>4, <1>5

LEMMA QueueShrinks ==
    ASSUME NEW S, NEW es \in Seq(S), es # <<>>
    PROVE  /\ Tail(es) \in Seq(S) /\ Head(es) \in S
           /\ {es[n] : n \in DOMAIN es}
                  = {Tail(es)[n] : n \in DOMAIN Tail(es)} \union {Head(es)}
<1>1. /\ Tail(es) \in Seq(S) /\ Head(es) \in S /\ Len(es) \in Nat \ {0}
      /\ DOMAIN es = 1..Len(es) /\ DOMAIN Tail(es) = 1..(Len(es) - 1) /\ Head(es) = es[1]
  OBVIOUS
<1>2. \A n \in 1..(Len(es) - 1) : Tail(es)[n] = es[n + 1] /\ n + 1 \in 1..Len(es)
  BY <1>1
<1>3. \A n \in 1..Len(es) : n = 1 \/ (n - 1 \in 1..(Len(es) - 1) /\ es[n] = Tail(es)[n - 1])
  <2> TAKE n \in 1..Len(es)
  <2>1. n = 1 \/ (n - 1 \in 1..(Len(es) - 1) /\ (n - 1) + 1 = n)
    BY <1>1
  <2> QED BY <2>1, <1>2
<1>4. 1 \in 1..Len(es)
  BY <1>1
<1>5. \A n \in DOMAIN es : es[n] \in {Tail(es)[m] : m \in DOMAIN Tail(es)} \union {Head(es)}
  BY <1>1, <1>3
<1>6. Head(es) \in {es[n] : n \in DOMAIN es}
  BY <1>1, <1>4
<1>7. \A n \in DOMAIN Tail(es) : Tail(es)[n] \in {es[m] : m \in DOMAIN es}
  BY <1>1, <1>2
<1> QED BY <1>1, <1>5, <1>6, <1>7

LEMMA Emitting ==
    ASSUME BoardTyped, NEW e \in EventRows, Emits(e)
    PROVE  events' \in Seq(EventRows) /\ Queued' = Queued \union {e}
<1>1. events \in Seq(EventRows) /\ events' = Append(events, e)
  BY DEF BoardTyped, Emits
<1>2. /\ Append(events, e) \in Seq(EventRows)
      /\ {Append(events, e)[n] : n \in DOMAIN Append(events, e)}
             = {events[n] : n \in DOMAIN events} \union {e}
  BY <1>1, QueueGrows
<1> QED BY <1>1, <1>2 DEF Queued

LEMMA Delivering ==
    ASSUME BoardTyped, events # <<>>, events' = Tail(events)
    PROVE  /\ events' \in Seq(EventRows) /\ Head(events) \in EventRows
           /\ Queued = Queued' \union {Head(events)}
<1>1. events \in Seq(EventRows)
  BY DEF BoardTyped
<1>2. /\ Tail(events) \in Seq(EventRows) /\ Head(events) \in EventRows
      /\ {events[n] : n \in DOMAIN events}
             = {Tail(events)[n] : n \in DOMAIN Tail(events)} \union {Head(events)}
  BY <1>1, QueueShrinks
<1> QED BY <1>2 DEF Queued

LEMMA QueuedAreEvents ==
    ASSUME BoardTyped
    PROVE  Queued \subseteq EventRows
BY DEF BoardTyped, Queued

\* The merged list, row by row.
LEMMA MergedRow ==
    ASSUME NEW rows \in [BoardJobs -> JobState], NEW incoming,
           \A j \in DOMAIN incoming : incoming[j] \in JobState
    PROVE  /\ Merged(rows, incoming) \in [BoardJobs -> JobState]
           /\ \A j \in BoardJobs :
                /\ j \notin DOMAIN incoming => Merged(rows, incoming)[j] = rows[j]
                /\ rows[j] = "done" /\ j \in DOMAIN incoming /\ incoming[j] # "done"
                       => Merged(rows, incoming)[j] = "done"
                /\ j \in DOMAIN incoming /\ (rows[j] # "done" \/ incoming[j] = "done")
                       => Merged(rows, incoming)[j] = incoming[j]
BY DEF Merged

LEMMA BoardConstants ==
    /\ BatchOf \in [BoardJobs -> Nat]
    /\ \A j \in BoardJobs : BatchOf[j] \in Batches
    /\ NoJobs \in [BoardJobs -> JobState] /\ \A j \in BoardJobs : NoJobs[j] = "none"
BY BoardAssumption DEF Batches, NoJobs, JobState

LEMMA BoardStart == JobBoardInit => BoardInv
<1> SUFFICES ASSUME JobBoardInit PROVE BoardInv
  OBVIOUS
<1>1. Queued = {}
  BY DEF JobBoardInit, Queued
<1>2. BoardTyped
  <2>1. events \in Seq(EventRows)
    BY DEF JobBoardInit
  <2>2. store \in [BoardJobs -> JobState] /\ sent \in [BoardJobs -> JobState]
        /\ board \in [BoardJobs -> JobState]
    BY BoardConstants DEF JobBoardInit
  <2>3. sends \in [Batches -> SendState] /\ told \in [Batches -> Nat]
    BY DEF JobBoardInit, SendState
  <2> QED BY <2>1, <2>2, <2>3 DEF JobBoardInit, BoardTyped, Calm
<1>3. \A j \in BoardJobs, x \in {"running", "done"} : ~Seen(j, x)
  BY <1>1, BoardConstants DEF JobBoardInit, Seen
<1>4. NobodyAhead
  BY <1>3, BoardConstants DEF JobBoardInit, NobodyAhead, SendOf
<1>5. SettledComes /\ GoneComes /\ InStep /\ WatchedOnce /\ WatchedWaits
  BY BoardConstants
  DEF JobBoardInit, SettledComes, GoneComes, InStep, WatchedOnce, WatchedWaits
<1> QED BY <1>2, <1>4, <1>5 DEF BoardInv

-----------------------------------------------------------------------------
(* A dispatch *)

LEMMA ConfirmsKeeps == BoardInv /\ Confirms => BoardInv'
<1> SUFFICES ASSUME BoardInv, Confirms PROVE BoardInv'
  OBVIOUS
<1> USE DEF BoardInv
<1>1. PICK b \in Batches : sends[b] = "none" /\ sends' = [sends EXCEPT ![b] = "sending"]
  BY DEF Confirms
<1>2. UNCHANGED <<store, ended, sent, ticking, events, board, watched, told, toast, asks,
                   crossed, hasty>>
  BY DEF Confirms
<1>3. \A c \in Batches : sends'[c] = IF c = b THEN "sending" ELSE sends[c]
  BY <1>1 DEF BoardTyped
<1>4. \A j \in BoardJobs : SendOf(j)' = IF BatchOf[j] = b THEN "sending" ELSE SendOf(j)
  BY <1>2, <1>3, BoardConstants DEF SendOf
<1>4a. \A j \in BoardJobs : BatchOf[j] = b => SendOf(j) = "none"
  BY <1>1 DEF SendOf
<1>5. Queued' = Queued
  BY <1>2 DEF Queued
<1>6. \A j, x : Seen(j, x)' <=> Seen(j, x)
  BY <1>2, <1>5 DEF Seen
<1>7. \A j : (Coming(j)' <=> Coming(j)) /\ (DoneComing(j)' <=> DoneComing(j))
  BY <1>2, <1>5 DEF Coming, DoneComing
<1>8. BoardTyped'
  BY <1>1, <1>2 DEF BoardTyped, SendState
<1>9. NobodyAhead'
  BY <1>2, <1>4, <1>4a, <1>6 DEF NobodyAhead, OnRecord
<1>10. SettledComes'
  BY <1>2, <1>7 DEF SettledComes
<1>11. GoneComes'
  BY <1>2, <1>4, <1>7 DEF GoneComes
<1>12. InStep'
  BY <1>2, <1>4, <1>7 DEF InStep, Heals
<1>13. WatchedOnce'
  BY <1>1, <1>2, <1>3 DEF WatchedOnce
<1>14. WatchedWaits'
  BY <1>2, <1>7 DEF WatchedWaits, InFlightOf
<1> QED BY <1>8, <1>9, <1>10, <1>11, <1>12, <1>13, <1>14

LEMMA SendsJobKeeps == BoardInv /\ SendsJob => BoardInv'
<1> SUFFICES ASSUME BoardInv, SendsJob PROVE BoardInv'
  OBVIOUS
<1> USE DEF BoardInv
<1>1. PICK j \in BoardJobs, state \in {"running", "done"} :
        /\ sends[BatchOf[j]] = "sending" /\ sent[j] = "none"
        /\ sent' = [sent EXCEPT ![j] = state] /\ Emits([k \in {j} |-> state])
  BY DEF SendsJob
<1>2. UNCHANGED <<store, ended, sends, ticking, board, watched, told, toast, asks, crossed, hasty>>
  BY DEF SendsJob
<1>3. PICK e : e = [k \in {j} |-> state]
  OBVIOUS
<1>4. e \in EventRows /\ DOMAIN e = {j} /\ e[j] = state
  <2>1. DOMAIN e = {j} /\ e[j] = state /\ e \in [{j} -> {"running", "done"}]
    BY <1>3
  <2>2. {j} \in SUBSET BoardJobs
    OBVIOUS
  <2> QED BY <2>1, <2>2 DEF EventRows
<1>5. events' \in Seq(EventRows) /\ Queued' = Queued \union {e}
  BY <1>1, <1>3, <1>4, Emitting
<1>6. \A k \in BoardJobs : sent'[k] = IF k = j THEN state ELSE sent[k]
  BY <1>1 DEF BoardTyped
<1>7. \A k \in BoardJobs : \A x : Seen(k, x)' <=> Seen(k, x) \/ (k = j /\ x = state)
  BY <1>2, <1>4, <1>5 DEF Seen
<1>8. \A k : (Coming(k) => Coming(k)') /\ (DoneComing(k) => DoneComing(k)')
  BY <1>2, <1>5 DEF Coming, DoneComing
<1>9. \A k \in BoardJobs : SendOf(k)' = SendOf(k)
  BY <1>2 DEF SendOf
<1>10. store[j] = "none" /\ ~Seen(j, "running") /\ ~Seen(j, "done") /\ SendOf(j) = "sending"
  BY <1>1 DEF NobodyAhead, SendOf, OnRecord, BoardTyped, JobState
<1>11. BoardTyped'
  BY <1>1, <1>2, <1>5 DEF BoardTyped, JobState
<1>12. NobodyAhead'
  BY <1>2, <1>6, <1>7, <1>9, <1>10 DEF NobodyAhead, OnRecord
<1>13. SettledComes'
  BY <1>2, <1>6, <1>8, <1>10 DEF SettledComes
<1>14. GoneComes'
  BY <1>2, <1>8, <1>9 DEF GoneComes
<1>15. InStep'
  BY <1>2, <1>8, <1>9 DEF InStep, Heals
<1>16. WatchedOnce'
  BY <1>2 DEF WatchedOnce
<1>17. WatchedWaits'
  BY <1>2, <1>8 DEF WatchedWaits, InFlightOf
<1> QED BY <1>11, <1>12, <1>13, <1>14, <1>15, <1>16, <1>17

LEMMA ReturnsKeeps == BoardInv /\ Returns => BoardInv'
<1> SUFFICES ASSUME BoardInv, Returns PROVE BoardInv'
  OBVIOUS
<1> USE DEF BoardInv
<1>1. PICK b \in Batches :
         /\ sends[b] = "sending"
         /\ ended \/ \A j \in JobsOf(b) : sent[j] # "none"
         /\ sends' = [sends EXCEPT ![b] = IF ended THEN "refused" ELSE "returned"]
         /\ store' = IF ended THEN store
                     ELSE [j \in BoardJobs |-> IF j \in JobsOf(b) THEN sent[j] ELSE store[j]]
  BY DEF Returns
<1>2. UNCHANGED <<ended, sent, ticking, events, board, watched, told, toast, asks,
                   crossed, hasty>>
  BY DEF Returns
<1>3. \A c \in Batches :
         sends'[c] = IF c = b THEN (IF ended THEN "refused" ELSE "returned") ELSE sends[c]
  BY <1>1 DEF BoardTyped
<1>4. \A j \in BoardJobs : SendOf(j)' = IF BatchOf[j] = b
                                         THEN (IF ended THEN "refused" ELSE "returned") ELSE SendOf(j)
  BY <1>2, <1>3, BoardConstants DEF SendOf
<1>4a. \A j \in BoardJobs : BatchOf[j] = b => SendOf(j) = "sending"
  BY <1>1 DEF SendOf
<1>4b. \A j \in BoardJobs : store'[j] = IF ~ended /\ BatchOf[j] = b THEN sent[j] ELSE store[j]
  BY <1>1 DEF JobsOf
<1>4c. ~ended => \A j \in BoardJobs : BatchOf[j] = b => sent[j] # "none"
  BY <1>1 DEF JobsOf
<1>4d. \A j \in BoardJobs : BatchOf[j] = b => store[j] = "none"
  BY <1>4a DEF NobodyAhead, OnRecord, BoardTyped, JobState
<1>4e. ended => store' = store
  BY <1>1
<1>5. Queued' = Queued
  BY <1>2 DEF Queued
<1>6. \A j, x : Seen(j, x)' <=> Seen(j, x)
  BY <1>2, <1>5 DEF Seen
<1>7. \A j : (Coming(j)' <=> Coming(j)) /\ (DoneComing(j)' <=> DoneComing(j))
  BY <1>2, <1>5 DEF Coming, DoneComing
<1>8. BoardTyped'
  <2>1. store' \in [BoardJobs -> JobState]
    BY <1>1 DEF BoardTyped
  <2>2. sends' \in [Batches -> SendState]
    BY <1>1 DEF BoardTyped, SendState
  <2> QED BY <1>2, <2>1, <2>2 DEF BoardTyped
<1>9. NobodyAhead'
  BY <1>2, <1>4, <1>4a, <1>4b, <1>4c, <1>4e, <1>6 DEF NobodyAhead, OnRecord
<1>10. SettledComes'
  BY <1>2, <1>4b, <1>7 DEF SettledComes
<1>11. GoneComes'
  BY <1>2, <1>4, <1>4b, <1>4c, <1>7 DEF GoneComes
<1>12. InStep'
  BY <1>2, <1>4, <1>4b, <1>7 DEF InStep, Heals
<1>13. WatchedOnce'
  <2>1. told[b] = 0 /\ b \notin watched
    BY <1>1 DEF WatchedOnce
  <2> QED BY <1>1, <1>2, <1>3, <1>4b, <2>1 DEF WatchedOnce
<1>14. WatchedWaits'
  BY <1>2, <1>7 DEF WatchedWaits, InFlightOf
<1> QED BY <1>8, <1>9, <1>10, <1>11, <1>12, <1>13, <1>14

\* What the reply merges: the rows the dispatch was sent with.
LEMMA ReplyRows ==
    ASSUME BoardTyped, NEW b \in Batches,
           NEW next, next = Merged(board, Restrict(sent, JobsOf(b)))
    PROVE  /\ next \in [BoardJobs -> JobState]
           /\ \A j \in BoardJobs : BatchOf[j] # b => next[j] = board[j]
           /\ \A j \in BoardJobs : BatchOf[j] = b =>
                  /\ board[j] = "done" /\ sent[j] # "done" => next[j] = "done"
                  /\ board[j] # "done" \/ sent[j] = "done" => next[j] = sent[j]
<1>1. PICK rows : rows = Restrict(sent, JobsOf(b))
  OBVIOUS
<1>2. DOMAIN rows = JobsOf(b) /\ \A j \in JobsOf(b) : rows[j] = sent[j]
  BY <1>1 DEF Restrict
<1>3. \A j \in JobsOf(b) : rows[j] \in JobState
  BY <1>2 DEF JobsOf, BoardTyped
<1>4. board \in [BoardJobs -> JobState] /\ next = Merged(board, rows)
  BY <1>1 DEF BoardTyped
<1>5. /\ Merged(board, rows) \in [BoardJobs -> JobState]
      /\ \A j \in BoardJobs :
           /\ j \notin DOMAIN rows => Merged(board, rows)[j] = board[j]
           /\ board[j] = "done" /\ j \in DOMAIN rows /\ rows[j] # "done"
                  => Merged(board, rows)[j] = "done"
           /\ j \in DOMAIN rows /\ (board[j] # "done" \/ rows[j] = "done")
                  => Merged(board, rows)[j] = rows[j]
  BY <1>2, <1>3, <1>4, MergedRow
<1>6. \A j \in BoardJobs : j \in DOMAIN rows <=> BatchOf[j] = b
  BY <1>2 DEF JobsOf
<1>7. \A j \in BoardJobs : BatchOf[j] = b => rows[j] = sent[j]
  BY <1>2, <1>6
<1> QED BY <1>4, <1>5, <1>6, <1>7

LEMMA ReplyLandsKeeps == BoardInv /\ ReplyLands => BoardInv'
<1> SUFFICES ASSUME BoardInv, ReplyLands PROVE BoardInv'
  OBVIOUS
<1> USE DEF BoardInv
<1>1. PICK b \in Batches :
         /\ sends[b] \in {"returned", "refused"}
         /\ sends' = [sends EXCEPT ![b] = "back"]
         /\ LET rows == Restrict(sent, JobsOf(b))
                live == InFlightOf(sent, b)
                next == Merged(board, rows)
            IN  \/ /\ sends[b] = "returned"
                   /\ board' = next
                   /\ watched' = IF live THEN watched \union {b} ELSE watched
                   /\ hasty' = IF live /\ ~InFlightOf(next, b) THEN hasty \union {b} ELSE hasty
                   /\ crossed' = crossed \union {j \in JobsOf(b) : store[j] = "none"}
                   /\ UNCHANGED <<asks, toast>>
                \/ /\ sends[b] = "returned"
                   /\ asks' = asks \union {AskList} /\ toast' = [toast EXCEPT !.error = TRUE]
                   /\ UNCHANGED <<board, watched, hasty, crossed>>
                \/ /\ sends[b] = "refused"
                   /\ toast' = [toast EXCEPT !.error = TRUE]
                   /\ UNCHANGED <<asks, board, watched, hasty, crossed>>
  BY DEF ReplyLands
<1>2. UNCHANGED <<store, ended, sent, ticking, events, told>>
  BY DEF ReplyLands
<1>3. \A c \in Batches : sends'[c] = IF c = b THEN "back" ELSE sends[c]
  BY <1>1 DEF BoardTyped
<1>4. \A j \in BoardJobs : SendOf(j)' = IF BatchOf[j] = b THEN "back" ELSE SendOf(j)
  BY <1>2, <1>3, BoardConstants DEF SendOf
<1>4a. \A j \in BoardJobs : BatchOf[j] = b => SendOf(j) = sends[b]
  BY DEF SendOf
<1>5. Queued' = Queued
  BY <1>2 DEF Queued
<1>7. \A j : (Coming(j)' <=> Coming(j)) /\ (DoneComing(j)' <=> DoneComing(j))
  BY <1>2, <1>5 DEF Coming, DoneComing
<1>8. sends' \in [Batches -> SendState]
  BY <1>1 DEF BoardTyped, SendState
<1>9. told[b] = 0 /\ b \notin watched
  BY <1>1 DEF WatchedOnce
<1>10. \A j \in BoardJobs : BatchOf[j] = b /\ sends[b] = "refused" => store[j] = "none"
  BY <1>4a DEF NobodyAhead, OnRecord, BoardTyped, JobState
<1>11. NoJobs \in [BoardJobs -> JobState] /\ \A j \in BoardJobs : NoJobs[j] = "none"
  BY BoardConstants
<1>12. toast.error \in BOOLEAN /\ toast.timer \in BOOLEAN
       /\ [toast EXCEPT !.error = TRUE] \in [error : BOOLEAN, timer : BOOLEAN]
       /\ [toast EXCEPT !.error = TRUE].timer = toast.timer
  BY DEF BoardTyped
<1>13. CASE /\ sends[b] = "refused"
            /\ toast' = [toast EXCEPT !.error = TRUE]
            /\ UNCHANGED <<asks, board, watched, hasty, crossed>>
  <2>1. \A j, x : Seen(j, x)' <=> Seen(j, x)
    BY <1>2, <1>5, <1>13 DEF Seen
  <2>2. BoardTyped'
    BY <1>2, <1>8, <1>12, <1>13 DEF BoardTyped
  <2>3. NobodyAhead'
    BY <1>2, <1>4, <1>4a, <1>13, <2>1 DEF NobodyAhead, OnRecord
  <2>4. SettledComes' /\ GoneComes'
    BY <1>2, <1>4, <1>4a, <1>7, <1>13 DEF SettledComes, GoneComes
  <2>5. InStep'
    BY <1>2, <1>4, <1>4a, <1>7, <1>13 DEF InStep, Heals
  <2>6. WatchedOnce'
    BY <1>2, <1>3, <1>9, <1>13 DEF WatchedOnce
  <2>7. WatchedWaits'
    BY <1>2, <1>7, <1>12, <1>13 DEF WatchedWaits, InFlightOf
  <2> QED BY <2>2, <2>3, <2>4, <2>5, <2>6, <2>7
<1>14. CASE /\ sends[b] = "returned"
            /\ asks' = asks \union {AskList} /\ toast' = [toast EXCEPT !.error = TRUE]
            /\ UNCHANGED <<board, watched, hasty, crossed>>
  <2>0. AskList \in AskCall /\ AskList.rows = NoJobs /\ ~AskList.late
    BY <1>11 DEF AskList, AskCall
  <2>1. \A j \in BoardJobs : \A x \in {"running", "done"} : Seen(j, x)' => Seen(j, x)
    BY <1>2, <1>5, <1>11, <1>14, <2>0 DEF Seen
  <2>2. BoardTyped'
    BY <1>2, <1>8, <1>12, <1>14, <2>0 DEF BoardTyped
  <2>3. NobodyAhead'
    BY <1>2, <1>4, <1>4a, <1>14, <2>1 DEF NobodyAhead, OnRecord
  <2>4. SettledComes' /\ GoneComes'
    BY <1>2, <1>4, <1>4a, <1>7, <1>14 DEF SettledComes, GoneComes
  <2>5. InStep'
    BY <1>14, <2>0 DEF InStep, Heals
  <2>6. WatchedOnce'
    BY <1>2, <1>3, <1>9, <1>14 DEF WatchedOnce
  <2>7. WatchedWaits'
    BY <1>2, <1>7, <1>12, <1>14 DEF WatchedWaits, InFlightOf
  <2> QED BY <2>2, <2>3, <2>4, <2>5, <2>6, <2>7
<1>15. PICK next : next = Merged(board, Restrict(sent, JobsOf(b)))
  OBVIOUS
<1>16. CASE /\ sends[b] = "returned"
            /\ board' = next
            /\ watched' = IF InFlightOf(sent, b) THEN watched \union {b} ELSE watched
            /\ hasty' = IF InFlightOf(sent, b) /\ ~InFlightOf(next, b)
                        THEN hasty \union {b} ELSE hasty
            /\ crossed' = crossed \union {j \in JobsOf(b) : store[j] = "none"}
            /\ UNCHANGED <<asks, toast>>
  <2>1. /\ board' \in [BoardJobs -> JobState]
        /\ \A j \in BoardJobs : BatchOf[j] # b => board'[j] = board[j]
        /\ \A j \in BoardJobs : BatchOf[j] = b =>
               /\ board[j] = "done" /\ sent[j] # "done" => board'[j] = "done"
               /\ board[j] # "done" \/ sent[j] = "done" => board'[j] = sent[j]
    BY <1>15, <1>16, ReplyRows
  <2>2. \A j \in BoardJobs : j \notin crossed' => j \notin crossed
                                                 /\ (BatchOf[j] = b => store[j] # "none")
    BY <1>16 DEF JobsOf
  <2>3. \A j \in BoardJobs : \A x \in {"running", "done"} :
            Seen(j, x)' => Seen(j, x) \/ (BatchOf[j] = b /\ sent[j] = x)
    BY <1>2, <1>5, <1>16, <2>1 DEF Seen
  <2>4. BoardTyped'
    <3>1. crossed' \subseteq BoardJobs /\ watched' \subseteq Batches
      BY <1>16 DEF BoardTyped, JobsOf
    <3> QED BY <1>2, <1>8, <1>16, <2>1, <3>1 DEF BoardTyped
  <2>5. NobodyAhead'
    BY <1>2, <1>4, <1>4a, <1>16, <2>3 DEF NobodyAhead, OnRecord
  <2>6. SettledComes'
    BY <1>2, <1>7, <2>1, <2>2 DEF SettledComes
  <2>7. GoneComes'
    BY <1>2, <1>4, <1>7, <2>1, <2>2 DEF GoneComes
  <2>8. \A j \in BoardJobs : BatchOf[j] = b /\ j \notin crossed'
            => \/ board'[j] = store[j]
               \/ store[j] = "done" /\ DoneComing(j)
    <3> SUFFICES ASSUME NEW j \in BoardJobs, BatchOf[j] = b, j \notin crossed'
                 PROVE  board'[j] = store[j] \/ (store[j] = "done" /\ DoneComing(j))
      OBVIOUS
    <3>1. store[j] \in {"running", "done"} /\ j \notin crossed
      BY <2>2 DEF BoardTyped, JobState
    <3>2. CASE store[j] = "running"
      <4>1. sent[j] = "running" /\ ~Seen(j, "done")
        BY <3>2 DEF NobodyAhead
      <4>2. board[j] # "done"
        BY <4>1 DEF Seen
      <4> QED BY <2>1, <3>2, <4>1, <4>2
    <3>3. CASE store[j] = "done"
      <4>1. sent[j] \in {"running", "done"}
        BY <3>3 DEF NobodyAhead, BoardTyped, JobState
      <4>2. sent[j] = "running" => board[j] = "done" \/ DoneComing(j)
        BY <3>1, <3>3 DEF SettledComes
      <4> QED BY <2>1, <3>3, <4>1, <4>2
    <3> QED BY <3>1, <3>2, <3>3
  <2>9. InStep'
    BY <1>2, <1>4, <1>7, <1>16, <2>1, <2>2, <2>8 DEF InStep, Heals
  <2>10. WatchedOnce'
    <3>1. \A c \in Batches : /\ told'[c] <= 1
                             /\ sends'[c] # "back" => told'[c] = 0 /\ c \notin watched'
      BY <1>2, <1>3, <1>16 DEF WatchedOnce
    <3>2. \A c \in watched' : told'[c] = 0
      BY <1>2, <1>9, <1>16 DEF WatchedOnce
    <3>3. \A j \in BoardJobs : j \notin crossed' =>
              (BatchOf[j] \in watched' /\ store[j] = "running" => board'[j] = "running")
      <4> SUFFICES ASSUME NEW j \in BoardJobs, j \notin crossed', BatchOf[j] \in watched',
                          store[j] = "running"
                   PROVE  board'[j] = "running"
        OBVIOUS
      <4>1. CASE BatchOf[j] = b
        BY <2>8, <4>1
      <4>2. CASE BatchOf[j] # b
        BY <1>16, <2>1, <2>2, <4>2 DEF WatchedOnce
      <4> QED BY <4>1, <4>2
    <3>4. \A j \in BoardJobs : j \notin crossed' => (told'[BatchOf[j]] = 1 => store[j] # "running")
      BY <1>2, <2>2 DEF WatchedOnce
    <3> QED BY <1>2, <3>1, <3>2, <3>3, <3>4 DEF WatchedOnce
  <2>11. WatchedWaits'
    <3> SUFFICES ASSUME NEW c \in watched', c \notin hasty'
                 PROVE  \/ ended \/ toast.timer \/ InFlightOf(board', c)
                        \/ JobsOf(c) \intersect crossed' # {}
                        \/ \E j \in JobsOf(c) : Coming(j)
      BY <1>2, <1>7, <1>16 DEF WatchedWaits, InFlightOf
    <3>1. CASE c = b
      BY <1>9, <1>16, <3>1
    <3>2. CASE c # b
      <4>1. c \in watched /\ c \notin hasty
        BY <1>16, <3>2
      <4>2. InFlightOf(board, c) => InFlightOf(board', c)
        BY <2>1, <3>2 DEF InFlightOf, JobsOf
      <4>3. JobsOf(c) \intersect crossed # {} => JobsOf(c) \intersect crossed' # {}
        BY <1>16
      <4> QED BY <4>1, <4>2, <4>3 DEF WatchedWaits
    <3> QED BY <3>1, <3>2
  <2> QED BY <2>4, <2>5, <2>6, <2>7, <2>9, <2>10, <2>11
<1> QED BY <1>1, <1>13, <1>14, <1>15, <1>16

-----------------------------------------------------------------------------
(* The poller *)

LEMMA TickSettlesKeeps == BoardInv /\ TickSettles => BoardInv'
<1> SUFFICES ASSUME BoardInv, TickSettles PROVE BoardInv'
  OBVIOUS
<1> USE DEF BoardInv
<1>1. PICK js \in (SUBSET {j \in BoardJobs : store[j] = "running"}) \ {{}} :
         /\ ticking' = js /\ js # {}
         /\ store' = [j \in BoardJobs |-> IF j \in js THEN "done" ELSE store[j]]
  BY DEF TickSettles
<1>2. /\ ticking = {}
      /\ UNCHANGED <<ended, sends, sent, events, board, watched, told, toast, asks, crossed, hasty>>
  BY DEF TickSettles
<1>3. \A j \in BoardJobs : store'[j] = IF j \in ticking' THEN "done" ELSE store[j]
  BY <1>1
<1>4. \A j \in ticking' : j \in BoardJobs /\ store[j] = "running" /\ store'[j] = "done"
  BY <1>1
<1>5. Queued' = Queued
  BY <1>2 DEF Queued
<1>6. \A j, x : Seen(j, x)' <=> Seen(j, x) \/ (x = "done" /\ j \in ticking')
  BY <1>2, <1>5 DEF Seen
<1>7. \A j : (Coming(j) => Coming(j)') /\ (DoneComing(j) => DoneComing(j)')
             /\ (j \in ticking' => DoneComing(j)')
  BY <1>2, <1>5 DEF Coming, DoneComing
<1>8. \A j \in BoardJobs : SendOf(j)' = SendOf(j)
  BY <1>2 DEF SendOf
<1>9. BoardTyped'
  <2>1. store' \in [BoardJobs -> JobState] /\ ticking' \subseteq BoardJobs
    BY <1>1 DEF BoardTyped, JobState
  <2> QED BY <1>2, <2>1 DEF BoardTyped
<1>10. ~ended
  <2>1. ticking' # {}
    BY <1>1
  <2> QED BY <1>4, <2>1, BoardConstants DEF NobodyAhead
<1>11. NobodyAhead'
  BY <1>2, <1>3, <1>4, <1>6, <1>8, <1>10 DEF NobodyAhead
<1>12. SettledComes'
  BY <1>2, <1>3, <1>7 DEF SettledComes
<1>13. GoneComes'
  BY <1>2, <1>3, <1>7, <1>8 DEF GoneComes
<1>14. InStep'
  BY <1>2, <1>3, <1>7, <1>8 DEF InStep, Heals
<1>15. WatchedOnce'
  BY <1>2, <1>3 DEF WatchedOnce
<1>16. WatchedWaits'
  BY <1>2, <1>7 DEF WatchedWaits, InFlightOf
<1> QED BY <1>9, <1>11, <1>12, <1>13, <1>14, <1>15, <1>16

LEMMA TickEmitsKeeps == BoardInv /\ TickEmits => BoardInv'
<1> SUFFICES ASSUME BoardInv, TickEmits PROVE BoardInv'
  OBVIOUS
<1> USE DEF BoardInv
<1>1. PICK e : e = [j \in ticking |-> "done"]
  OBVIOUS
<1>2. /\ Emits(e) /\ ticking' = {}
      /\ UNCHANGED <<store, ended, sends, sent, board, watched, told, toast, asks, crossed, hasty>>
  BY <1>1 DEF TickEmits
<1>3. e \in EventRows /\ DOMAIN e = ticking /\ \A j \in ticking : e[j] = "done"
  <2>1. ticking \in SUBSET BoardJobs /\ e \in [ticking -> {"running", "done"}]
    BY <1>1 DEF BoardTyped
  <2> QED BY <1>1, <2>1 DEF EventRows
<1>4. events' \in Seq(EventRows) /\ Queued' = Queued \union {e}
  BY <1>2, <1>3, Emitting
<1>6. \A j, x : Seen(j, x)' => Seen(j, x)
  BY <1>2, <1>3, <1>4 DEF Seen
<1>7. \A j : (Coming(j) => Coming(j)') /\ (DoneComing(j) => DoneComing(j)')
  BY <1>2, <1>3, <1>4 DEF Coming, DoneComing
<1>8. \A j \in BoardJobs : SendOf(j)' = SendOf(j)
  BY <1>2 DEF SendOf
<1>9. BoardTyped'
  BY <1>2, <1>4 DEF BoardTyped
<1>11. NobodyAhead'
  BY <1>2, <1>6, <1>8 DEF NobodyAhead
<1>12. SettledComes'
  BY <1>2, <1>7 DEF SettledComes
<1>13. GoneComes'
  BY <1>2, <1>7, <1>8 DEF GoneComes
<1>14. InStep'
  BY <1>2, <1>7, <1>8 DEF InStep, Heals
<1>15. WatchedOnce'
  BY <1>2 DEF WatchedOnce
<1>16. WatchedWaits'
  BY <1>2, <1>7 DEF WatchedWaits, InFlightOf
<1> QED BY <1>9, <1>11, <1>12, <1>13, <1>14, <1>15, <1>16

-----------------------------------------------------------------------------
(* The events, and the lists *)

\* What is announced is settled on the board; what is left to announce is in flight there.
LEMMA Announcing ==
    ASSUME WatchedOnce, BoardTyped, NEW rows, Announces(rows)
    PROVE  /\ watched' \subseteq watched /\ toast' \in [error : BOOLEAN, timer : BOOLEAN]
           /\ told' \in [Batches -> Nat]
           /\ \A b \in Batches : told'[b] = told[b] \/ (b \in watched /\ ~InFlightOf(rows, b)
                                                       /\ told'[b] = 1 /\ b \notin watched')
           /\ toast'.timer \/ \A b \in watched' : InFlightOf(rows, b)
<1>1. CASE toast.error
  <2>1. toast' = [toast EXCEPT !.timer = TRUE] /\ watched' = watched /\ told' = told
    BY <1>1 DEF Announces
  <2>2. toast' \in [error : BOOLEAN, timer : BOOLEAN] /\ toast'.timer
    BY <2>1 DEF BoardTyped
  <2> QED BY <2>1, <2>2 DEF BoardTyped
<1>2. CASE ~toast.error
  <2>1. /\ watched' = watched \ Finished(rows) /\ toast' = toast
        /\ told' = [b \in Batches |-> told[b] + IF b \in Finished(rows) /\ Listed(rows, b)
                                                    THEN 1 ELSE 0]
    BY <1>2 DEF Announces
  <2>2. \A b : b \in Finished(rows) <=> b \in watched /\ ~InFlightOf(rows, b)
    BY DEF Finished
  <2>3. \A b \in Batches : told[b] \in Nat /\ (b \in watched => told[b] = 0)
    BY DEF BoardTyped, WatchedOnce
  <2>4. \A b \in Batches : told'[b] = told[b] \/ (b \in Finished(rows) /\ told'[b] = told[b] + 1)
    BY <2>1, <2>3
  <2>5. told' \in [Batches -> Nat]
    BY <2>1, <2>3
  <2>6. \A b \in Batches : told'[b] = told[b] \/ (b \in watched /\ ~InFlightOf(rows, b)
                                                    /\ told'[b] = 1 /\ b \notin watched')
    BY <2>1, <2>2, <2>3, <2>4
  <2> QED BY <2>1, <2>2, <2>5, <2>6 DEF BoardTyped
<1> QED BY <1>1, <1>2

\* It says nothing of a job the backend has running, if the board has it running too.
LEMMA AnnouncingOnce ==
    ASSUME WatchedOnce, BoardTyped, NEW rows, Announces(rows),
           UNCHANGED <<sends, store>>, crossed \subseteq crossed', board' = rows,
           \A j \in BoardJobs : j \notin crossed' /\ BatchOf[j] \in watched
                                 /\ store[j] = "running" => rows[j] = "running"
    PROVE  WatchedOnce'
<1>1. /\ watched' \subseteq watched
      /\ \A b \in Batches : told'[b] = told[b] \/ (b \in watched /\ ~InFlightOf(rows, b)
                                                  /\ told'[b] = 1 /\ b \notin watched')
  BY Announcing
<1>2. \A b \in Batches : told'[b] <= 1 /\ (sends'[b] # "back" => told'[b] = 0 /\ b \notin watched')
  BY <1>1 DEF WatchedOnce
<1>3. \A b \in watched' : told'[b] = 0
  BY <1>1 DEF WatchedOnce, BoardTyped
<1>4. \A j \in BoardJobs : j \notin crossed' /\ told'[BatchOf[j]] = 1 => store[j] # "running"
  <2> SUFFICES ASSUME NEW j \in BoardJobs, j \notin crossed', told'[BatchOf[j]] = 1
               PROVE  store[j] # "running"
    OBVIOUS
  <2>1. j \notin crossed /\ BatchOf[j] \in Batches
    BY BoardConstants
  <2>2. CASE told'[BatchOf[j]] = told[BatchOf[j]]
    BY <2>1, <2>2 DEF WatchedOnce
  <2>3. CASE BatchOf[j] \in watched /\ ~InFlightOf(rows, BatchOf[j])
    <3>1. rows[j] # "running"
      BY <2>3 DEF InFlightOf, JobsOf
    <3> QED BY <2>3, <3>1
  <2> QED BY <1>1, <2>1, <2>2, <2>3
<1>5. \A j \in BoardJobs : j \notin crossed' /\ BatchOf[j] \in watched' /\ store[j] = "running"
                            => board'[j] = "running"
  BY <1>1
<1> QED BY <1>2, <1>3, <1>4, <1>5 DEF WatchedOnce

LEMMA AnnouncingWaits ==
    ASSUME WatchedOnce, BoardTyped, NEW rows, Announces(rows), board' = rows
    PROVE  WatchedWaits'
BY Announcing DEF WatchedWaits, InFlightOf

LEMMA EventLandsKeeps == BoardInv /\ EventLands => BoardInv'
<1> SUFFICES ASSUME BoardInv, EventLands PROVE BoardInv'
  OBVIOUS
<1> USE DEF BoardInv
<1>1. PICK e : e = Head(events)
  OBVIOUS
<1>2. /\ board' = Merged(board, e) /\ Announces(board')
      /\ crossed' = crossed \union {j \in DOMAIN e : store[j] = "none"
                                                   /\ sends[BatchOf[j]] # "sending"}
      /\ UNCHANGED <<store, ended, sends, sent, ticking, asks, hasty>>
  BY <1>1 DEF EventLands
<1>3. events' \in Seq(EventRows) /\ e \in EventRows /\ Queued = Queued' \union {e}
  BY <1>1, Delivering DEF EventLands
<1>4. DOMAIN e \subseteq BoardJobs /\ \A j \in DOMAIN e : e[j] \in {"running", "done"}
  BY <1>3, EventRow
<1>5. /\ board' \in [BoardJobs -> JobState]
      /\ \A j \in BoardJobs :
           /\ j \notin DOMAIN e => board'[j] = board[j]
           /\ board[j] = "done" /\ j \in DOMAIN e /\ e[j] # "done" => board'[j] = "done"
           /\ j \in DOMAIN e /\ (board[j] # "done" \/ e[j] = "done") => board'[j] = e[j]
  <2>1. board \in [BoardJobs -> JobState] /\ \A j \in DOMAIN e : e[j] \in JobState
    BY <1>4 DEF BoardTyped, JobState
  <2> QED BY <1>2, <2>1, MergedRow
<1>6. \A j : \A x \in {"running", "done"} : Seen(j, x)' /\ j \in BoardJobs => Seen(j, x)
  BY <1>2, <1>3, <1>5 DEF Seen
<1>7. \A j \in BoardJobs : (Coming(j) => Coming(j)' \/ j \in DOMAIN e)
        /\ (DoneComing(j) => DoneComing(j)' \/ (j \in DOMAIN e /\ e[j] = "done"))
  BY <1>2, <1>3 DEF Coming, DoneComing
<1>8. \A j \in BoardJobs : SendOf(j)' = SendOf(j)
  BY <1>2 DEF SendOf
<1>9. \A j \in BoardJobs : j \notin crossed' =>
        j \notin crossed /\ (j \in DOMAIN e /\ store[j] = "none" => SendOf(j) = "sending")
  BY <1>2 DEF SendOf
<1>10. BoardTyped'
  <2>1. /\ watched' \subseteq watched /\ toast' \in [error : BOOLEAN, timer : BOOLEAN]
        /\ told' \in [Batches -> Nat]
    BY <1>2, Announcing
  <2>2. crossed' \subseteq BoardJobs
    BY <1>2, <1>4 DEF BoardTyped
  <2> QED BY <1>2, <1>3, <1>5, <2>1, <2>2 DEF BoardTyped
<1>11. NobodyAhead'
  BY <1>2, <1>6, <1>8 DEF NobodyAhead
<1>12. SettledComes'
  BY <1>2, <1>5, <1>7, <1>9 DEF SettledComes
<1>13. GoneComes'
  BY <1>2, <1>4, <1>5, <1>7, <1>8, <1>9 DEF GoneComes
<1>14. \A j \in BoardJobs : j \in DOMAIN e => Seen(j, e[j])
  BY <1>3 DEF Seen
<1>15. InStep'
  <2> SUFFICES ASSUME NEW j \in BoardJobs, j \notin crossed', ~ended,
                      SendOf(j) \notin {"sending", "returned"}, ~Heals
               PROVE  board'[j] = store[j] \/ (store[j] = "done" /\ DoneComing(j)')
    BY <1>2, <1>8 DEF InStep, Heals
  <2>1. board[j] = store[j] \/ (store[j] = "done" /\ DoneComing(j))
    BY <1>9 DEF InStep
  <2>2. CASE j \notin DOMAIN e
    BY <1>5, <1>7, <2>1, <2>2
  <2>3. CASE j \in DOMAIN e /\ store[j] = "running"
    <3>1. e[j] = "running"
      BY <1>4, <1>14, <2>3 DEF NobodyAhead
    <3> QED BY <1>5, <2>1, <2>3, <3>1
  <2>4. CASE j \in DOMAIN e /\ store[j] = "done"
    BY <1>5, <1>7, <2>1, <2>4
  <2>5. CASE j \in DOMAIN e /\ store[j] = "none"
    BY <1>9, <2>5
  <2> QED BY <2>2, <2>3, <2>4, <2>5 DEF BoardTyped, JobState
<1>16. WatchedOnce'
  <2>1. \A j \in BoardJobs : j \notin crossed' /\ BatchOf[j] \in watched
                                 /\ store[j] = "running" => board'[j] = "running"
    <3> SUFFICES ASSUME NEW j \in BoardJobs, j \notin crossed', BatchOf[j] \in watched,
                        store[j] = "running"
                 PROVE  board'[j] = "running"
      OBVIOUS
    <3>1. board[j] = "running"
      BY <1>9 DEF WatchedOnce
    <3>2. j \in DOMAIN e => e[j] = "running"
      BY <1>4, <1>14 DEF NobodyAhead
    <3> QED BY <1>5, <3>1, <3>2
  <2>2. crossed \subseteq crossed' /\ UNCHANGED <<sends, store>>
    BY <1>2
  <2>3. PICK rows : rows = board'
    OBVIOUS
  <2> QED BY <1>2, <2>1, <2>2, <2>3, AnnouncingOnce
<1>17. WatchedWaits'
  <2>1. PICK rows : rows = board'
    OBVIOUS
  <2> QED BY <1>2, <2>1, AnnouncingWaits
<1> QED BY <1>10, <1>11, <1>12, <1>13, <1>15, <1>16, <1>17

LEMMA AsksForListKeeps == BoardInv /\ AsksForList => BoardInv'
<1> SUFFICES ASSUME BoardInv, AsksForList PROVE BoardInv'
  OBVIOUS
<1> USE DEF BoardInv
<1>1. PICK clear \in BOOLEAN : asks' = asks \union {[AskList EXCEPT !.clear = clear]}
  BY DEF AsksForList
<1>2. UNCHANGED <<store, ended, sends, sent, ticking, events, board, watched, told, toast,
                   crossed, hasty>>
  BY DEF AsksForList
<1>3. PICK a : a = [AskList EXCEPT !.clear = clear]
  OBVIOUS
<1>4. a \in AskCall /\ a.rows = NoJobs /\ ~a.late
  BY <1>3, BoardConstants DEF AskList, AskCall
<1>5. asks' = asks \union {a}
  BY <1>1, <1>3
<1>6. Queued' = Queued
  BY <1>2 DEF Queued
<1>7. \A j \in BoardJobs : \A x \in {"running", "done"} : Seen(j, x)' => Seen(j, x)
  BY <1>2, <1>4, <1>5, <1>6, BoardConstants DEF Seen
<1>8. \A j : (Coming(j)' <=> Coming(j)) /\ (DoneComing(j)' <=> DoneComing(j))
  BY <1>2, <1>6 DEF Coming, DoneComing
<1>9. \A j \in BoardJobs : SendOf(j)' = SendOf(j)
  BY <1>2 DEF SendOf
<1>10. BoardTyped'
  BY <1>2, <1>4, <1>5 DEF BoardTyped
<1>11. NobodyAhead'
  BY <1>2, <1>7, <1>9 DEF NobodyAhead
<1>12. SettledComes' /\ GoneComes'
  BY <1>2, <1>8, <1>9 DEF SettledComes, GoneComes
<1>13. InStep'
  BY <1>4, <1>5 DEF InStep, Heals
<1>14. WatchedOnce'
  BY <1>2 DEF WatchedOnce
<1>15. WatchedWaits'
  BY <1>2, <1>8 DEF WatchedWaits, InFlightOf
<1> QED BY <1>10, <1>11, <1>12, <1>13, <1>14, <1>15

LEMMA AnswersListKeeps == BoardInv /\ AnswersList => BoardInv'
<1> SUFFICES ASSUME BoardInv, AnswersList PROVE BoardInv'
  OBVIOUS
<1> USE DEF BoardInv
<1>1. PICK a \in asks :
         LET left == IF a.clear THEN [j \in BoardJobs |-> IF store[j] = "done" THEN "none"
                                                         ELSE store[j]]
                     ELSE store
         IN  /\ ~a.answered
             /\ store' = left
             /\ asks' = (asks \ {a}) \union {[a EXCEPT !.answered = TRUE, !.rows = left]}
  BY DEF AnswersList
<1>2. UNCHANGED <<ended, sends, sent, ticking, events, board, watched, told, toast, crossed, hasty>>
  BY DEF AnswersList
<1>3. /\ store' = IF a.clear THEN [j \in BoardJobs |-> IF store[j] = "done" THEN "none"
                                                      ELSE store[j]]
                  ELSE store
      /\ asks' = (asks \ {a}) \union {[a EXCEPT !.answered = TRUE, !.rows = store']}
  BY <1>1
<1>4. PICK b : b = [a EXCEPT !.answered = TRUE, !.rows = store']
  OBVIOUS
<1>5. store' \in [BoardJobs -> JobState]
  BY <1>3 DEF BoardTyped, JobState
<1>6. b \in AskCall /\ b.rows = store' /\ b.clear = a.clear /\ b.late = a.late
  BY <1>4, <1>5 DEF BoardTyped, AskCall
<1>7. asks' = (asks \ {a}) \union {b}
  BY <1>3, <1>4
<1>8. \A j \in BoardJobs : /\ store'[j] = store[j] \/ (a.clear /\ store[j] = "done" /\ store'[j] = "none")
                           /\ a.clear => store'[j] # "done"
  BY <1>3
<1>8a. ended => store' = NoJobs
  <2>1. ended => store = NoJobs
    BY DEF NobodyAhead
  <2>2. ended => \A j \in BoardJobs : store'[j] = "none"
    BY <1>8, <2>1, BoardConstants
  <2> QED BY <1>5, <2>2 DEF NoJobs
<1>9. Queued' = Queued
  BY <1>2 DEF Queued
<1>10. \A j \in BoardJobs : \A x \in {"running", "done"} :
           Seen(j, x)' => Seen(j, x) \/ store'[j] = x
  BY <1>2, <1>6, <1>7, <1>9 DEF Seen
<1>11. \A j : (Coming(j)' <=> Coming(j)) /\ (DoneComing(j)' <=> DoneComing(j))
  BY <1>2, <1>9 DEF Coming, DoneComing
<1>12. \A j \in BoardJobs : SendOf(j)' = SendOf(j)
  BY <1>2 DEF SendOf
<1>13. BoardTyped'
  BY <1>2, <1>5, <1>6, <1>7 DEF BoardTyped
<1>14. NobodyAhead'
  <2> SUFFICES ASSUME NEW j \in BoardJobs
               PROVE  /\ SendOf(j) = "none" => sent[j] = "none"
                      /\ SendOf(j) = "returned" => sent[j] # "none"
                      /\ store'[j] = "running" => sent[j] = "running" /\ SendOf(j) \in OnRecord
                      /\ store'[j] = "done" => sent[j] # "none" /\ SendOf(j) \in OnRecord
                      /\ Seen(j, "running")' => sent[j] = "running"
                      /\ Seen(j, "done")' => \/ sent[j] = "done"
                                            \/ /\ sent[j] = "running" /\ store'[j] # "running"
                                               /\ SendOf(j) \in OnRecord
    BY <1>2, <1>8a, <1>12 DEF NobodyAhead
  <2>1. /\ SendOf(j) = "none" => sent[j] = "none"
        /\ SendOf(j) = "returned" => sent[j] # "none"
        /\ store'[j] = "running" => sent[j] = "running" /\ SendOf(j) \in OnRecord
        /\ store'[j] = "done" => sent[j] # "none" /\ SendOf(j) \in OnRecord
    BY <1>8 DEF NobodyAhead
  <2>2. Seen(j, "running")' => sent[j] = "running"
    BY <1>8, <1>10 DEF NobodyAhead
  <2>3. Seen(j, "done")' => \/ sent[j] = "done"
                            \/ /\ sent[j] = "running" /\ store'[j] # "running"
                               /\ SendOf(j) \in OnRecord
    <3>1. CASE Seen(j, "done")
      BY <1>8, <3>1 DEF NobodyAhead
    <3>2. CASE store'[j] = "done"
      BY <1>8, <3>2 DEF NobodyAhead, BoardTyped, JobState
    <3> QED BY <1>10, <3>1, <3>2
  <2> QED BY <2>1, <2>2, <2>3
<1>15. SettledComes'
  BY <1>2, <1>8, <1>11 DEF SettledComes
<1>16. GoneComes'
  <2> SUFFICES ASSUME NEW j \in BoardJobs, j \notin crossed, ~ended, SendOf(j) # "sending",
                      store'[j] = "none", board[j] = "running"
               PROVE  Coming(j)
    BY <1>2, <1>11, <1>12 DEF GoneComes
  <2>1. CASE store[j] = "none"
    BY <2>1 DEF GoneComes
  <2>2. CASE store[j] = "done"
    <3>1. sent[j] = "running"
      BY DEF NobodyAhead, Seen
    <3>2. DoneComing(j)
      BY <2>2, <3>1 DEF SettledComes
    <3> QED BY <3>2 DEF DoneComing, Coming
  <2> QED BY <1>8, <2>1, <2>2
<1>17. InStep'
  <2>1. CASE a.clear
    BY <1>6, <1>7, <2>1 DEF InStep, Heals
  <2>2. CASE ~a.clear
    <3>1. store' = store
      BY <1>3, <2>2
    <3>2. Heals => Heals'
      BY <1>6, <1>7 DEF Heals
    <3> QED BY <1>2, <1>11, <1>12, <3>1, <3>2 DEF InStep
  <2> QED BY <2>1, <2>2
<1>18. WatchedOnce'
  BY <1>2, <1>8 DEF WatchedOnce
<1>19. WatchedWaits'
  BY <1>2, <1>11 DEF WatchedWaits, InFlightOf
<1> QED BY <1>13, <1>14, <1>15, <1>16, <1>17, <1>18, <1>19

LEMMA ListLandsKeeps == BoardInv /\ ListLands => BoardInv'
<1> SUFFICES ASSUME BoardInv, ListLands PROVE BoardInv'
  OBVIOUS
<1> USE DEF BoardInv
<1>1. PICK a \in asks :
         /\ asks' = asks \ {a}
         /\ IF a.late /\ ~a.clear THEN UNCHANGED <<board, crossed, watched, told, toast>>
            ELSE /\ board' = a.rows
                 /\ crossed' = crossed \union Overtaken(a.rows)
                 /\ IF a.clear THEN UNCHANGED <<watched, told, toast>> ELSE Announces(board')
  BY DEF ListLands
<1>2. UNCHANGED <<store, ended, sends, sent, ticking, events, hasty>>
  BY DEF ListLands
<1>3. Queued' = Queued
  BY <1>2 DEF Queued
<1>4. \A j : (Coming(j)' <=> Coming(j)) /\ (DoneComing(j)' <=> DoneComing(j))
  BY <1>2, <1>3 DEF Coming, DoneComing
<1>5. \A j \in BoardJobs : SendOf(j)' = SendOf(j)
  BY <1>2 DEF SendOf
<1>6. a.rows \in [BoardJobs -> JobState]
  BY DEF BoardTyped, AskCall
<1>7. \A j : \A x : Seen(j, x)' => Seen(j, x)
  BY <1>1, <1>2, <1>3 DEF Seen
<1>8. NobodyAhead'
  BY <1>2, <1>5, <1>7 DEF NobodyAhead
<1>9. CASE a.late /\ ~a.clear
  <2>1. UNCHANGED <<board, crossed, watched, told, toast>>
    BY <1>1, <1>9
  <2>2. BoardTyped'
    BY <1>1, <1>2, <2>1 DEF BoardTyped
  <2>3. SettledComes' /\ GoneComes'
    BY <1>2, <1>4, <1>5, <2>1 DEF SettledComes, GoneComes
  <2>4. InStep'
    <3>1. Heals => Heals'
      BY <1>1, <1>9 DEF Heals
    <3> QED BY <1>2, <1>4, <1>5, <2>1, <3>1 DEF InStep
  <2>5. WatchedOnce'
    BY <1>2, <2>1 DEF WatchedOnce
  <2>6. WatchedWaits'
    BY <1>2, <1>4, <2>1 DEF WatchedWaits, InFlightOf
  <2> QED BY <1>8, <2>2, <2>3, <2>4, <2>5, <2>6
<1>10. CASE ~(a.late /\ ~a.clear)
  <2>1. /\ board' = a.rows /\ crossed' = crossed \union Overtaken(a.rows)
        /\ IF a.clear THEN UNCHANGED <<watched, told, toast>> ELSE Announces(board')
    BY <1>1, <1>10
  <2>2. \A j \in BoardJobs : j \notin crossed' => j \notin crossed /\ board'[j] = store[j]
    BY <2>1 DEF Overtaken
  <2>3. SettledComes' /\ GoneComes' /\ InStep'
    BY <1>2, <2>2 DEF SettledComes, GoneComes, InStep
  <2>4. crossed \subseteq crossed' /\ crossed' \subseteq BoardJobs
    BY <2>1 DEF BoardTyped, Overtaken
  <2>5. board' \in [BoardJobs -> JobState] /\ asks' \subseteq AskCall
    BY <1>1, <1>6, <2>1 DEF BoardTyped
  <2>6. CASE a.clear
    <3>1. UNCHANGED <<watched, told, toast>>
      BY <2>1, <2>6
    <3>2. BoardTyped'
      BY <1>2, <2>4, <2>5, <3>1 DEF BoardTyped
    <3>3. WatchedOnce'
      BY <1>2, <2>2, <3>1 DEF WatchedOnce
    <3>4. WatchedWaits'
      <4> SUFFICES ASSUME NEW b \in watched, b \notin hasty, ~ended, ~toast.timer,
                          JobsOf(b) \intersect crossed' = {}
                   PROVE  InFlightOf(board', b) \/ \E j \in JobsOf(b) : Coming(j)
        BY <1>2, <1>4, <3>1 DEF WatchedWaits, InFlightOf
      <4>1. JobsOf(b) \intersect crossed = {}
        BY <2>4
      <4>2. InFlightOf(board, b) \/ \E j \in JobsOf(b) : Coming(j)
        BY <4>1 DEF WatchedWaits
      <4>3. CASE InFlightOf(board, b)
        <5>1. PICK j \in JobsOf(b) : board[j] = "running"
          BY <4>3 DEF InFlightOf
        <5>2. j \in BoardJobs /\ BatchOf[j] = b /\ j \notin crossed' /\ j \notin crossed
          BY <4>1 DEF JobsOf
        <5>3. sent[j] = "running" /\ SendOf(j) = "back"
          BY <5>1, <5>2 DEF NobodyAhead, Seen, WatchedOnce, SendOf, BoardTyped
        <5>4. CASE store[j] = "running"
          BY <2>2, <5>1, <5>2, <5>4 DEF InFlightOf
        <5>5. CASE store[j] = "done"
          <6>1. DoneComing(j)
            BY <5>1, <5>2, <5>3, <5>5 DEF SettledComes
          <6> QED BY <5>1, <6>1 DEF DoneComing, Coming
        <5>6. CASE store[j] = "none"
          BY <5>1, <5>2, <5>3, <5>6 DEF GoneComes
        <5> QED BY <5>2, <5>4, <5>5, <5>6 DEF BoardTyped, JobState
      <4> QED BY <4>2, <4>3
    <3> QED BY <1>8, <2>3, <3>2, <3>3, <3>4
  <2>7. CASE ~a.clear
    <3>1. PICK rows : rows = board'
      OBVIOUS
    <3>2. Announces(rows) /\ board' = rows
      BY <2>1, <2>7, <3>1
    <3>3. /\ watched' \subseteq watched /\ toast' \in [error : BOOLEAN, timer : BOOLEAN]
          /\ told' \in [Batches -> Nat]
      BY <3>2, Announcing
    <3>4. BoardTyped'
      BY <1>2, <2>4, <2>5, <3>3 DEF BoardTyped
    <3>5. \A j \in BoardJobs : j \notin crossed' /\ BatchOf[j] \in watched
                                 /\ store[j] = "running" => rows[j] = "running"
      BY <2>2, <3>2
    <3>6. UNCHANGED <<sends, store>>
      BY <1>2
    <3>7. WatchedOnce'
      BY <2>4, <3>2, <3>5, <3>6, AnnouncingOnce
    <3>8. WatchedWaits'
      BY <3>2, AnnouncingWaits
    <3> QED BY <1>8, <2>3, <3>4, <3>7, <3>8
  <2> QED BY <2>6, <2>7
<1> QED BY <1>9, <1>10

-----------------------------------------------------------------------------
(* Toasts, the end of the session, and the theorems *)

LEMMA ToastsKeep == BoardInv /\ (ErrorShows \/ ErrorGoes) => BoardInv'
<1> SUFFICES ASSUME BoardInv, ErrorShows \/ ErrorGoes PROVE BoardInv'
  OBVIOUS
<1> USE DEF BoardInv
<1>1. UNCHANGED <<store, ended, sends, sent, ticking, events, board, watched, told, asks,
                   crossed, hasty>>
  BY DEF ErrorShows, ErrorGoes
<1>2. toast' \in [error : BOOLEAN, timer : BOOLEAN] /\ toast'.timer = toast.timer
  BY DEF ErrorShows, ErrorGoes, BoardTyped
<1>3. Queued' = Queued
  BY <1>1 DEF Queued
<1>4. \A j, x : Seen(j, x)' <=> Seen(j, x)
  BY <1>1, <1>3 DEF Seen
<1>5. \A j : (Coming(j)' <=> Coming(j)) /\ (DoneComing(j)' <=> DoneComing(j))
  BY <1>1, <1>3 DEF Coming, DoneComing
<1>6. \A j \in BoardJobs : SendOf(j)' = SendOf(j)
  BY <1>1 DEF SendOf
<1>7. BoardTyped'
  BY <1>1, <1>2 DEF BoardTyped
<1>8. NobodyAhead'
  BY <1>1, <1>4, <1>6 DEF NobodyAhead
<1>9. SettledComes' /\ GoneComes'
  BY <1>1, <1>5, <1>6 DEF SettledComes, GoneComes
<1>10. InStep'
  BY <1>1, <1>5, <1>6 DEF InStep, Heals
<1>11. WatchedOnce'
  BY <1>1 DEF WatchedOnce
<1>12. WatchedWaits'
  BY <1>1, <1>2, <1>5 DEF WatchedWaits, InFlightOf
<1> QED BY <1>7, <1>8, <1>9, <1>10, <1>11, <1>12

LEMMA TimerFiresKeeps == BoardInv /\ TimerFires => BoardInv'
<1> SUFFICES ASSUME BoardInv, TimerFires PROVE BoardInv'
  OBVIOUS
<1> USE DEF BoardInv
<1>1. UNCHANGED <<store, ended, sends, sent, ticking, events, board, asks, crossed, hasty>>
  BY DEF TimerFires
<1>2. Queued' = Queued
  BY <1>1 DEF Queued
<1>3. \A j, x : Seen(j, x)' <=> Seen(j, x)
  BY <1>1, <1>2 DEF Seen
<1>4. \A j : (Coming(j)' <=> Coming(j)) /\ (DoneComing(j)' <=> DoneComing(j))
  BY <1>1, <1>2 DEF Coming, DoneComing
<1>5. \A j \in BoardJobs : SendOf(j)' = SendOf(j)
  BY <1>1 DEF SendOf
<1>6. NobodyAhead'
  BY <1>1, <1>3, <1>5 DEF NobodyAhead
<1>7. SettledComes' /\ GoneComes'
  BY <1>1, <1>4, <1>5 DEF SettledComes, GoneComes
<1>8. InStep'
  BY <1>1, <1>4, <1>5 DEF InStep, Heals
<1>9. CASE toast.error
  <2>1. UNCHANGED <<watched, told, toast>>
    BY <1>9 DEF TimerFires
  <2>2. BoardTyped'
    BY <1>1, <2>1 DEF BoardTyped
  <2>3. WatchedOnce'
    BY <1>1, <2>1 DEF WatchedOnce
  <2>4. WatchedWaits'
    BY <1>1, <1>4, <2>1 DEF WatchedWaits, InFlightOf
  <2> QED BY <1>6, <1>7, <1>8, <2>2, <2>3, <2>4
<1>10. CASE ~toast.error
  <2>1. /\ watched' = watched \ Finished(board) /\ toast' = Calm
        /\ told' = [b \in Batches |->
                       told[b] + IF b \in Finished(board) /\ Listed(board, b) THEN 1 ELSE 0]
    BY <1>10 DEF TimerFires
  <2>2. \A b : b \in Finished(board) <=> b \in watched /\ ~InFlightOf(board, b)
    BY DEF Finished
  <2>3. \A b \in Batches : told[b] \in Nat /\ (b \in watched => told[b] = 0)
    BY DEF BoardTyped, WatchedOnce
  <2>4. \A b \in Batches : told'[b] = told[b] \/ (b \in Finished(board) /\ told'[b] = told[b] + 1)
    BY <2>1, <2>3
  <2>5. told' \in [Batches -> Nat]
    BY <2>1, <2>3
  <2>6. \A b \in Batches : told'[b] = told[b] \/ (b \in watched /\ ~InFlightOf(board, b)
                                                    /\ told'[b] = 1 /\ b \notin watched')
    BY <2>1, <2>2, <2>3, <2>4
  <2>7. BoardTyped'
    BY <1>1, <2>1, <2>5 DEF BoardTyped, Calm
  <2>8. WatchedOnce'
    <3>1. \A b \in Batches : told'[b] <= 1 /\ (sends'[b] # "back" => told'[b] = 0 /\ b \notin watched')
      BY <1>1, <2>1, <2>6 DEF WatchedOnce
    <3>2. \A b \in watched' : told'[b] = 0
      BY <2>1, <2>6 DEF WatchedOnce, BoardTyped
    <3>3. \A j \in BoardJobs : j \notin crossed /\ told'[BatchOf[j]] = 1 => store[j] # "running"
      <4> SUFFICES ASSUME NEW j \in BoardJobs, j \notin crossed, told'[BatchOf[j]] = 1
                   PROVE  store[j] # "running"
        OBVIOUS
      <4>1. BatchOf[j] \in Batches
        BY BoardConstants
      <4>2. CASE told'[BatchOf[j]] = told[BatchOf[j]]
        BY <4>2 DEF WatchedOnce
      <4>3. CASE BatchOf[j] \in watched /\ ~InFlightOf(board, BatchOf[j])
        <5>1. board[j] # "running"
          BY <4>3 DEF InFlightOf, JobsOf
        <5> QED BY <4>3, <5>1 DEF WatchedOnce
      <4> QED BY <2>6, <4>1, <4>2, <4>3
    <3> QED BY <1>1, <2>1, <3>1, <3>2, <3>3 DEF WatchedOnce
  <2>9. WatchedWaits'
    BY <1>1, <2>1, <2>2 DEF WatchedWaits, InFlightOf
  <2> QED BY <1>6, <1>7, <1>8, <2>7, <2>8, <2>9
<1> QED BY <1>9, <1>10

LEMMA EndsSessionKeeps == BoardInv /\ EndsSession => BoardInv'
<1> SUFFICES ASSUME BoardInv, EndsSession PROVE BoardInv'
  OBVIOUS
<1> USE DEF BoardInv
<1>1. /\ ended' = TRUE /\ store' = NoJobs
      /\ UNCHANGED <<sends, sent, ticking, events, board, watched, told, toast, asks, crossed, hasty>>
  BY DEF EndsSession
<1>2. \A j \in BoardJobs : store'[j] = "none"
  BY <1>1, BoardConstants
<1>3. Queued' = Queued
  BY <1>1 DEF Queued
<1>4. \A j, x : Seen(j, x)' <=> Seen(j, x)
  BY <1>1, <1>3 DEF Seen
<1>5. \A j \in BoardJobs : SendOf(j)' = SendOf(j)
  BY <1>1 DEF SendOf
<1>6. BoardTyped'
  BY <1>1, BoardConstants DEF BoardTyped
<1>7. NobodyAhead'
  BY <1>1, <1>2, <1>4, <1>5 DEF NobodyAhead
<1>8. SettledComes' /\ GoneComes' /\ InStep' /\ WatchedWaits'
  BY <1>1, <1>2 DEF SettledComes, GoneComes, InStep, WatchedWaits
<1>9. WatchedOnce'
  BY <1>1, <1>2 DEF WatchedOnce
<1> QED BY <1>6, <1>7, <1>8, <1>9

LEMMA ClearsBoardKeeps == BoardInv /\ ClearsBoard => BoardInv'
<1> SUFFICES ASSUME BoardInv, ClearsBoard PROVE BoardInv'
  OBVIOUS
<1> USE DEF BoardInv
<1>1. /\ ended /\ ended' = FALSE /\ board' = NoJobs /\ watched' = {}
      /\ asks' = {[a EXCEPT !.late = TRUE] : a \in asks}
      /\ UNCHANGED <<store, sends, sent, ticking, events, told, toast, crossed, hasty>>
  BY DEF ClearsBoard
<1>2. \A j \in BoardJobs : store[j] = "none" /\ board'[j] = "none"
  BY <1>1, BoardConstants DEF NobodyAhead
<1>3. Queued' = Queued
  BY <1>1 DEF Queued
<1>4. \A b \in asks' : b \in AskCall /\ \E a \in asks : b.rows = a.rows
  BY <1>1, ZenonT(60) DEF BoardTyped, AskCall
<1>5. \A j \in BoardJobs : \A x \in {"running", "done"} : Seen(j, x)' => Seen(j, x)
  BY <1>1, <1>2, <1>3, <1>4 DEF Seen
<1>6. \A j \in BoardJobs : SendOf(j)' = SendOf(j)
  BY <1>1 DEF SendOf
<1>7. BoardTyped'
  <2>1. asks' \subseteq AskCall
    BY <1>4
  <2> QED BY <1>1, <2>1, BoardConstants DEF BoardTyped
<1>8. NobodyAhead'
  BY <1>1, <1>2, <1>5, <1>6 DEF NobodyAhead
<1>9. SettledComes' /\ GoneComes' /\ InStep' /\ WatchedWaits'
  BY <1>1, <1>2 DEF SettledComes, GoneComes, InStep, WatchedWaits
<1>10. WatchedOnce'
  BY <1>1, <1>2 DEF WatchedOnce
<1> QED BY <1>7, <1>8, <1>9, <1>10

LEMMA BoardStutters == BoardInv /\ UNCHANGED boardVars => BoardInv'
<1> SUFFICES ASSUME BoardInv, UNCHANGED boardVars PROVE BoardInv'
  OBVIOUS
<1>1. UNCHANGED <<store, ended, sends, sent, ticking, events, board, watched, told, toast, asks,
                   crossed, hasty>>
  BY DEF boardVars
<1> QED BY <1>1 DEF BoardInv, BoardTyped, NobodyAhead, SettledComes, GoneComes, InStep, WatchedOnce,
                    WatchedWaits, Queued, Seen, Coming, DoneComing, SendOf, Heals, InFlightOf

LEMMA BoardMoves == BoardInv /\ [JobBoardNext]_boardVars => BoardInv'
BY ConfirmsKeeps, SendsJobKeeps, ReturnsKeeps, ReplyLandsKeeps, TickSettlesKeeps, TickEmitsKeeps,
   EventLandsKeeps, AsksForListKeeps, AnswersListKeeps, ListLandsKeeps, ToastsKeep,
   TimerFiresKeeps, EndsSessionKeeps, ClearsBoardKeeps, BoardStutters
DEF JobBoardNext

LEMMA BoardInStep == BoardInv => BoardCatchesUp
<1> SUFFICES ASSUME BoardInv, Quiet, NEW j \in BoardJobs, j \notin crossed
             PROVE  board[j] = store[j]
  BY DEF BoardCatchesUp
<1>1. ~ended /\ ~Dispatching /\ ticking = {} /\ events = <<>> /\ asks = {}
  BY DEF Quiet
<1>2. SendOf(j) \notin {"sending", "returned"}
  BY <1>1, BoardConstants DEF Dispatching, SendOf
<1>3. ~Heals /\ ~DoneComing(j)
  BY <1>1 DEF Heals, DoneComing, Queued
<1> QED BY <1>1, <1>2, <1>3 DEF BoardInv, InStep

LEMMA BoardTells == BoardInv => ToldOnceSettled
<1> SUFFICES ASSUME BoardInv PROVE ToldOnceSettled
  OBVIOUS
<1>1. \A b \in Batches : told[b] <= 1
  BY DEF BoardInv, WatchedOnce
<1>2. \A b \in Batches : told[b] = 1 => \A j \in JobsOf(b) \ crossed : store[j] # "running"
  BY DEF BoardInv, WatchedOnce, JobsOf
<1>3. Quiet => \A b \in watched \ hasty : InFlightOf(board, b) \/ JobsOf(b) \intersect crossed # {}
  <2> SUFFICES ASSUME Quiet, NEW b \in watched \ hasty
               PROVE  InFlightOf(board, b) \/ JobsOf(b) \intersect crossed # {}
    OBVIOUS
  <2>1. ~ended /\ ticking = {} /\ events = <<>> /\ ~toast.timer
    BY DEF Quiet, Calm
  <2>2. \A j : ~Coming(j)
    BY <2>1 DEF Coming, Queued
  <2> QED BY <2>1, <2>2 DEF BoardInv, WatchedWaits
<1> QED BY <1>1, <1>2, <1>3 DEF ToldOnceSettled

LEMMA BoardKept == JobBoardSpec => []BoardInv
BY BoardStart, BoardMoves, PTL DEF JobBoardSpec

\* Once every event and every reply has landed, the Jobs tab lists each job as the
\* backend holds it, whatever order the rows came in: merge_jobs and the replies of
\* run_action, list_jobs and clear_jobs, for any number of jobs and dispatches.
THEOREM TheBoardCatchesUp == JobBoardSpec => []BoardCatchesUp
<1>1. BoardInv => BoardCatchesUp
  BY BoardInStep
<1> QED BY <1>1, BoardKept, PTL

\* take_finished_batches and announce_settled_batches announce a dispatch once at most,
\* never while a job of it runs, and leave none waiting when nothing is left to come.
THEOREM DispatchesAreTold == JobBoardSpec => []ToldOnceSettled
<1>1. BoardInv => ToldOnceSettled
  BY BoardTells
<1> QED BY <1>1, BoardKept, PTL

-----------------------------------------------------------------------------
(* The proofs about QueryForm: FormInv.                                    *)

\* What the assumption says of the constants, without the texts.
LEMMA QFConstants ==
    /\ FirstTenant \in Tenants /\ TimeNow \in Int /\ DaySeconds \in Nat /\ DaySeconds > 0 /\ MaxSessions \in Nat
    /\ OrgsOf \in [Tenants -> SUBSET Ids] /\ GroupsOf \in [Tenants -> SUBSET Ids]
    /\ LocationsOf \in [Tenants -> SUBSET [id : Ids, org : Nat]]
    /\ Dates \subseteq Times /\ TypedDays \subseteq Ids
<1>1. /\ FirstTenant \in Tenants /\ TimeNow \in Int /\ DaySeconds \in Ids /\ MaxSessions \in Nat
      /\ OrgsOf \in [Tenants -> SUBSET Ids] /\ GroupsOf \in [Tenants -> SUBSET Ids]
      /\ LocationsOf \in [Tenants -> SUBSET [id : Ids, org : Nat]]
      /\ Dates \subseteq Times /\ TypedDays \subseteq Ids
  BY FormAssumption, Zenon
<1> QED  BY <1>1 DEF Ids

\* The form that a new session finds is a form.
LEMMA QFBlankForm ==
  ASSUME NEW e \in Texts
  PROVE  [orgs |-> {}, locs |-> {}, groups |-> {}, severities |-> {}, text |-> e, statuses |-> {"PENDING"},
          window |-> AnyTime, seenAfter |-> Unset, seenBefore |-> Unset,
          days |-> 30, custom |-> FALSE, from |-> Unset, to |-> Unset] \in Forms
<1>1. {"PENDING"} \in (SUBSET PatchStatuses) \ {{}}
  BY DEF PatchStatuses
<1>2. Unset \in Times /\ 30 \in Ids
  BY DEF Times, Ids
<1> QED  BY <1>1, <1>2 DEF Forms

LEMMA QFDefault == DefaultForm \in Forms
<1>1. "" \in Texts
  BY FormAssumption, Zenon
<1> QED  BY <1>1, QFBlankForm, Zenon DEF DefaultForm

\* Dates and bounds stay dates and bounds.
LEMMA QFDay ==
  ASSUME NEW e \in Times
  PROVE  DayOf(e) \in Times
<1>1. DaySeconds \in Nat /\ DaySeconds > 0
  BY QFConstants
<1>2. CASE e = Unset
  BY <1>2 DEF DayOf, Times
<1>3. CASE e # Unset
  <2>1. e \in Nat
    BY <1>3 DEF Times
  <2>2. e \div DaySeconds \in Nat
    BY <2>1, <1>1
  <2> QED  BY <1>3, <2>2 DEF DayOf, Times
<1> QED  BY <1>2, <1>3

LEMMA QFDate ==
  ASSUME NEW d \in Times
  PROVE  StartOfDay(d) \in Times /\ EndOfDay(d) \in Times
<1>1. DaySeconds \in Nat /\ DaySeconds > 0
  BY QFConstants
<1>2. CASE d = Unset
  BY <1>2 DEF StartOfDay, EndOfDay, Times
<1>3. CASE d # Unset
  <2>1. d \in Nat
    BY <1>3 DEF Times
  <2>2. d * DaySeconds \in Nat
    BY <2>1, <1>1
  <2> QED  BY <1>1, <1>3, <2>2 DEF StartOfDay, EndOfDay, Times
<1> QED  BY <1>2, <1>3

\* The day of the first second of a day, and of its last, is that day.
LEMMA QFDayOfDate ==
  ASSUME NEW d \in Times
  PROVE  DayOf(StartOfDay(d)) = d /\ DayOf(EndOfDay(d)) = d
<1>1. DaySeconds \in Nat /\ DaySeconds > 0
  BY QFConstants
<1>2. CASE d = Unset
  BY <1>2 DEF StartOfDay, EndOfDay, DayOf
<1>3. CASE d # Unset
  <2>1. d \in Nat
    BY <1>3 DEF Times
  <2>2. ASSUME NEW D \in Nat, D > 0, NEW r \in Nat, r < D, NEW q \in Nat, q = (d * D + r) \div D
        PROVE  q = d
    <3>1. d * D + r >= q * D /\ d * D + r < (q + 1) * D
      BY <2>1, <2>2
    <3>2. CASE q > d
      <4>1. q * D >= (d + 1) * D
        BY <3>2, <2>1, <2>2
      <4> QED  BY <4>1, <3>1, <2>1, <2>2
    <3>3. CASE q < d
      <4>1. (q + 1) * D <= d * D
        BY <3>3, <2>1, <2>2
      <4> QED  BY <4>1, <3>1, <2>1, <2>2
    <3> QED  BY <3>2, <3>3, <2>1, <2>2
  <2>3. d * DaySeconds \in Nat
    BY <2>1, <1>1
  <2>4. (d * DaySeconds + 0) \div DaySeconds = d
    <3>1. (d * DaySeconds + 0) \div DaySeconds \in Nat
      BY <2>3, <1>1
    <3> QED  BY <3>1, <1>1, <2>2
  <2>5. (d * DaySeconds + (DaySeconds - 1)) \div DaySeconds = d
    <3>1. (d * DaySeconds + (DaySeconds - 1)) \div DaySeconds \in Nat
      BY <2>3, <1>1
    <3> QED  BY <3>1, <1>1, <2>2
  <2>6. StartOfDay(d) = d * DaySeconds + 0 /\ EndOfDay(d) = d * DaySeconds + (DaySeconds - 1)
    BY <1>3, <2>3, <1>1 DEF StartOfDay, EndOfDay
  <2>7. StartOfDay(d) # Unset /\ EndOfDay(d) # Unset
    BY <2>6, <2>3, <1>1 DEF Unset
  <2> QED  BY <2>4, <2>5, <2>6, <2>7 DEF DayOf
<1> QED  BY <1>2, <1>3

\* What a preset or a link restores is a form: the first-seen controls, the install
\* window, and the whole of it.
LEMMA QFSeenTyped ==
  ASSUME NEW f \in Forms, NEW filter \in Filters
  PROVE  WithSeen(f, filter) \in Forms
<1>1. filter.within \in SeenWindows \union {Unset} /\ filter.seenAfter \in Times /\ filter.seenBefore \in Times
  BY DEF Filters
<1>2. DayOf(filter.seenAfter) \in Times /\ DayOf(filter.seenBefore) \in Times
  BY <1>1, QFDay
<1>3. PICK a, b : a = DayOf(filter.seenAfter) /\ b = DayOf(filter.seenBefore)
  OBVIOUS
<1>4. Unset \in Times
  BY DEF Times
<1>5. CASE filter.within # Unset
  <2>1. [f EXCEPT !.window = filter.within, !.seenAfter = Unset, !.seenBefore = Unset] \in Forms
    BY <1>1, <1>4, <1>5 DEF Forms
  <2> QED  BY <2>1, <1>5 DEF WithSeen
<1>6. CASE filter.within = Unset
  <2>1. PICK w : w = IF filter.seenAfter = Unset /\ filter.seenBefore = Unset THEN AnyTime ELSE CustomSeen
    OBVIOUS
  <2>2. w \in {AnyTime, CustomSeen} \union SeenWindows
    BY <2>1
  <2>3. [f EXCEPT !.window = w, !.seenAfter = a, !.seenBefore = b] \in Forms
    BY <2>2, <1>2, <1>3 DEF Forms
  <2> QED  BY <2>1, <2>3, <1>3, <1>6 DEF WithSeen
<1> QED  BY <1>5, <1>6

LEMMA QFInstallsTyped ==
  ASSUME NEW f \in Forms, NEW filter \in Filters
  PROVE  WithInstalls(f, filter) \in Forms
<1>1. filter.from \in Times /\ filter.to \in Times
  BY DEF Filters
<1>2. PICK a, b : a = DayOf(filter.from) /\ b = DayOf(filter.to)
  OBVIOUS
<1>3. a \in Times /\ b \in Times
  BY <1>1, <1>2, QFDay
<1>4. (filter.from # Unset \/ filter.to # Unset) \in BOOLEAN
  OBVIOUS
<1>5. [f EXCEPT !.custom = filter.from # Unset \/ filter.to # Unset, !.from = a, !.to = b] \in Forms
  BY <1>3, <1>4 DEF Forms
<1> QED  BY <1>5, <1>2 DEF WithInstalls

LEMMA QFRestoredTyped ==
  ASSUME NEW f \in Forms, NEW c, c.filter \in Filters,
         c.kind # "old" => c.statuses \in (SUBSET PatchStatuses) \ {{}} /\ c.days \in Ids
  PROVE  Restored(f, c) \in Forms
<1>1. PICK s, n : /\ s = IF c.kind = "old" THEN f.statuses ELSE c.statuses
                  /\ n = IF c.kind = "old" THEN f.days ELSE c.days
  OBVIOUS
<1>2. s \in (SUBSET PatchStatuses) \ {{}} /\ n \in Ids
  BY <1>1 DEF Forms
<1>3. PICK g : g = [f EXCEPT !.orgs = c.filter.orgs, !.locs = c.filter.locs, !.groups = c.filter.groups,
                             !.severities = c.filter.severities, !.text = c.filter.text,
                             !.statuses = s, !.days = n]
  OBVIOUS
<1>4. /\ c.filter.orgs \in SUBSET Ids /\ c.filter.locs \in SUBSET Ids /\ c.filter.groups \in SUBSET Ids
      /\ c.filter.severities \in SUBSET {"CRITICAL"} /\ c.filter.text \in Texts
  BY DEF Filters
<1>5. g \in Forms
  BY <1>2, <1>3, <1>4 DEF Forms
<1>6. Restored(f, c) = WithInstalls(WithSeen(g, c.filter), c.filter)
  BY <1>1, <1>3 DEF Restored
<1> QED  BY <1>5, <1>6, QFSeenTyped, QFInstallsTyped

\* Whatever a link holds, what is read of it can be put in a form.
LEMMA QFValidTyped ==
  ASSUME NEW c \in Views
  PROVE  \E g \in Filters, s \in (SUBSET PatchStatuses) \ {{}}, n \in Ids :
            Validated(c) = [c EXCEPT !.filter = g, !.statuses = s, !.days = n]
<1>1. c.filter \in AnyFilters /\ c.statuses \in SUBSET (PatchStatuses \union OtherWords) /\ c.days \in Int
  BY DEF Views
<1>2. PICK g : g = [c.filter EXCEPT !.orgs = CleanIds(@), !.locs = CleanIds(@), !.groups = CleanIds(@),
                       !.severities = @ \intersect {"CRITICAL"},
                       !.within = IF @ \in SeenWindows THEN @ ELSE Unset]
  OBVIOUS
<1>3. ASSUME NEW ids \in SUBSET Int
      PROVE  CleanIds(ids) \in SUBSET Ids
  <2> SUFFICES ASSUME NEW i \in CleanIds(ids)
               PROVE  i \in Ids
    OBVIOUS
  <2>1. i \in Int /\ i > 0
    BY DEF CleanIds
  <2> QED  BY <2>1 DEF Ids
<1>4. g \in Filters
  <2>1. CleanIds(c.filter.orgs) \in SUBSET Ids /\ CleanIds(c.filter.locs) \in SUBSET Ids
        /\ CleanIds(c.filter.groups) \in SUBSET Ids
    BY <1>1, <1>3 DEF AnyFilters
  <2>2. c.filter.severities \intersect {"CRITICAL"} \in SUBSET {"CRITICAL"}
    OBVIOUS
  <2> QED  BY <1>1, <1>2, <2>1, <2>2 DEF AnyFilters, Filters
<1>5. PICK s : s = LET known == c.statuses \intersect {"PENDING", "INSTALLED", "FAILED"}
                   IN  IF known = {} THEN {"PENDING"} ELSE known
  OBVIOUS
<1>6. s \in (SUBSET PatchStatuses) \ {{}}
  BY <1>5 DEF PatchStatuses
<1>7. PICK n : n = IF c.days = 0 THEN 30 ELSE IF c.days < 1 THEN 1 ELSE c.days
  OBVIOUS
<1>8. n \in Ids
  BY <1>1, <1>7 DEF Ids
<1>9. Validated(c) = [c EXCEPT !.filter = g, !.statuses = s, !.days = n]
  BY <1>1, <1>2, <1>5, <1>7, ZenonT(60) DEF Validated, Views, AnyFilters
<1> QED  BY <1>4, <1>6, <1>8, <1>9

LEMMA QFKnownTyped ==
  ASSUME NEW filter \in Filters
  PROVE  WithoutUnknown(filter) \in Filters
<1>1. filter.orgs \in SUBSET Ids /\ filter.groups \in SUBSET Ids
  BY DEF Filters
<1>2. PICK a, b : a = PruneUnknown(filter.orgs, listed.orgs) /\ b = PruneUnknown(filter.groups, listed.groups)
  OBVIOUS
<1>3. a \in SUBSET Ids /\ b \in SUBSET Ids
  BY <1>1, <1>2 DEF PruneUnknown
<1>4. WithoutUnknown(filter) = [filter EXCEPT !.orgs = a, !.groups = b]
  BY <1>2 DEF WithoutUnknown
<1> QED  BY <1>3, <1>4 DEF Filters

\* What a view is when it is opened here.
LEMMA QFOpenedTyped ==
  ASSUME NEW c \in Views, c.kind = "link", form \in Forms
  PROVE  Opened(c) \in Forms
<1>1. PICK g0 \in Filters, s \in (SUBSET PatchStatuses) \ {{}}, n \in Ids :
            Validated(c) = [c EXCEPT !.filter = g0, !.statuses = s, !.days = n]
  BY QFValidTyped
<1>2. PICK v : v = [c EXCEPT !.filter = g0, !.statuses = s, !.days = n]
  OBVIOUS
<1>0. v.filter = g0 /\ v.statuses = s /\ v.days = n /\ v.kind = c.kind
  BY <1>2 DEF Views
<1>3. PICK g : g = WithoutUnknown(v.filter)
  OBVIOUS
<1>4. g \in Filters
  BY <1>0, <1>3, QFKnownTyped
<1>5. PICK w : w = [v EXCEPT !.filter = g]
  OBVIOUS
<1>6. w.filter = g /\ w.statuses = v.statuses /\ w.days = v.days /\ w.kind = v.kind
  BY <1>2, <1>5 DEF Views
<1>7. Restored(form, w) \in Forms
  BY <1>0, <1>4, <1>6, QFRestoredTyped
<1>8. Opened(c) = Restored(form, w)
  BY <1>1, <1>2, <1>3, <1>5 DEF Opened
<1> QED  BY <1>7, <1>8

\* The lists behind the pickers.
Lists == [orgs : SUBSET Ids, groups : SUBSET Ids,
          all : (SUBSET [id : Ids, org : Nat]) \union {NotLoaded}, offered : SUBSET [id : Ids, org : Nat]]

LEMMA QFOffered ==
  ASSUME NEW f, NEW l \in Lists
  PROVE  OfferedUnder(f, l) \in SUBSET [id : Ids, org : Nat]
<1>1. CASE l.all = NotLoaded
  BY <1>1 DEF OfferedUnder
<1>2. CASE l.all # NotLoaded
  <2>1. l.all \in SUBSET [id : Ids, org : Nat]
    BY <1>2 DEF Lists
  <2> QED  BY <1>2, <2>1 DEF OfferedUnder, LocationsFor
<1> QED  BY <1>1, <1>2

LEMMA QFPruned ==
  ASSUME NEW f \in Forms, NEW l
  PROVE  /\ WithLocations(f, l) \in Forms
         /\ WithLocations(f, l).orgs = f.orgs
         /\ l.all # NotLoaded => WithLocations(f, l).locs \subseteq IdsOf(OfferedUnder(f, l))
<1>1. PICK s : s = f.locs \intersect IdsOf(OfferedUnder(f, l))
  OBVIOUS
<1>2. s \in SUBSET Ids /\ s \subseteq IdsOf(OfferedUnder(f, l))
  BY <1>1 DEF Forms
<1>3. PICK g : g = [f EXCEPT !.locs = s]
  OBVIOUS
<1>4. g \in Forms /\ g.orgs = f.orgs /\ g.locs = s
  BY <1>2, <1>3 DEF Forms
<1>5. WithLocations(f, l) = IF l.all = NotLoaded THEN f ELSE g
  BY <1>1, <1>3 DEF WithLocations
<1> QED  BY <1>2, <1>4, <1>5

\* The part about the locations, which SetsForm makes true of whatever it is given.
LocationsFit ==
    /\ listed.offered = OfferedUnder(form, listed)
    /\ listed.all # NotLoaded => form.locs \subseteq IdsOf(listed.offered)

LocationInv == form \in Forms /\ listed \in Lists /\ LocationsFit

LEMMA QFSetsForm ==
  ASSUME NEW f \in Forms, NEW l \in Lists, SetsForm(f, l)
  PROVE  /\ LocationInv'
         /\ listed'.all = l.all /\ listed'.orgs = l.orgs /\ listed'.groups = l.groups
<1>1. PICK o : o = OfferedUnder(f, l)
  OBVIOUS
<1>2. o \in SUBSET [id : Ids, org : Nat]
  BY <1>1, QFOffered
<1>3. listed' = [l EXCEPT !.offered = o] /\ form' = WithLocations(f, l)
  BY <1>1 DEF SetsForm
<1>4. listed' \in Lists /\ listed'.all = l.all /\ listed'.orgs = l.orgs /\ listed'.groups = l.groups
      /\ listed'.offered = o
  BY <1>2, <1>3 DEF Lists
<1>5. form' \in Forms /\ form'.orgs = f.orgs
  BY <1>3, QFPruned
<1>6. OfferedUnder(form', listed') = o
  BY <1>1, <1>4, <1>5 DEF OfferedUnder
<1>7. ASSUME listed'.all # NotLoaded
      PROVE  form'.locs \subseteq IdsOf(listed'.offered)
  BY <1>1, <1>3, <1>4, <1>7, QFPruned
<1> QED  BY <1>4, <1>5, <1>6, <1>7 DEF LocationInv, LocationsFit

\* The form's own controls leave the locations as they fit.
LEMMA QFSameScope ==
  ASSUME LocationInv, form' \in Forms, form'.orgs = form.orgs, form'.locs = form.locs, listed' = listed
  PROVE  LocationInv'
<1>1. OfferedUnder(form', listed') = OfferedUnder(form, listed)
  BY DEF OfferedUnder
<1> QED  BY <1>1 DEF LocationInv, LocationsFit

LEMMA QFPicks ==
  ASSUME LocationInv, PicksOrganizations
  PROVE  LocationInv' /\ listed'.all = listed.all /\ listed'.orgs = listed.orgs /\ listed'.groups = listed.groups
<1>1. form \in Forms /\ listed \in Lists
  BY DEF LocationInv
<1>2. PICK orgs \in {Toggled(form.orgs, o) : o \in listed.orgs} \union {{}} :
         SetsForm([form EXCEPT !.orgs = orgs], listed)
  BY DEF PicksOrganizations
<1>3. orgs \in SUBSET Ids
  <2>1. CASE orgs = {}
    BY <2>1
  <2>2. CASE orgs # {}
    <3>1. PICK o \in listed.orgs : orgs = Toggled(form.orgs, o)
      BY <1>2, <2>2
    <3>2. o \in Ids /\ form.orgs \in SUBSET Ids
      BY <1>1 DEF Lists, Forms
    <3> QED  BY <3>1, <3>2 DEF Toggled
  <2> QED  BY <2>1, <2>2
<1>4. PICK f : f = [form EXCEPT !.orgs = orgs]
  OBVIOUS
<1>5. f \in Forms
  BY <1>1, <1>3, <1>4 DEF Forms
<1>6. SetsForm(f, listed)
  BY <1>2, <1>4
<1> QED  BY <1>1, <1>5, <1>6, QFSetsForm

LEMMA QFEdits1 ==
  ASSUME form \in Forms, NEW f \in Edited1(form), f.statuses # {}
  PROVE  f \in Forms /\ f.orgs = form.orgs /\ f.locs = form.locs
<1>1. CASE \E s \in PatchStatuses : f = [form EXCEPT !.statuses = Toggled(@, s)]
  <2>1. PICK s \in PatchStatuses : f = [form EXCEPT !.statuses = Toggled(@, s)]
    BY <1>1
  <2>2. PICK x : x = Toggled(form.statuses, s)
    OBVIOUS
  <2>3. x \in SUBSET PatchStatuses
    BY <2>1, <2>2 DEF Toggled, Forms
  <2>4. f = [form EXCEPT !.statuses = x]
    BY <2>1, <2>2
  <2>5. f.statuses = x
    BY <2>4 DEF Forms
  <2> QED  BY <2>3, <2>4, <2>5 DEF Forms
<1>2. CASE f = [form EXCEPT !.severities = Toggled(@, "CRITICAL")]
  <2>1. PICK x : x = Toggled(form.severities, "CRITICAL")
    OBVIOUS
  <2>2. x \in SUBSET {"CRITICAL"}
    BY <2>1 DEF Toggled, Forms
  <2>3. f = [form EXCEPT !.severities = x]
    BY <1>2, <2>1
  <2> QED  BY <2>2, <2>3 DEF Forms
<1>3. CASE \E t \in Texts : f = [form EXCEPT !.text = t]
  BY <1>3 DEF Forms
<1>4. CASE \E w \in {AnyTime, CustomSeen} \union SeenWindows : f = [form EXCEPT !.window = w]
  BY <1>4 DEF Forms
<1>5. \/ \E s \in PatchStatuses : f = [form EXCEPT !.statuses = Toggled(@, s)]
      \/ f = [form EXCEPT !.severities = Toggled(@, "CRITICAL")]
      \/ \E t \in Texts : f = [form EXCEPT !.text = t]
      \/ \E w \in {AnyTime, CustomSeen} \union SeenWindows : f = [form EXCEPT !.window = w]
  BY DEF Edited1, PatchStatuses
<1> QED  BY <1>1, <1>2, <1>3, <1>4, <1>5

LEMMA QFEdits2 ==
  ASSUME LocationInv, NEW f \in Edited2(form), f.statuses # {}
  PROVE  /\ f \in Forms /\ f.orgs = form.orgs
         /\ f.locs = form.locs \/ f.locs \subseteq form.locs \union IdsOf(listed.offered)
<1>0. form \in Forms /\ listed \in Lists
  BY DEF LocationInv
<1>1. CASE \E d \in Dates : f = [form EXCEPT !.seenAfter = d] \/ f = [form EXCEPT !.seenBefore = d]
  BY <1>0, <1>1, QFConstants DEF Forms
<1>2. CASE \E d \in Dates : f = [form EXCEPT !.from = d] \/ f = [form EXCEPT !.to = d]
  BY <1>0, <1>2, QFConstants DEF Forms
<1>3. CASE f = [form EXCEPT !.custom = ~@]
  BY <1>0, <1>3 DEF Forms
<1>4. CASE \E d \in TypedDays : f = [form EXCEPT !.days = d]
  BY <1>0, <1>4, QFConstants DEF Forms
<1>5. CASE \E i \in IdsOf(listed.offered) : f = [form EXCEPT !.locs = Toggled(@, i)]
  <2>1. PICK i \in IdsOf(listed.offered) : f = [form EXCEPT !.locs = Toggled(@, i)]
    BY <1>5
  <2>2. i \in Ids
    BY <1>0, <2>1 DEF IdsOf, Lists
  <2>3. PICK x : x = Toggled(form.locs, i)
    OBVIOUS
  <2>4. x \in SUBSET Ids /\ x \subseteq form.locs \union IdsOf(listed.offered)
    BY <1>0, <2>1, <2>2, <2>3 DEF Toggled, Forms
  <2>5. f = [form EXCEPT !.locs = x]
    BY <2>1, <2>3
  <2> QED  BY <1>0, <2>4, <2>5 DEF Forms
<1>6. CASE \E g \in listed.groups : f = [form EXCEPT !.groups = Toggled(@, g)]
  <2>1. PICK g \in listed.groups : f = [form EXCEPT !.groups = Toggled(@, g)]
    BY <1>6
  <2>2. PICK x : x = Toggled(form.groups, g)
    OBVIOUS
  <2>3. x \in SUBSET Ids
    BY <1>0, <2>1, <2>2 DEF Toggled, Forms, Lists
  <2>4. f = [form EXCEPT !.groups = x]
    BY <2>1, <2>2
  <2> QED  BY <1>0, <2>3, <2>4 DEF Forms
<1>7. \/ \E d \in Dates : f = [form EXCEPT !.seenAfter = d] \/ f = [form EXCEPT !.seenBefore = d]
      \/ \E d \in Dates : f = [form EXCEPT !.from = d] \/ f = [form EXCEPT !.to = d]
      \/ f = [form EXCEPT !.custom = ~@]
      \/ \E d \in TypedDays : f = [form EXCEPT !.days = d]
      \/ \E i \in IdsOf(listed.offered) : f = [form EXCEPT !.locs = Toggled(@, i)]
      \/ \E g \in listed.groups : f = [form EXCEPT !.groups = Toggled(@, g)]
  BY DEF Edited2
<1> QED  BY <1>1, <1>2, <1>3, <1>4, <1>5, <1>6, <1>7

LEMMA QFEdits ==
  ASSUME LocationInv, EditsFilter
  PROVE  LocationInv'
<1>0. form \in Forms /\ listed \in Lists /\ listed' = listed
  BY DEF LocationInv, EditsFilter
<1>1. form' \in Edited1(form) \union Edited2(form) /\ form'.statuses # {}
  BY DEF EditsFilter
<1>2. CASE form' \in Edited1(form)
  BY <1>0, <1>1, <1>2, QFEdits1, QFSameScope
<1>3. CASE form' \in Edited2(form)
  <2>1. /\ form' \in Forms /\ form'.orgs = form.orgs
        /\ form'.locs = form.locs \/ form'.locs \subseteq form.locs \union IdsOf(listed.offered)
    BY <1>1, <1>3, QFEdits2
  <2>2. OfferedUnder(form', listed') = OfferedUnder(form, listed)
    BY <1>0, <2>1 DEF OfferedUnder
  <2> QED  BY <1>0, <2>1, <2>2 DEF LocationInv, LocationsFit
<1> QED  BY <1>1, <1>2, <1>3

\* Drill-downs, links and presets set the form, and the locations fit it afterwards.
LEMMA QFDrills ==
  ASSUME LocationInv, DrillsDown
  PROVE  LocationInv' /\ listed'.all = listed.all /\ listed'.orgs = listed.orgs /\ listed'.groups = listed.groups
<1>0. form \in Forms /\ listed \in Lists
  BY DEF LocationInv
<1>1. PICK f : /\ SetsForm(f, listed)
               /\ \/ \E o \in listed.orgs : f = [form EXCEPT !.orgs = {o}]
                  \/ f = [form EXCEPT !.severities = {"CRITICAL"}]
                  \/ \E t \in Texts : f = [form EXCEPT !.text = t]
                  \/ f = [form EXCEPT !.statuses = @ \union {"FAILED"}]
  BY Zenon DEF DrillsDown
<1>7. f \in Forms
  <2>2. CASE \E o \in listed.orgs : f = [form EXCEPT !.orgs = {o}]
    BY <1>0, <2>2 DEF Forms, Lists
  <2>3. CASE f = [form EXCEPT !.severities = {"CRITICAL"}]
    BY <1>0, <2>3 DEF Forms
  <2>4. CASE \E t \in Texts : f = [form EXCEPT !.text = t]
    BY <1>0, <2>4 DEF Forms
  <2>5. CASE f = [form EXCEPT !.statuses = @ \union {"FAILED"}]
    <3>1. PICK x : x = form.statuses \union {"FAILED"}
      OBVIOUS
    <3>2. x \in (SUBSET PatchStatuses) \ {{}}
      BY <1>0, <3>1 DEF Forms, PatchStatuses
    <3>3. f = [form EXCEPT !.statuses = x]
      BY <2>5, <3>1
    <3> QED  BY <1>0, <3>2, <3>3 DEF Forms
  <2> QED  BY <1>1, <2>2, <2>3, <2>4, <2>5
<1> QED  BY <1>0, <1>1, <1>7, QFSetsForm

\* What is saved, copied or held is what a form, or another version, could have made.
ViewsInv ==
    /\ \A c \in copies : IsView(c)
    /\ pendingView # NoView => IsView(pendingView) /\ pendingView.kind = "link"

LEMMA QFOpensView ==
  ASSUME LocationInv, NEW c, IsView(c), c.kind = "link", SetsForm(Opened(c), listed)
  PROVE  LocationInv' /\ listed'.all = listed.all /\ listed'.orgs = listed.orgs /\ listed'.groups = listed.groups
<1>0. form \in Forms /\ listed \in Lists
  BY DEF LocationInv
<1>1. Opened(c) \in Forms
  BY <1>0, QFOpenedTyped DEF IsView
<1> QED  BY <1>0, <1>1, QFSetsForm

LEMMA QFPresets ==
  ASSUME LocationInv, ViewsInv, AppliesPreset
  PROVE  LocationInv' /\ listed'.all = listed.all /\ listed'.orgs = listed.orgs /\ listed'.groups = listed.groups
<1>0. form \in Forms /\ listed \in Lists
  BY DEF LocationInv
<1>1. PICK c \in copies : c.kind \in {"preset", "old"} /\ SetsForm(Restored(form, c), listed)
  BY DEF AppliesPreset
<1>2. IsView(c)
  BY <1>1 DEF ViewsInv
<1>3. c.kind # "link"
  BY <1>1
<1>4. c.filter \in Filters
  BY <1>2, <1>3 DEF IsView
<1>5. c.kind # "old" => c.statuses \in (SUBSET PatchStatuses) \ {{}} /\ c.days \in Ids
  BY <1>1, <1>2 DEF IsView
<1>6. Restored(form, c) \in Forms
  BY <1>0, <1>4, <1>5, QFRestoredTyped
<1> QED  BY <1>0, <1>1, <1>6, QFSetsForm

\* What a form asks for is a query that a form made.
LEMMA QFQueryTyped ==
  ASSUME NEW f \in Forms
  PROVE  /\ QueryOf(f) \in FormQueries /\ IsAsked(QueryOf(f).filter)
         /\ QueryOf(f).statuses = f.statuses /\ QueryOf(f).days = f.days
<1>1. f.seenAfter \in Times /\ f.seenBefore \in Times /\ f.from \in Times /\ f.to \in Times
  BY DEF Forms
<1>2. \A d \in Times : /\ StartOfDay(d) \in Times /\ StartOfDay(DayOf(StartOfDay(d))) = StartOfDay(d)
                       /\ EndOfDay(d) \in Times /\ EndOfDay(DayOf(EndOfDay(d))) = EndOfDay(d)
  BY QFDate, QFDayOfDate
<1>3. Unset \in Times /\ StartOfDay(DayOf(Unset)) = Unset /\ EndOfDay(DayOf(Unset)) = Unset
  BY DEF Times, StartOfDay, EndOfDay, DayOf
<1>4. PICK w, a, b, x, y :
        /\ w = IF f.window \in SeenWindows THEN f.window ELSE Unset
        /\ a = IF f.window = CustomSeen THEN StartOfDay(f.seenAfter) ELSE Unset
        /\ b = IF f.window = CustomSeen THEN EndOfDay(f.seenBefore) ELSE Unset
        /\ x = IF f.custom THEN StartOfDay(f.from) ELSE Unset
        /\ y = IF f.custom THEN EndOfDay(f.to) ELSE Unset
  OBVIOUS
<1>5. w \in SeenWindows \union {Unset} /\ (w # Unset => a = Unset /\ b = Unset)
  BY <1>4 DEF SeenWindows, CustomSeen, Unset
<1>6. /\ a \in Times /\ a = StartOfDay(DayOf(a))
      /\ b \in Times /\ b = EndOfDay(DayOf(b))
  BY <1>1, <1>2, <1>3, <1>4
<1>7. /\ x \in Times /\ x = StartOfDay(DayOf(x))
      /\ y \in Times /\ y = EndOfDay(DayOf(y))
  BY <1>1, <1>2, <1>3, <1>4
<1>8. PICK g : g = [orgs |-> f.orgs, locs |-> f.locs, groups |-> f.groups, severities |-> f.severities, text |-> f.text,
                    within |-> w, seenAfter |-> a, seenBefore |-> b, from |-> x, to |-> y]
  OBVIOUS
<1>9. FilterOf(f) = g
  BY <1>4, <1>8 DEF FilterOf
<1>10. g \in Filters
  BY <1>5, <1>6, <1>7, <1>8 DEF Filters, Forms
<1>11. IsAsked(g)
  BY <1>5, <1>6, <1>7, <1>8, <1>10 DEF IsAsked
<1>12. QueryOf(f) = [filter |-> g, statuses |-> f.statuses, days |-> f.days]
  BY <1>9 DEF QueryOf
<1>13. QueryOf(f) \in FormQueries
  BY <1>10, <1>12 DEF FormQueries, Forms
<1> QED  BY <1>11, <1>12, <1>13

\* What is on screen was asked by a form and not refused.
AppliedInv == applied # NoQuery => applied \in FormQueries /\ IsAsked(applied.filter) /\ ~Refuses(applied)

LEMMA QFAppliedAfter ==
  ASSUME NEW f \in Forms, AppliedInv, applied' = AppliedAfter(f)
  PROVE  AppliedInv'
<1>1. CASE shownAuth.authed /\ ~Refuses(QueryOf(f))
  <2>1. applied' = QueryOf(f)
    BY <1>1 DEF AppliedAfter
  <2> QED  BY <1>1, <2>1, QFQueryTyped DEF AppliedInv
<1>2. CASE ~(shownAuth.authed /\ ~Refuses(QueryOf(f)))
  BY <1>2 DEF AppliedAfter, AppliedInv
<1> QED  BY <1>1, <1>2

\* The lookup calls there can be, and those of the session there is.
LookupCalls == [list : ListNames, epoch : 0..MaxSessions, of : Tenants]
Live == {r \in replies : r.epoch = epoch}

\* The calls in flight: those of this session are for its tenant, and counted.
RepliesInv ==
    /\ epoch \in 0..MaxSessions /\ tenant \in Tenants
    /\ replies \subseteq LookupCalls /\ IsFiniteSet(replies)
    /\ \A r \in replies : r.epoch <= epoch /\ (r.epoch = epoch => r.of = tenant)
    /\ loading = Cardinality(Live) /\ loading \in 0..3

\* A list that is not in is being asked for.
AskedFor ==
    /\ listed.orgs = OrgsOf[tenant] \/ \E r \in Live : r.list = "orgs"
    /\ listed.groups = GroupsOf[tenant] \/ \E r \in Live : r.list = "groups"
    /\ listed.all = LocationsOf[tenant] \/ \E r \in Live : r.list = "locations"

\* A session that asked for its lists has each of them or a call for it; and a status
\* that is not about this session's tenant means that nothing is in flight for it.
SessionInv ==
    /\ RepliesInv
    /\ shownAuth \in [authed : BOOLEAN, tenant : Tenants] /\ lastLoad \in {"none", "asked", "failed"}
    /\ ~shownAuth.authed \/ shownAuth.tenant # tenant => Live = {}
    /\ shownAuth.authed /\ lastLoad = "asked" => AskedFor

\* No list is another tenant's.
ListsInv ==
    /\ listed.orgs \in {{}, OrgsOf[tenant]} /\ listed.groups \in {{}, GroupsOf[tenant]}
    /\ listed.all \in {NotLoaded, LocationsOf[tenant]}

\* Three lists, three calls.
LEMMA QFThree ==
  ASSUME NEW a, NEW b, NEW c, a # b, a # c, b # c
  PROVE  IsFiniteSet({a, b, c}) /\ Cardinality({a, b, c}) = 3
<1>1. IsFiniteSet({a}) /\ Cardinality({a}) = 1
  BY FS_Singleton
<1>2. IsFiniteSet({a} \union {b}) /\ Cardinality({a} \union {b}) = 2
  BY <1>1, FS_AddElement
<1>3. c \notin {a} \union {b}
  OBVIOUS
<1>4. IsFiniteSet(({a} \union {b}) \union {c}) /\ Cardinality(({a} \union {b}) \union {c}) = 3
  BY <1>2, <1>3, FS_AddElement
<1>5. ({a} \union {b}) \union {c} = {a, b, c}
  OBVIOUS
<1> QED  BY <1>4, <1>5

LEMMA QFListNames == Cardinality(ListNames) = 3
<1>1. "orgs" # "groups" /\ "orgs" # "locations" /\ "groups" # "locations"
  OBVIOUS
<1> QED  BY <1>1, QFThree DEF ListNames

\* A load asks for every list, and what it asks for is what is in flight for the session.
LEMMA QFLoad ==
  ASSUME tenant' \in Tenants, epoch' \in 0..MaxSessions,
         replies \subseteq LookupCalls, IsFiniteSet(replies), \A r \in replies : r.epoch < epoch',
         LoadsLookups(tenant', epoch')
  PROVE  RepliesInv' /\ \A n \in ListNames : \E r \in Live' : r.list = n
<1>1. PICK e, t : e = epoch' /\ t = tenant'
  OBVIOUS
<1>2. PICK A : A = {[list |-> n, epoch |-> e, of |-> t] : n \in ListNames}
  OBVIOUS
<1>3. replies' = replies \union A /\ loading' = 3
  BY <1>1, <1>2, QFListNames DEF LoadsLookups
<1>4. \A r \in A : r \in LookupCalls /\ r.epoch = e /\ r.of = t
  BY <1>1, <1>2 DEF LookupCalls
<1>5. Live' = A
  <2>1. epoch' = e /\ \A r \in replies : r.epoch # e
    BY <1>1 DEF LookupCalls
  <2> QED  BY <2>1, <1>3, <1>4 DEF Live
<1>6. PICK a, b, c : /\ a = [list |-> "orgs", epoch |-> e, of |-> t]
                     /\ b = [list |-> "groups", epoch |-> e, of |-> t]
                     /\ c = [list |-> "locations", epoch |-> e, of |-> t]
  OBVIOUS
<1>7. a.list = "orgs" /\ b.list = "groups" /\ c.list = "locations"
  BY <1>6
<1>8. a # b /\ a # c /\ b # c
  BY <1>7
<1>9. A = {a, b, c}
  BY <1>2, <1>6 DEF ListNames
<1>10. IsFiniteSet(A) /\ Cardinality(A) = 3
  BY <1>8, <1>9, QFThree
<1>11. IsFiniteSet(replies')
  BY <1>3, <1>10, FS_Union
<1>12. replies' \subseteq LookupCalls
  BY <1>3, <1>4
<1>13. \A r \in replies' : r.epoch <= epoch' /\ (r.epoch = epoch' => r.of = tenant')
  <2> SUFFICES ASSUME NEW r \in replies'
               PROVE  r.epoch <= epoch' /\ (r.epoch = epoch' => r.of = tenant')
    OBVIOUS
  <2>1. CASE r \in A
    BY <2>1, <1>1, <1>4
  <2>2. CASE r \in replies
    <3>1. r.epoch \in Int /\ r.epoch < epoch'
      BY <2>2 DEF LookupCalls
    <3> QED  BY <3>1
  <2> QED  BY <2>1, <2>2, <1>3
<1>14. RepliesInv'
  BY <1>3, <1>5, <1>10, <1>11, <1>12, <1>13 DEF RepliesInv
<1>15. \A n \in ListNames : \E r \in A : r.list = n
  BY <1>7, <1>9 DEF ListNames
<1> QED  BY <1>5, <1>14, <1>15

LEMMA QFOlder ==
  ASSUME RepliesInv, epoch' = epoch + 1
  PROVE  \A r \in replies : r.epoch < epoch'
<1> SUFFICES ASSUME NEW r \in replies
             PROVE  r.epoch < epoch'
  OBVIOUS
<1>1. r.epoch \in Int /\ r.epoch <= epoch /\ epoch \in Int
  BY DEF RepliesInv, LookupCalls
<1> QED  BY <1>1

\* A session that ends leaves nothing in flight for the next.
LEMMA QFEnds ==
  ASSUME RepliesInv, ClearsSession, loading' = 0, replies' = replies, tenant' \in Tenants
  PROVE  RepliesInv' /\ Live' = {}
<1>1. epoch' = epoch + 1 /\ epoch' \in 0..MaxSessions
  BY QFConstants DEF ClearsSession, RepliesInv
<1>2. \A r \in replies : r.epoch < epoch'
  BY <1>1, QFOlder
<1>3. Live' = {}
  BY <1>1, <1>2 DEF Live
<1>4. Cardinality(Live') = 0
  BY <1>3, FS_EmptySet
<1>5. \A r \in replies' : r.epoch <= epoch' /\ (r.epoch = epoch' => r.of = tenant')
  <2> SUFFICES ASSUME NEW r \in replies
               PROVE  r.epoch <= epoch' /\ (r.epoch = epoch' => r.of = tenant')
    OBVIOUS
  <2>1. r.epoch \in Int /\ r.epoch < epoch' /\ epoch' \in Int
    BY <1>1, <1>2 DEF RepliesInv, LookupCalls
  <2> QED  BY <2>1
<1> QED  BY <1>1, <1>3, <1>4, <1>5 DEF RepliesInv

LEMMA QFBegins ==
  ASSUME RepliesInv, ClearsSession, tenant' = tenant, LoadsLookups(tenant, epoch')
  PROVE  RepliesInv' /\ \A n \in ListNames : \E r \in Live' : r.list = n
<1>1. epoch' = epoch + 1 /\ epoch' \in 0..MaxSessions /\ tenant' \in Tenants
  BY QFConstants DEF ClearsSession, RepliesInv
<1>2. \A r \in replies : r.epoch < epoch'
  BY <1>1, QFOlder
<1>3. replies \subseteq LookupCalls /\ IsFiniteSet(replies) /\ LoadsLookups(tenant', epoch')
  BY DEF RepliesInv
<1> QED  BY <1>1, <1>2, <1>3, QFLoad

\* What each step of a session does to the calls in flight and to what was asked for.
LEMMA QFAllAsked ==
  ASSUME \A n \in ListNames : \E r \in Live' : r.list = n
  PROVE  AskedFor'
<1>1. "orgs" \in ListNames /\ "groups" \in ListNames /\ "locations" \in ListNames
  BY DEF ListNames
<1>2. (\E r \in Live' : r.list = "orgs") /\ (\E r \in Live' : r.list = "groups") /\ (\E r \in Live' : r.list = "locations")
  BY <1>1
<1> QED  BY <1>2 DEF AskedFor

LEMMA QFSignsIn ==
  ASSUME SessionInv, SignsIn
  PROVE  SessionInv'
<1>1. RepliesInv /\ tenant \in Tenants
  BY DEF SessionInv, RepliesInv
<1>2. ClearsSession /\ tenant' = tenant /\ LoadsLookups(tenant, epoch')
  BY DEF SignsIn
<1>3. RepliesInv' /\ \A n \in ListNames : \E r \in Live' : r.list = n
  BY <1>1, <1>2, QFBegins
<1>4. AskedFor'
  BY <1>3, QFAllAsked
<1>5. shownAuth' = [authed |-> TRUE, tenant |-> tenant] /\ lastLoad' = "asked"
  BY DEF SignsIn, LoadsLookups
<1> QED  BY <1>1, <1>2, <1>3, <1>4, <1>5 DEF SessionInv

LEMMA QFReauthorizes ==
  ASSUME SessionInv, Reauthorizes
  PROVE  SessionInv'
<1>1. RepliesInv /\ tenant \in Tenants /\ loading \in Int
  BY DEF SessionInv, RepliesInv
<1>2. ClearsSession /\ tenant' = tenant /\ listed' = listed /\ ReloadsInFlight
      /\ shownAuth' = [authed |-> TRUE, tenant |-> tenant] /\ shownAuth.authed
  BY DEF Reauthorizes
<1>3. CASE loading > 0
  <2>1. LoadsLookups(tenant, epoch') /\ lastLoad' = "asked"
    BY <1>2, <1>3 DEF ReloadsInFlight, LoadsLookups
  <2>2. RepliesInv' /\ \A n \in ListNames : \E r \in Live' : r.list = n
    BY <1>1, <1>2, <2>1, QFBegins
  <2>3. AskedFor'
    BY <2>2, QFAllAsked
  <2> QED  BY <1>1, <1>2, <2>1, <2>2, <2>3 DEF SessionInv
<1>4. CASE ~(loading > 0)
  <2>1. loading' = 0 /\ replies' = replies /\ lastLoad' = lastLoad
    BY <1>2, <1>4 DEF ReloadsInFlight
  <2>2. RepliesInv' /\ Live' = {}
    BY <1>1, <1>2, <2>1, QFEnds
  <2>3. Cardinality(Live) = 0 /\ IsFiniteSet(Live)
    <3>1. loading = 0 /\ loading = Cardinality(Live) /\ IsFiniteSet(replies) /\ Live \subseteq replies
      BY <1>1, <1>4 DEF RepliesInv, Live
    <3> QED  BY <3>1, FS_Subset
  <2>4. Live = {}
    BY <2>3, FS_EmptySet
  <2>5. lastLoad' = "asked" => AskedFor'
    <3> SUFFICES ASSUME lastLoad' = "asked"
                 PROVE  AskedFor'
      OBVIOUS
    <3>1. AskedFor
      BY <1>2, <2>1 DEF SessionInv
    <3> QED  BY <3>1, <2>4, <1>2 DEF AskedFor
  <2> QED  BY <1>1, <1>2, <2>1, <2>2, <2>5 DEF SessionInv
<1> QED  BY <1>3, <1>4

LEMMA QFSignsOut ==
  ASSUME SessionInv, SignsOut
  PROVE  SessionInv'
<1>1. RepliesInv /\ tenant \in Tenants
  BY DEF SessionInv, RepliesInv
<1>2. ClearsSession /\ tenant' = tenant /\ loading' = 0 /\ replies' = replies /\ lastLoad' = lastLoad
      /\ shownAuth' = [authed |-> FALSE, tenant |-> tenant]
  BY DEF SignsOut
<1>3. RepliesInv' /\ Live' = {}
  BY <1>1, <1>2, QFEnds
<1> QED  BY <1>1, <1>2, <1>3 DEF SessionInv

LEMMA QFSwitches ==
  ASSUME SessionInv, SwitchesTenant
  PROVE  SessionInv'
<1>1. RepliesInv
  BY DEF SessionInv
<1>2. ClearsSession /\ tenant' \in Tenants /\ loading' = 0 /\ replies' = replies /\ lastLoad' = "none"
      /\ shownAuth' = shownAuth
  BY DEF SwitchesTenant
<1>3. RepliesInv' /\ Live' = {}
  BY <1>1, <1>2, QFEnds
<1> QED  BY <1>2, <1>3 DEF SessionInv

LEMMA QFReadsStatus ==
  ASSUME SessionInv, ReadsStatus
  PROVE  SessionInv'
<1>1. RepliesInv /\ tenant \in Tenants /\ epoch \in 0..MaxSessions
  BY DEF SessionInv, RepliesInv
<1>2. PICK authed \in BOOLEAN :
        /\ ~shownAuth.authed \/ shownAuth.tenant # tenant
        /\ shownAuth' = [authed |-> authed, tenant |-> tenant]
        /\ IF authed /\ ~shownAuth.authed THEN LoadsLookups(tenant, epoch)
           ELSE UNCHANGED <<loading, replies, lastLoad>>
        /\ UNCHANGED <<listed, epoch, tenant>>
  BY DEF ReadsStatus
<1>3. Live = {}
  BY <1>2 DEF SessionInv
<1>4. CASE authed /\ ~shownAuth.authed
  <2>1. LoadsLookups(tenant', epoch') /\ lastLoad' = "asked"
    BY <1>2, <1>4 DEF LoadsLookups
  <2>2. \A r \in replies : r.epoch < epoch'
    <3> SUFFICES ASSUME NEW r \in replies
                 PROVE  r.epoch < epoch
      BY <1>2
    <3>1. r.epoch \in Int /\ r.epoch <= epoch /\ epoch \in Int /\ r.epoch # epoch
      BY <1>1, <1>3 DEF RepliesInv, LookupCalls, Live
    <3> QED  BY <3>1
  <2>3. replies \subseteq LookupCalls /\ IsFiniteSet(replies) /\ tenant' \in Tenants /\ epoch' \in 0..MaxSessions
    BY <1>1, <1>2 DEF RepliesInv
  <2>4. RepliesInv' /\ \A n \in ListNames : \E r \in Live' : r.list = n
    BY <2>1, <2>2, <2>3, QFLoad
  <2>5. AskedFor'
    BY <2>4, QFAllAsked
  <2> QED  BY <1>1, <1>2, <1>4, <2>1, <2>4, <2>5 DEF SessionInv
<1>5. CASE ~(authed /\ ~shownAuth.authed)
  <2>1. UNCHANGED <<loading, replies, lastLoad>>
    BY <1>2, <1>5
  <2>2. RepliesInv' /\ Live' = Live
    BY <1>1, <1>2, <2>1 DEF RepliesInv, Live
  <2>3. shownAuth'.authed /\ lastLoad' = "asked" => AskedFor'
    <3> SUFFICES ASSUME shownAuth'.authed, lastLoad' = "asked"
                 PROVE  AskedFor'
      OBVIOUS
    <3>1. shownAuth.authed /\ lastLoad = "asked"
      BY <1>2, <1>5, <2>1
    <3>2. AskedFor
      BY <3>1 DEF SessionInv
    <3> QED  BY <3>2, <1>2, <2>2 DEF AskedFor
  <2> QED  BY <1>1, <1>2, <1>3, <2>1, <2>2, <2>3 DEF SessionInv
<1> QED  BY <1>4, <1>5

LEMMA QFSameSession ==
  ASSUME SessionInv, UNCHANGED sessionVars,
         listed'.all = listed.all, listed'.orgs = listed.orgs, listed'.groups = listed.groups
  PROVE  SessionInv'
<1>1. UNCHANGED <<loading, replies, epoch, tenant, shownAuth, lastLoad>>
  BY DEF sessionVars
<1>2. RepliesInv' /\ Live' = Live
  BY <1>1 DEF SessionInv, RepliesInv, Live
<1>3. AskedFor => AskedFor'
  BY <1>1, <1>2 DEF AskedFor
<1> QED  BY <1>1, <1>2, <1>3 DEF SessionInv

\* A reply of this session was counted, and counts itself done.
LEMMA QFAnswered ==
  ASSUME RepliesInv, NEW r \in replies, replies' = replies \ {r},
         epoch' = epoch, tenant' = tenant,
         r.epoch # epoch => loading' = loading,
         r.epoch = epoch => loading' = IF loading > 0 THEN loading - 1 ELSE 0
  PROVE  RepliesInv' /\ Live' = Live \ {r}
<1>1. Live' = Live \ {r}
  BY DEF Live
<1>2. IsFiniteSet(replies') /\ IsFiniteSet(Live)
  <2>1. replies' \subseteq replies /\ Live \subseteq replies /\ IsFiniteSet(replies)
    BY DEF RepliesInv, Live
  <2> QED  BY <2>1, FS_Subset
<1>3. loading' = Cardinality(Live') /\ loading' \in 0..3
  <2>1. loading = Cardinality(Live) /\ loading \in 0..3
    BY DEF RepliesInv
  <2>2. CASE r.epoch # epoch
    <3>1. Live \ {r} = Live
      BY <2>2 DEF Live
    <3> QED  BY <2>1, <2>2, <3>1, <1>1
  <2>3. CASE r.epoch = epoch
    <3>1. r \in Live
      BY <2>3 DEF Live
    <3>2. Cardinality(Live \ {r}) = Cardinality(Live) - 1
      BY <3>1, <1>2, FS_RemoveElement
    <3>3. loading # 0
      BY <2>1, <3>1, <1>2, FS_EmptySet
    <3> QED  BY <2>1, <2>3, <3>2, <3>3, <1>1
  <2> QED  BY <2>2, <2>3
<1> QED  BY <1>1, <1>2, <1>3 DEF RepliesInv

\* A reply sets its list, with what the tenant has, and takes away what it does not allow.
LEMMA QFListsWith ==
  ASSUME LocationInv, NEW r \in LookupCalls, r.of = tenant, ListsWith(r), tenant \in Tenants
  PROVE  /\ LocationInv'
         /\ listed'.orgs = IF r.list = "orgs" THEN OrgsOf[tenant] ELSE listed.orgs
         /\ listed'.groups = IF r.list = "groups" THEN GroupsOf[tenant] ELSE listed.groups
         /\ listed'.all = IF r.list = "locations" THEN LocationsOf[tenant] ELSE listed.all
<1>0. form \in Forms /\ listed \in Lists
  BY DEF LocationInv
<1>1. r.list \in {"orgs", "groups", "locations"}
  BY DEF LookupCalls, ListNames
<1>2. /\ OrgsOf[tenant] \in SUBSET Ids /\ GroupsOf[tenant] \in SUBSET Ids
      /\ LocationsOf[tenant] \in SUBSET [id : Ids, org : Nat]
  BY QFConstants
<1>3. CASE r.list = "orgs"
  <2>1. form' = form /\ listed' = [listed EXCEPT !.orgs = OrgsOf[tenant]]
    BY <1>3 DEF ListsWith
  <2>2. /\ listed' \in Lists /\ listed'.orgs = OrgsOf[tenant] /\ listed'.groups = listed.groups
        /\ listed'.all = listed.all /\ listed'.offered = listed.offered
    BY <1>0, <1>2, <2>1 DEF Lists
  <2>3. LocationInv'
    BY <2>1, <2>2 DEF LocationInv, LocationsFit, OfferedUnder
  <2> QED  BY <1>3, <2>2, <2>3
<1>4. CASE r.list = "groups"
  <2>1. form' = form /\ listed' = [listed EXCEPT !.groups = GroupsOf[tenant]]
    BY <1>4 DEF ListsWith
  <2>2. /\ listed' \in Lists /\ listed'.groups = GroupsOf[tenant] /\ listed'.orgs = listed.orgs
        /\ listed'.all = listed.all /\ listed'.offered = listed.offered
    BY <1>0, <1>2, <2>1 DEF Lists
  <2>3. LocationInv'
    BY <2>1, <2>2 DEF LocationInv, LocationsFit, OfferedUnder
  <2> QED  BY <1>4, <2>2, <2>3
<1>5. CASE r.list = "locations"
  <2>1. PICK l : l = [listed EXCEPT !.all = LocationsOf[tenant]]
    OBVIOUS
  <2>2. l \in Lists /\ l.all = LocationsOf[tenant] /\ l.orgs = listed.orgs /\ l.groups = listed.groups
    BY <1>0, <1>2, <2>1 DEF Lists
  <2>3. SetsForm(form, l)
    BY <1>5, <2>1 DEF ListsWith
  <2> QED  BY <1>0, <1>5, <2>2, <2>3, QFSetsForm
<1> QED  BY <1>1, <1>3, <1>4, <1>5

LEMMA QFReplies ==
  ASSUME SessionInv, LocationInv, ListsInv, LookupReplies
  PROVE  SessionInv' /\ LocationInv' /\ ListsInv'
<1>0. RepliesInv /\ tenant \in Tenants
  BY DEF SessionInv, RepliesInv
<1>1. PICK r \in replies :
        /\ replies' = replies \ {r}
        /\ IF r.epoch # epoch THEN UNCHANGED <<form, listed, loading, lastLoad>>
           ELSE /\ loading' = IF loading > 0 THEN loading - 1 ELSE 0
                /\ \/ ListsWith(r) /\ UNCHANGED lastLoad
                   \/ lastLoad' = "failed" /\ UNCHANGED <<form, listed>>
        /\ UNCHANGED <<epoch, tenant, shownAuth>>
  BY DEF LookupReplies
<1>2. UNCHANGED <<epoch, tenant, shownAuth>>
  BY <1>1
<1>3. RepliesInv' /\ Live' = Live \ {r}
  BY <1>0, <1>1, QFAnswered
<1>4. r \in LookupCalls
  BY <1>0 DEF RepliesInv
<1>5. CASE r.epoch # epoch
  <2>1. UNCHANGED <<form, listed, loading, lastLoad>>
    BY <1>1, <1>5
  <2>2. Live' = Live
    BY <1>3, <1>5 DEF Live
  <2>3. SessionInv'
    BY <1>2, <1>3, <2>1, <2>2 DEF SessionInv, AskedFor
  <2>4. LocationInv' /\ ListsInv'
    BY <1>2, <2>1 DEF LocationInv, LocationsFit, OfferedUnder, ListsInv
  <2> QED  BY <2>3, <2>4
<1>6. CASE r.epoch = epoch /\ ListsWith(r) /\ UNCHANGED lastLoad
  <2>1. r.of = tenant
    BY <1>0, <1>6 DEF RepliesInv
  <2>2. /\ LocationInv'
        /\ listed'.orgs = IF r.list = "orgs" THEN OrgsOf[tenant] ELSE listed.orgs
        /\ listed'.groups = IF r.list = "groups" THEN GroupsOf[tenant] ELSE listed.groups
        /\ listed'.all = IF r.list = "locations" THEN LocationsOf[tenant] ELSE listed.all
    BY <1>0, <1>4, <1>6, <2>1, QFListsWith
  <2>3. ListsInv'
    BY <1>2, <2>2 DEF ListsInv
  <2>4. AskedFor => AskedFor'
    <3> SUFFICES ASSUME AskedFor
                 PROVE  AskedFor'
      OBVIOUS
    <3>1. listed'.orgs = OrgsOf[tenant] \/ \E s \in Live' : s.list = "orgs"
      BY <1>3, <2>2 DEF AskedFor
    <3>2. listed'.groups = GroupsOf[tenant] \/ \E s \in Live' : s.list = "groups"
      BY <1>3, <2>2 DEF AskedFor
    <3>3. listed'.all = LocationsOf[tenant] \/ \E s \in Live' : s.list = "locations"
      BY <1>3, <2>2 DEF AskedFor
    <3> QED  BY <1>2, <3>1, <3>2, <3>3 DEF AskedFor
  <2>5. SessionInv'
    BY <1>2, <1>3, <1>6, <2>4 DEF SessionInv
  <2> QED  BY <2>2, <2>3, <2>5
<1>7. CASE r.epoch = epoch /\ lastLoad' = "failed" /\ UNCHANGED <<form, listed>>
  <2>1. SessionInv'
    BY <1>2, <1>3, <1>7 DEF SessionInv
  <2>2. LocationInv' /\ ListsInv'
    BY <1>2, <1>7 DEF LocationInv, LocationsFit, OfferedUnder, ListsInv
  <2> QED  BY <2>1, <2>2
<1> QED  BY <1>1, <1>5, <1>6, <1>7

LEMMA QFSameLists ==
  ASSUME ListsInv, tenant' = tenant,
         listed'.all = listed.all, listed'.orgs = listed.orgs, listed'.groups = listed.groups
  PROVE  ListsInv'
BY DEF ListsInv

\* What is saved or copied of a form is a view.
LEMMA QFCopy ==
  ASSUME form \in Forms, shownAuth.tenant \in Tenants, NEW kind \in {"preset", "link"}
  PROVE  IsView(Copy(kind))
<1>1. PICK q : q = QueryOf(form)
  OBVIOUS
<1>2. q \in FormQueries /\ IsAsked(q.filter) /\ q.statuses = form.statuses /\ q.days = form.days
  BY <1>1, QFQueryTyped
<1>3. q.filter = FilterOf(form) /\ q = [filter |-> q.filter, statuses |-> q.statuses, days |-> q.days]
  BY <1>1 DEF QueryOf
<1>4. q.filter \in Filters /\ q.statuses \in (SUBSET PatchStatuses) \ {{}} /\ q.days \in Ids
  BY <1>2 DEF FormQueries
<1>5. PICK c : c = [kind |-> kind, host |-> shownAuth.tenant, filter |-> q.filter, statuses |-> q.statuses,
                    days |-> q.days, meant |-> q]
  OBVIOUS
<1>6. Copy(kind) = c
  BY <1>1, <1>2, <1>3, <1>5 DEF Copy
<1>7. c.filter \in AnyFilters
  <2>1. Ids \subseteq Int /\ SeenWindows \union {Unset} \subseteq Int
    BY DEF Ids, SeenWindows, Unset
  <2>2. SUBSET {"CRITICAL"} \subseteq SUBSET ({"CRITICAL"} \union OtherWords)
    OBVIOUS
  <2> QED  BY <1>4, <1>5, <2>1, <2>2 DEF Filters, AnyFilters
<1>8. c.statuses \in SUBSET (PatchStatuses \union OtherWords) /\ c.days \in Int
  BY <1>4, <1>5 DEF Ids
<1>9. c \in Views
  BY <1>2, <1>5, <1>7, <1>8 DEF Views
<1>10. c.filter \in Filters /\ c.statuses \in (SUBSET PatchStatuses) \ {{}} /\ c.days \in Ids
  BY <1>4, <1>5
<1>11. c.meant = [filter |-> c.filter, statuses |-> c.statuses, days |-> c.days] /\ IsAsked(c.filter)
  BY <1>2, <1>3, <1>5
<1> QED  BY <1>6, <1>9, <1>10, <1>11 DEF IsView

\* The invariant: each part is what the others need to be kept.
FormInv == LocationInv /\ SessionInv /\ ListsInv /\ AppliedInv /\ ViewsInv

LEMMA QFInit == QueryFormInit => FormInv
<1> SUFFICES ASSUME QueryFormInit
             PROVE  FormInv
  OBVIOUS
<1>1. form \in Forms
  BY QFDefault DEF QueryFormInit
<1>2. listed = NothingListed
  BY DEF QueryFormInit
<1>3. listed \in Lists
  BY <1>2 DEF NothingListed, Lists
<1>4. LocationInv
  BY <1>1, <1>2, <1>3 DEF LocationInv, LocationsFit, OfferedUnder, NothingListed
<1>5. /\ loading = 0 /\ replies = {} /\ epoch = 0 /\ tenant = FirstTenant /\ lastLoad = "none"
      /\ shownAuth = [authed |-> FALSE, tenant |-> FirstTenant]
  BY DEF QueryFormInit
<1>6. FirstTenant \in Tenants /\ MaxSessions \in Nat
  BY QFConstants
<1>7. Live = {}
  BY <1>5 DEF Live
<1>8. RepliesInv
  BY <1>5, <1>6, <1>7, FS_EmptySet DEF RepliesInv
<1>9. SessionInv
  BY <1>5, <1>6, <1>7, <1>8 DEF SessionInv
<1>10. ListsInv
  BY <1>2 DEF ListsInv, NothingListed
<1>11. applied = NoQuery
  BY DEF QueryFormInit
<1>12. AppliedInv
  BY <1>11 DEF AppliedInv
<1>13. (\A c \in OldPresets \union OldLinks : IsView(c)) /\ copies \in SUBSET (OldPresets \union OldLinks) /\ pendingView = NoView
  BY FormAssumption, Zenon DEF QueryFormInit
<1>14. ViewsInv
  BY <1>13, Zenon DEF ViewsInv
<1> QED  BY <1>4, <1>9, <1>10, <1>12, <1>14 DEF FormInv

LEMMA QFSameViews ==
  ASSUME ViewsInv, copies' = copies, pendingView' = pendingView
  PROVE  ViewsInv'
BY DEF ViewsInv

LEMMA QFOpened ==
  ASSUME FormInv, NEW c, IsView(c), c.kind = "link", AppliesView(c)
  PROVE  FormInv'
<1>1. SetsForm(Opened(c), listed) /\ pendingView' = NoView /\ applied' = AppliedAfter(form')
      /\ UNCHANGED sessionVars /\ copies' = copies
  BY DEF AppliesView
<1>2. LocationInv /\ SessionInv /\ ListsInv /\ AppliedInv /\ ViewsInv
  BY DEF FormInv
<1>3. LocationInv' /\ listed'.all = listed.all /\ listed'.orgs = listed.orgs /\ listed'.groups = listed.groups
  BY <1>1, <1>2, QFOpensView
<1>4. tenant' = tenant
  BY <1>1 DEF sessionVars
<1>5. SessionInv' /\ ListsInv'
  BY <1>1, <1>2, <1>3, <1>4, QFSameSession, QFSameLists
<1>6. form' \in Forms
  BY <1>3 DEF LocationInv
<1>7. AppliedInv'
  BY <1>1, <1>2, <1>6, QFAppliedAfter
<1>8. ViewsInv'
  BY <1>1, <1>2 DEF ViewsInv
<1> QED  BY <1>3, <1>5, <1>7, <1>8 DEF FormInv

LEMMA QFOtherAuth == UNCHANGED formVars /\ FormInv => FormInv'
<1> SUFFICES ASSUME UNCHANGED formVars, FormInv
             PROVE  FormInv'
  OBVIOUS
<1>1. /\ UNCHANGED <<form, listed, loading, replies, epoch, tenant, shownAuth, lastLoad, grants>>
      /\ UNCHANGED <<copies, pendingView, applied>>
  BY DEF formVars
<1>2. LocationInv /\ SessionInv /\ ListsInv /\ AppliedInv /\ ViewsInv
  BY DEF FormInv
<1>3. LocationInv'
  BY <1>1, <1>2 DEF LocationInv, LocationsFit, OfferedUnder
<1>4. SessionInv'
  BY <1>1, <1>2, QFSameSession DEF sessionVars
<1>5. ListsInv' /\ ViewsInv'
  BY <1>1, <1>2, QFSameLists, QFSameViews
<1>6. AppliedInv'
  BY <1>1, <1>2 DEF AppliedInv
<1> QED  BY <1>3, <1>4, <1>5, <1>6 DEF FormInv

LEMMA QFStep == FormInv /\ [QueryFormNext]_formVars => FormInv'
<1> SUFFICES ASSUME FormInv, [QueryFormNext]_formVars
             PROVE  FormInv'
  OBVIOUS
<1>0. LocationInv /\ SessionInv /\ ListsInv /\ AppliedInv /\ ViewsInv /\ form \in Forms
  BY DEF FormInv, LocationInv
<1>1. CASE PicksOrganizations
  <2>1. UNCHANGED sessionVars /\ copies' = copies /\ pendingView' = pendingView /\ applied' = applied
    BY <1>1 DEF PicksOrganizations
  <2>2. LocationInv' /\ listed'.all = listed.all /\ listed'.orgs = listed.orgs /\ listed'.groups = listed.groups
    BY <1>0, <1>1, QFPicks
  <2>3. tenant' = tenant
    BY <2>1 DEF sessionVars
  <2>4. SessionInv' /\ ListsInv' /\ ViewsInv'
    BY <1>0, <2>1, <2>2, <2>3, QFSameSession, QFSameLists, QFSameViews
  <2>5. AppliedInv'
    BY <1>0, <2>1 DEF AppliedInv
  <2> QED  BY <2>2, <2>4, <2>5 DEF FormInv
<1>2. CASE EditsFilter
  <2>1. UNCHANGED sessionVars /\ listed' = listed /\ copies' = copies /\ pendingView' = pendingView /\ applied' = applied
    BY <1>2 DEF EditsFilter
  <2>2. LocationInv'
    BY <1>0, <1>2, QFEdits
  <2>3. tenant' = tenant
    BY <2>1 DEF sessionVars
  <2>4. SessionInv' /\ ListsInv' /\ ViewsInv'
    BY <1>0, <2>1, <2>3, QFSameSession, QFSameLists, QFSameViews
  <2>5. AppliedInv'
    BY <1>0, <2>1 DEF AppliedInv
  <2> QED  BY <2>2, <2>4, <2>5 DEF FormInv
<1>3. CASE RunsForm
  <2>1. /\ UNCHANGED sessionVars /\ listed' = listed /\ copies' = copies /\ pendingView' = pendingView
        /\ form' = form /\ applied' = AppliedAfter(form)
    BY <1>3 DEF RunsForm
  <2>2. LocationInv'
    BY <1>0, <2>1, QFSameScope
  <2>3. tenant' = tenant
    BY <2>1 DEF sessionVars
  <2>4. SessionInv' /\ ListsInv' /\ ViewsInv'
    BY <1>0, <2>1, <2>3, QFSameSession, QFSameLists, QFSameViews
  <2>5. AppliedInv'
    BY <1>0, <2>1, QFAppliedAfter
  <2> QED  BY <2>2, <2>4, <2>5 DEF FormInv
<1>4. CASE DrillsDown
  <2>1. UNCHANGED sessionVars /\ copies' = copies /\ pendingView' = pendingView /\ applied' = AppliedAfter(form')
    BY <1>4 DEF DrillsDown
  <2>2. LocationInv' /\ listed'.all = listed.all /\ listed'.orgs = listed.orgs /\ listed'.groups = listed.groups
    BY <1>0, <1>4, QFDrills
  <2>3. tenant' = tenant
    BY <2>1 DEF sessionVars
  <2>4. SessionInv' /\ ListsInv' /\ ViewsInv'
    BY <1>0, <2>1, <2>2, <2>3, QFSameSession, QFSameLists, QFSameViews
  <2>5. form' \in Forms
    BY <2>2 DEF LocationInv
  <2>6. AppliedInv'
    BY <1>0, <2>1, <2>5, QFAppliedAfter
  <2> QED  BY <2>2, <2>4, <2>6 DEF FormInv
<1>5. CASE SavesPresetOrCopiesLink
  <2>1. UNCHANGED sessionVars /\ form' = form /\ listed' = listed /\ pendingView' = pendingView /\ applied' = applied
    BY <1>5 DEF SavesPresetOrCopiesLink
  <2>2. PICK kind \in {"preset", "link"} : copies' = copies \union {Copy(kind)}
    BY <1>5 DEF SavesPresetOrCopiesLink
  <2>3. IsView(Copy(kind))
    BY <1>0, QFCopy DEF SessionInv
  <2>4. ViewsInv'
    BY <1>0, <2>1, <2>2, <2>3 DEF ViewsInv
  <2>5. tenant' = tenant
    BY <2>1 DEF sessionVars
  <2>6. LocationInv' /\ SessionInv' /\ ListsInv'
    BY <1>0, <2>1, <2>5, QFSameScope, QFSameSession, QFSameLists
  <2>7. AppliedInv'
    BY <1>0, <2>1 DEF AppliedInv
  <2> QED  BY <2>4, <2>6, <2>7 DEF FormInv
<1>6. CASE AppliesPreset
  <2>1. UNCHANGED sessionVars /\ copies' = copies /\ pendingView' = pendingView /\ applied' = applied
    BY <1>6 DEF AppliesPreset
  <2>2. LocationInv' /\ listed'.all = listed.all /\ listed'.orgs = listed.orgs /\ listed'.groups = listed.groups
    BY <1>0, <1>6, QFPresets
  <2>3. tenant' = tenant
    BY <2>1 DEF sessionVars
  <2>4. SessionInv' /\ ListsInv' /\ ViewsInv'
    BY <1>0, <2>1, <2>2, <2>3, QFSameSession, QFSameLists, QFSameViews
  <2>5. AppliedInv'
    BY <1>0, <2>1 DEF AppliedInv
  <2> QED  BY <2>2, <2>4, <2>5 DEF FormInv
<1>7. CASE OpensLink
  <2>1. PICK c \in copies :
          /\ c.kind = "link"
          /\ \/ AppliesView(c)
             \/ pendingView' = c /\ UNCHANGED <<sessionVars, form, listed, copies, applied>>
    BY <1>7 DEF OpensLink
  <2>2. IsView(c)
    BY <1>0, <2>1 DEF ViewsInv
  <2>3. CASE AppliesView(c)
    BY <2>1, <2>2, <2>3, QFOpened
  <2>4. CASE pendingView' = c /\ UNCHANGED <<sessionVars, form, listed, copies, applied>>
    <3>1. UNCHANGED sessionVars /\ form' = form /\ listed' = listed /\ copies' = copies /\ applied' = applied
      BY <2>4
    <3>2. tenant' = tenant
      BY <3>1 DEF sessionVars
    <3>3. LocationInv' /\ SessionInv' /\ ListsInv'
      BY <1>0, <3>1, <3>2, QFSameScope, QFSameSession, QFSameLists
    <3>4. AppliedInv' /\ ViewsInv'
      BY <1>0, <2>1, <2>2, <2>4, <3>1 DEF AppliedInv, ViewsInv
    <3> QED  BY <3>3, <3>4 DEF FormInv
  <2> QED  BY <2>1, <2>3, <2>4
<1>8. CASE AnswersPendingView
  <2>1. IsView(pendingView) /\ pendingView.kind = "link"
    BY <1>0, <1>8 DEF AnswersPendingView, ViewsInv
  <2>2. CASE AppliesView(pendingView)
    BY <2>1, <2>2, QFOpened
  <2>3. CASE pendingView' = NoView /\ UNCHANGED <<sessionVars, form, listed, copies, applied>>
    <3>1. UNCHANGED sessionVars /\ form' = form /\ listed' = listed /\ copies' = copies /\ applied' = applied
      BY <2>3
    <3>2. tenant' = tenant
      BY <3>1 DEF sessionVars
    <3>3. LocationInv' /\ SessionInv' /\ ListsInv'
      BY <1>0, <3>1, <3>2, QFSameScope, QFSameSession, QFSameLists
    <3>4. AppliedInv' /\ ViewsInv'
      BY <1>0, <2>3, <3>1 DEF AppliedInv, ViewsInv
    <3> QED  BY <3>3, <3>4 DEF FormInv
  <2> QED  BY <1>8, <2>2, <2>3 DEF AnswersPendingView
<1>9. CASE SignsIn \/ Reauthorizes \/ SignsOut
  <2>1. form' = form /\ listed' = listed /\ copies' = copies /\ pendingView' = pendingView /\ tenant' = tenant
        /\ applied' = NoQuery
    BY <1>9 DEF SignsIn, Reauthorizes, SignsOut, ClearsSession
  <2>2. SessionInv'
    BY <1>0, <1>9, QFSignsIn, QFReauthorizes, QFSignsOut
  <2>3. LocationInv' /\ ListsInv' /\ ViewsInv'
    BY <1>0, <2>1, QFSameScope, QFSameLists, QFSameViews
  <2>4. AppliedInv'
    BY <2>1 DEF AppliedInv
  <2> QED  BY <2>2, <2>3, <2>4 DEF FormInv
<1>10. CASE ReadsStatus
  <2>1. form' = form /\ listed' = listed /\ copies' = copies /\ pendingView' = pendingView /\ tenant' = tenant
        /\ applied' = applied
    BY <1>10 DEF ReadsStatus
  <2>2. SessionInv'
    BY <1>0, <1>10, QFReadsStatus
  <2>3. LocationInv' /\ ListsInv' /\ ViewsInv'
    BY <1>0, <2>1, QFSameScope, QFSameLists, QFSameViews
  <2>4. AppliedInv'
    BY <1>0, <2>1 DEF AppliedInv
  <2> QED  BY <2>2, <2>3, <2>4 DEF FormInv
<1>11. CASE SavesSettings
  <2>1. UNCHANGED sessionVars /\ listed' = listed /\ copies' = copies /\ pendingView' = pendingView /\ applied' = applied
    BY <1>11 DEF SavesSettings
  <2>2. PICK d \in TypedDays : form' = [form EXCEPT !.days = d]
    BY <1>11 DEF SavesSettings
  <2>3. d \in Ids
    BY QFConstants
  <2>4. form' \in Forms /\ form'.orgs = form.orgs /\ form'.locs = form.locs
    BY <1>0, <2>2, <2>3 DEF Forms
  <2>5. tenant' = tenant
    BY <2>1 DEF sessionVars
  <2>6. LocationInv' /\ SessionInv' /\ ListsInv' /\ ViewsInv'
    BY <1>0, <2>1, <2>4, <2>5, QFSameScope, QFSameSession, QFSameLists, QFSameViews
  <2>7. AppliedInv'
    BY <1>0, <2>1 DEF AppliedInv
  <2> QED  BY <2>6, <2>7 DEF FormInv
<1>12. CASE SwitchesTenant
  <2>1. /\ form' = [form EXCEPT !.orgs = {}, !.locs = {}, !.groups = {}, !.days = 30]
        /\ listed' = NothingListed /\ copies' = copies /\ pendingView' = pendingView /\ applied' = NoQuery
    BY <1>12 DEF SwitchesTenant, ClearsSession
  <2>2. SessionInv'
    BY <1>0, <1>12, QFSwitches
  <2>3. form' \in Forms
    <3>1. 30 \in Ids
      BY DEF Ids
    <3> QED  BY <1>0, <2>1, <3>1 DEF Forms
  <2>4. listed' \in Lists /\ listed'.all = NotLoaded /\ listed'.offered = {} /\ listed'.orgs = {} /\ listed'.groups = {}
    BY <2>1 DEF NothingListed, Lists
  <2>5. LocationInv'
    BY <2>3, <2>4 DEF LocationInv, LocationsFit, OfferedUnder
  <2>6. ListsInv' /\ ViewsInv'
    BY <1>0, <2>1, <2>4, QFSameViews DEF ListsInv
  <2>7. AppliedInv'
    BY <2>1 DEF AppliedInv
  <2> QED  BY <2>2, <2>5, <2>6, <2>7 DEF FormInv
<1>13. CASE LookupReplies
  <2>1. copies' = copies /\ pendingView' = pendingView /\ applied' = applied
    BY <1>13 DEF LookupReplies
  <2>2. SessionInv' /\ LocationInv' /\ ListsInv'
    BY <1>0, <1>13, QFReplies
  <2>3. ViewsInv' /\ AppliedInv'
    BY <1>0, <2>1, QFSameViews DEF AppliedInv
  <2> QED  BY <2>2, <2>3 DEF FormInv
<1>14. CASE UNCHANGED formVars
  BY <1>14, QFOtherAuth
<1> QED
  BY <1>1, <1>2, <1>3, <1>4, <1>5, <1>6, <1>7, <1>8, <1>9, <1>10, <1>11, <1>12, <1>13, <1>14 DEF QueryFormNext

LEMMA FormKept == QueryFormSpec => []FormInv
<1>1. FormInv /\ [QueryFormNext]_formVars => FormInv'
  BY QFStep
<1> QED  BY QFInit, <1>1, PTL DEF QueryFormSpec

\* Nothing in flight, and everything asked for: everything is listed.
LEMMA QFNoHiddenLocation == FormInv => NoHiddenLocation
<1> SUFFICES ASSUME FormInv
             PROVE  NoHiddenLocation
  OBVIOUS
<1>1. LocationInv /\ SessionInv /\ ListsInv
  BY DEF FormInv
<1>2. listed.all # NotLoaded =>
        listed.offered = LocationsFor(listed.all, form.orgs) /\ form.locs \subseteq IdsOf(listed.offered)
  BY <1>1 DEF LocationInv, LocationsFit, OfferedUnder
<1>3. shownAuth.authed /\ loading = 0 /\ lastLoad = "asked" => AllListed
  <2> SUFFICES ASSUME shownAuth.authed, loading = 0, lastLoad = "asked"
               PROVE  AllListed
    OBVIOUS
  <2>1. Cardinality(Live) = 0 /\ IsFiniteSet(Live)
    <3>1. loading = Cardinality(Live) /\ IsFiniteSet(replies) /\ Live \subseteq replies
      BY <1>1 DEF SessionInv, RepliesInv, Live
    <3> QED  BY <3>1, FS_Subset
  <2>2. Live = {}
    BY <2>1, FS_EmptySet
  <2>3. AskedFor
    BY <1>1 DEF SessionInv
  <2> QED  BY <2>2, <2>3 DEF AskedFor, AllListed
<1> QED  BY <1>1, <1>2, <1>3 DEF NoHiddenLocation, ListsInv

\* What two queries must agree on to be the same question.
SameScope(a, b) ==
    /\ a.statuses = b.statuses
    /\ a.filter.orgs = b.filter.orgs /\ a.filter.locs = b.filter.locs /\ a.filter.groups = b.filter.groups
    /\ a.filter.severities = b.filter.severities /\ a.filter.text = b.filter.text
    /\ a.filter.within = b.filter.within /\ a.filter.seenAfter = b.filter.seenAfter
    /\ a.filter.seenBefore = b.filter.seenBefore
SameInstalls(a, b) ==
    NeedsInstallWindow(a.statuses) =>
        /\ a.filter.from = b.filter.from /\ a.filter.to = b.filter.to
        /\ a.filter.from = Unset => a.days = b.days

\* Canonical, as a record.
LEMMA QFFilterIs ==
  ASSUME NEW g \in Filters, NEW x, NEW y
  PROVE  [g EXCEPT !.from = x, !.to = y] =
           [orgs |-> g.orgs, locs |-> g.locs, groups |-> g.groups, severities |-> g.severities, text |-> g.text,
            within |-> g.within, seenAfter |-> g.seenAfter, seenBefore |-> g.seenBefore, from |-> x, to |-> y]
<1>1. PICK r : r = [g EXCEPT !.from = x, !.to = y]
  OBVIOUS
<1>2. r \in [orgs : {g.orgs}, locs : {g.locs}, groups : {g.groups}, severities : {g.severities}, text : {g.text},
             within : {g.within}, seenAfter : {g.seenAfter}, seenBefore : {g.seenBefore}, from : {x}, to : {y}]
  BY <1>1 DEF Filters
<1>3. r = [orgs |-> g.orgs, locs |-> g.locs, groups |-> g.groups, severities |-> g.severities, text |-> g.text,
           within |-> g.within, seenAfter |-> g.seenAfter, seenBefore |-> g.seenBefore, from |-> x, to |-> y]
  BY <1>2
<1> QED  BY <1>1, <1>3

LEMMA QFCanonicalIs ==
  ASSUME NEW q \in FormQueries
  PROVE  \E x, y, d :
           /\ x = IF NeedsInstallWindow(q.statuses) THEN q.filter.from ELSE Unset
           /\ y = IF NeedsInstallWindow(q.statuses) THEN q.filter.to ELSE Unset
           /\ d = IF NeedsInstallWindow(q.statuses) /\ q.filter.from = Unset THEN q.days ELSE Unset
           /\ Canonical(q) = [filter |-> [q.filter EXCEPT !.from = x, !.to = y], statuses |-> q.statuses, days |-> d]
<1>1. q.filter \in Filters /\ q = [filter |-> q.filter, statuses |-> q.statuses, days |-> q.days]
  BY DEF FormQueries
<1>2. PICK g : g = q.filter
  OBVIOUS
<1>3. g = [g EXCEPT !.from = g.from, !.to = g.to]
  BY <1>1, <1>2 DEF Filters
<1>4. CASE ~NeedsInstallWindow(q.statuses)
  <2>1. Canonical(q) = [filter |-> [q.filter EXCEPT !.from = Unset, !.to = Unset], statuses |-> q.statuses, days |-> Unset]
    BY <1>1, <1>4 DEF Canonical, FormQueries
  <2> QED  BY <1>4, <2>1
<1>5. CASE NeedsInstallWindow(q.statuses) /\ q.filter.from # Unset
  <2>1. Canonical(q) = [q EXCEPT !.days = Unset]
    BY <1>5 DEF Canonical
  <2>2. Canonical(q) = [filter |-> q.filter, statuses |-> q.statuses, days |-> Unset]
    BY <1>1, <2>1
  <2>3. q.filter = [q.filter EXCEPT !.from = q.filter.from, !.to = q.filter.to]
    BY <1>2, <1>3
  <2>4. PICK x, y : x = q.filter.from /\ y = q.filter.to
    OBVIOUS
  <2>5. Canonical(q) = [filter |-> [q.filter EXCEPT !.from = x, !.to = y], statuses |-> q.statuses, days |-> Unset]
    BY <2>2, <2>3, <2>4
  <2> QED  BY <1>5, <2>4, <2>5
<1>6. CASE NeedsInstallWindow(q.statuses) /\ q.filter.from = Unset
  <2>1. Canonical(q) = q
    BY <1>6 DEF Canonical
  <2> QED  BY <1>1, <1>2, <1>3, <1>6, <2>1
<1> QED  BY <1>4, <1>5, <1>6

\* Two queries have one canonical form exactly when they agree on what is asked, and then
\* the backend makes the same of both: a bound is its day, and a day has one bound.
LEMMA QFCanonicalSame ==
  ASSUME NEW a \in FormQueries, NEW b \in FormQueries
  PROVE  Canonical(a) = Canonical(b) <=> SameScope(a, b) /\ SameInstalls(a, b)
<1>1. a.filter \in Filters /\ b.filter \in Filters
  BY DEF FormQueries
<1>2. PICK x, y, d :
        /\ x = IF NeedsInstallWindow(a.statuses) THEN a.filter.from ELSE Unset
        /\ y = IF NeedsInstallWindow(a.statuses) THEN a.filter.to ELSE Unset
        /\ d = IF NeedsInstallWindow(a.statuses) /\ a.filter.from = Unset THEN a.days ELSE Unset
        /\ Canonical(a) = [filter |-> [a.filter EXCEPT !.from = x, !.to = y], statuses |-> a.statuses, days |-> d]
  BY QFCanonicalIs
<1>3. PICK u, v, e :
        /\ u = IF NeedsInstallWindow(b.statuses) THEN b.filter.from ELSE Unset
        /\ v = IF NeedsInstallWindow(b.statuses) THEN b.filter.to ELSE Unset
        /\ e = IF NeedsInstallWindow(b.statuses) /\ b.filter.from = Unset THEN b.days ELSE Unset
        /\ Canonical(b) = [filter |-> [b.filter EXCEPT !.from = u, !.to = v], statuses |-> b.statuses, days |-> e]
  BY QFCanonicalIs
<1>4. PICK g, h : /\ g = [a.filter EXCEPT !.from = x, !.to = y]
                  /\ h = [b.filter EXCEPT !.from = u, !.to = v]
  OBVIOUS
<1>5. Canonical(a) = Canonical(b) <=> g = h /\ a.statuses = b.statuses /\ d = e
  BY <1>2, <1>3, <1>4
<1>6. /\ g = [orgs |-> a.filter.orgs, locs |-> a.filter.locs, groups |-> a.filter.groups, severities |-> a.filter.severities,
              text |-> a.filter.text, within |-> a.filter.within, seenAfter |-> a.filter.seenAfter,
              seenBefore |-> a.filter.seenBefore, from |-> x, to |-> y]
      /\ h = [orgs |-> b.filter.orgs, locs |-> b.filter.locs, groups |-> b.filter.groups, severities |-> b.filter.severities,
              text |-> b.filter.text, within |-> b.filter.within, seenAfter |-> b.filter.seenAfter,
              seenBefore |-> b.filter.seenBefore, from |-> u, to |-> v]
  BY <1>1, <1>4, QFFilterIs
<1>7. g = h <=> /\ a.filter.orgs = b.filter.orgs /\ a.filter.locs = b.filter.locs /\ a.filter.groups = b.filter.groups
                /\ a.filter.severities = b.filter.severities /\ a.filter.text = b.filter.text
                /\ a.filter.within = b.filter.within /\ a.filter.seenAfter = b.filter.seenAfter
                /\ a.filter.seenBefore = b.filter.seenBefore /\ x = u /\ y = v
  BY <1>6
<1>8. g = h /\ a.statuses = b.statuses <=> SameScope(a, b) /\ x = u /\ y = v
  BY <1>7 DEF SameScope
<1>9. a.statuses = b.statuses => (x = u /\ y = v /\ d = e <=> SameInstalls(a, b))
  BY <1>2, <1>3 DEF SameInstalls
<1> QED  BY <1>5, <1>8, <1>9 DEF SameScope

LEMMA QFInstalls ==
  ASSUME NEW q
  PROVE  WantsInstalls(q) <=> NeedsInstallWindow(q.statuses)
BY DEF WantsInstalls, IsInstallHistory, NeedsInstallWindow

LEMMA QFEffectiveSame ==
  ASSUME NEW a \in FormQueries, NEW b \in FormQueries, IsAsked(a.filter), IsAsked(b.filter), ~Refuses(a)
  PROVE  Effective(a) = Effective(b) <=> SameScope(a, b) /\ SameInstalls(a, b)
<1>1. PICK s, t, u, v :
        /\ s = <<a.filter.orgs, a.filter.locs, a.filter.groups, a.filter.severities, a.filter.text>>
        /\ t = <<b.filter.orgs, b.filter.locs, b.filter.groups, b.filter.severities, b.filter.text>>
        /\ u = IF a.filter.within # Unset THEN <<"last", a.filter.within>> ELSE <<"since", a.filter.seenAfter>>
        /\ v = IF b.filter.within # Unset THEN <<"last", b.filter.within>> ELSE <<"since", b.filter.seenAfter>>
  OBVIOUS
<1>2. PICK i, j :
        /\ i = IF ~WantsInstalls(a) THEN <<"none">>
               ELSE IF a.filter.from # Unset THEN <<"range", a.filter.from, a.filter.to>> ELSE <<"last", a.days>>
        /\ j = IF ~WantsInstalls(b) THEN <<"none">>
               ELSE IF b.filter.from # Unset THEN <<"range", b.filter.from, b.filter.to>> ELSE <<"last", b.days>>
  OBVIOUS
<1>3. Effective(a) = [scope |-> s, statuses |-> a.statuses, seen |-> <<u, a.filter.seenBefore>>, installs |-> i,
                      refused |-> Refuses(a)]
  BY <1>1, <1>2 DEF Effective
<1>4. Effective(b) = [scope |-> t, statuses |-> b.statuses, seen |-> <<v, b.filter.seenBefore>>, installs |-> j,
                      refused |-> Refuses(b)]
  BY <1>1, <1>2 DEF Effective
<1>5. Effective(a) = Effective(b) <=>
        /\ s = t /\ a.statuses = b.statuses /\ u = v /\ a.filter.seenBefore = b.filter.seenBefore /\ i = j
        /\ (Refuses(a) <=> Refuses(b))
  BY <1>3, <1>4 DEF Refuses
<1>6. s = t <=> /\ a.filter.orgs = b.filter.orgs /\ a.filter.locs = b.filter.locs /\ a.filter.groups = b.filter.groups
                /\ a.filter.severities = b.filter.severities /\ a.filter.text = b.filter.text
  BY <1>1
<1>7. u = v <=> a.filter.within = b.filter.within /\ a.filter.seenAfter = b.filter.seenAfter
  <2>1. "last" # "since"
    OBVIOUS
  <2>2. /\ a.filter.within # Unset => a.filter.seenAfter = Unset
        /\ b.filter.within # Unset => b.filter.seenAfter = Unset
    BY DEF IsAsked
  <2> QED  BY <1>1, <2>1, <2>2
<1>8. s = t /\ a.statuses = b.statuses /\ u = v /\ a.filter.seenBefore = b.filter.seenBefore <=> SameScope(a, b)
  BY <1>6, <1>7 DEF SameScope
<1>9. ASSUME a.statuses = b.statuses, i = j, Refuses(a) <=> Refuses(b)
      PROVE  SameInstalls(a, b)
  <2> SUFFICES ASSUME NeedsInstallWindow(a.statuses)
               PROVE  /\ a.filter.from = b.filter.from /\ a.filter.to = b.filter.to
                      /\ a.filter.from = Unset => a.days = b.days
    BY DEF SameInstalls
  <2>1. WantsInstalls(a) /\ WantsInstalls(b)
    BY <1>9, QFInstalls
  <2>2. ~RangeIsRefused(a.filter) /\ ~RangeIsRefused(b.filter)
    BY <1>9, <2>1 DEF Refuses
  <2>3. /\ a.filter.from = Unset => a.filter.to = Unset
        /\ b.filter.from = Unset => b.filter.to = Unset
    BY <2>2 DEF RangeIsRefused
  <2>4. "range" # "last"
    OBVIOUS
  <2>5. CASE a.filter.from # Unset
    <3>1. i = <<"range", a.filter.from, a.filter.to>>
      BY <1>2, <2>1, <2>5
    <3>2. b.filter.from # Unset
      <4> SUFFICES ASSUME b.filter.from = Unset
                   PROVE  FALSE
        OBVIOUS
      <4>1. j = <<"last", b.days>>
        BY <1>2, <2>1
      <4>2. i[1] = "range" /\ j[1] = "last"
        BY <3>1, <4>1
      <4> QED  BY <1>9, <2>4, <4>2
    <3>3. j = <<"range", b.filter.from, b.filter.to>>
      BY <1>2, <2>1, <3>2
    <3>4. i[2] = a.filter.from /\ i[3] = a.filter.to /\ j[2] = b.filter.from /\ j[3] = b.filter.to
      BY <3>1, <3>3
    <3> QED  BY <1>9, <2>5, <3>4
  <2>6. CASE a.filter.from = Unset
    <3>1. i = <<"last", a.days>>
      BY <1>2, <2>1, <2>6
    <3>2. b.filter.from = Unset
      <4> SUFFICES ASSUME b.filter.from # Unset
                   PROVE  FALSE
        OBVIOUS
      <4>1. j = <<"range", b.filter.from, b.filter.to>>
        BY <1>2, <2>1
      <4>2. i[1] = "last" /\ j[1] = "range"
        BY <3>1, <4>1
      <4> QED  BY <1>9, <2>4, <4>2
    <3>3. j = <<"last", b.days>>
      BY <1>2, <2>1, <3>2
    <3>4. i[2] = a.days /\ j[2] = b.days
      BY <3>1, <3>3
    <3> QED  BY <1>9, <2>3, <2>6, <3>2, <3>4
  <2> QED  BY <2>5, <2>6
<1>10. ASSUME a.statuses = b.statuses, SameInstalls(a, b)
       PROVE  i = j /\ (Refuses(a) <=> Refuses(b))
  <2>1. CASE ~NeedsInstallWindow(a.statuses)
    <3>1. ~WantsInstalls(a) /\ ~WantsInstalls(b)
      BY <1>10, <2>1, QFInstalls
    <3> QED  BY <1>2, <1>10, <3>1 DEF Refuses
  <2>2. CASE NeedsInstallWindow(a.statuses)
    <3>1. WantsInstalls(a) /\ WantsInstalls(b)
      BY <1>10, <2>2, QFInstalls
    <3>2. /\ a.filter.from = b.filter.from /\ a.filter.to = b.filter.to
          /\ a.filter.from = Unset => a.days = b.days
      BY <1>10, <2>2 DEF SameInstalls
    <3>3. i = j
      BY <1>2, <3>1, <3>2
    <3>4. RangeIsRefused(a.filter) <=> RangeIsRefused(b.filter)
      BY <3>2 DEF RangeIsRefused
    <3> QED  BY <1>10, <3>1, <3>3, <3>4 DEF Refuses
  <2> QED  BY <2>1, <2>2
<1> QED  BY <1>5, <1>8, <1>9, <1>10 DEF SameScope

\* Both together: the banner against the backend.
LEMMA QFChanged == FormInv => ChangedMeansDifferent
<1> SUFFICES ASSUME FormInv, applied # NoQuery
             PROVE  FiltersChanged(QueryOf(form)) <=> Effective(applied) # Effective(QueryOf(form))
  BY DEF ChangedMeansDifferent
<1>1. applied \in FormQueries /\ IsAsked(applied.filter) /\ ~Refuses(applied)
  BY DEF FormInv, AppliedInv
<1>2. QueryOf(form) \in FormQueries /\ IsAsked(QueryOf(form).filter)
  BY QFQueryTyped DEF FormInv, LocationInv
<1>3. PICK q : q = QueryOf(form)
  OBVIOUS
<1>4. Canonical(applied) = Canonical(q) <=> Effective(applied) = Effective(q)
  BY <1>1, <1>2, <1>3, QFCanonicalSame, QFEffectiveSame
<1>5. FiltersChanged(q) <=> Canonical(applied) # Canonical(q)
  BY DEF FiltersChanged
<1> QED  BY <1>3, <1>4, <1>5

\* The form asks for no location that its picker does not offer, its lists are of the tenant
\* it is on and all there once they were asked for, and "Filters changed" is shown exactly when the
\* backend would answer something else (scope_locations, load_lookups, filters_changed).
THEOREM TheFormSaysWhatItAsks == QueryFormSpec => []FormSaysWhatItAsks
<1>1. FormInv => FormSaysWhatItAsks
  BY QFNoHiddenLocation, QFChanged DEF FormSaysWhatItAsks
<1> QED  BY FormKept, <1>1, PTL

\* The filter of a form, field by field.
LEMMA QFRecordIs ==
  ASSUME NEW f \in Forms, NEW g \in Filters,
         f.orgs = g.orgs, f.locs = g.locs, f.groups = g.groups, f.severities = g.severities, f.text = g.text,
         (IF f.window \in SeenWindows THEN f.window ELSE Unset) = g.within,
         (IF f.window = CustomSeen THEN StartOfDay(f.seenAfter) ELSE Unset) = g.seenAfter,
         (IF f.window = CustomSeen THEN EndOfDay(f.seenBefore) ELSE Unset) = g.seenBefore,
         (IF f.custom THEN StartOfDay(f.from) ELSE Unset) = g.from,
         (IF f.custom THEN EndOfDay(f.to) ELSE Unset) = g.to
  PROVE  FilterOf(f) = g
<1>1. FilterOf(f) =
        [orgs |-> g.orgs, locs |-> g.locs, groups |-> g.groups, severities |-> g.severities, text |-> g.text,
         within |-> g.within, seenAfter |-> g.seenAfter, seenBefore |-> g.seenBefore, from |-> g.from, to |-> g.to]
  BY DEF FilterOf
<1>2. g = [orgs |-> g.orgs, locs |-> g.locs, groups |-> g.groups, severities |-> g.severities, text |-> g.text,
           within |-> g.within, seenAfter |-> g.seenAfter, seenBefore |-> g.seenBefore, from |-> g.from, to |-> g.to]
  BY DEF Filters
<1> QED  BY <1>1, <1>2

\* What is restored from a filter that a form made asks for that filter again.
LEMMA QFReturns ==
  ASSUME NEW f \in Forms, NEW g, IsAsked(g),
         f.orgs = g.orgs, f.locs = g.locs, f.groups = g.groups, f.severities = g.severities, f.text = g.text
  PROVE  LET h == WithInstalls(WithSeen(f, g), g)
         IN  FilterOf(h) = g /\ h.statuses = f.statuses /\ h.days = f.days
<1>0. g \in Filters
  BY DEF IsAsked
<1>1. PICK a, b, x, y : a = DayOf(g.seenAfter) /\ b = DayOf(g.seenBefore) /\ x = DayOf(g.from) /\ y = DayOf(g.to)
  OBVIOUS
<1>2. /\ g.seenAfter = StartOfDay(a) /\ g.seenBefore = EndOfDay(b) /\ g.from = StartOfDay(x) /\ g.to = EndOfDay(y)
      /\ g.within # Unset => g.seenAfter = Unset /\ g.seenBefore = Unset
  BY <1>1 DEF IsAsked
<1>3. PICK s : s = WithSeen(f, g)
  OBVIOUS
<1>4. s \in Forms
  BY <1>0, <1>3, QFSeenTyped
<1>5. /\ s.orgs = g.orgs /\ s.locs = g.locs /\ s.groups = g.groups /\ s.severities = g.severities /\ s.text = g.text
      /\ s.statuses = f.statuses /\ s.days = f.days
      /\ (IF s.window \in SeenWindows THEN s.window ELSE Unset) = g.within
      /\ (IF s.window = CustomSeen THEN StartOfDay(s.seenAfter) ELSE Unset) = g.seenAfter
      /\ (IF s.window = CustomSeen THEN EndOfDay(s.seenBefore) ELSE Unset) = g.seenBefore
  <2>1. g.within \in SeenWindows \union {Unset}
    BY <1>0 DEF Filters
  <2>2. CASE g.within # Unset
    <3>1. s = [f EXCEPT !.window = g.within, !.seenAfter = Unset, !.seenBefore = Unset]
      BY <1>3, <2>2 DEF WithSeen
    <3>2. /\ s.window = g.within /\ s.statuses = f.statuses /\ s.days = f.days
          /\ s.orgs = f.orgs /\ s.locs = f.locs /\ s.groups = f.groups /\ s.severities = f.severities /\ s.text = f.text
      BY <3>1 DEF Forms
    <3>3. s.window \in SeenWindows /\ s.window # CustomSeen
      BY <2>1, <2>2, <3>2 DEF SeenWindows, CustomSeen
    <3> QED  BY <1>2, <2>2, <3>2, <3>3
  <2>3. CASE g.within = Unset
    <3>1. PICK w : w = IF g.seenAfter = Unset /\ g.seenBefore = Unset THEN AnyTime ELSE CustomSeen
      OBVIOUS
    <3>2. s = [f EXCEPT !.window = w, !.seenAfter = a, !.seenBefore = b]
      BY <1>1, <1>3, <2>3, <3>1 DEF WithSeen
    <3>3. /\ s.window = w /\ s.seenAfter = a /\ s.seenBefore = b /\ s.statuses = f.statuses /\ s.days = f.days
          /\ s.orgs = f.orgs /\ s.locs = f.locs /\ s.groups = f.groups /\ s.severities = f.severities /\ s.text = f.text
      BY <3>2 DEF Forms
    <3>4. w \notin SeenWindows /\ AnyTime # CustomSeen
      BY <3>1 DEF SeenWindows, CustomSeen, AnyTime
    <3> QED  BY <1>2, <2>3, <3>1, <3>3, <3>4
  <2> QED  BY <2>2, <2>3
<1>6. PICK h : h = WithInstalls(s, g)
  OBVIOUS
<1>7. h \in Forms
  BY <1>0, <1>4, <1>6, QFInstallsTyped
<1>8. h = [s EXCEPT !.custom = g.from # Unset \/ g.to # Unset, !.from = x, !.to = y]
  BY <1>1, <1>6 DEF WithInstalls
<1>9. /\ h.orgs = s.orgs /\ h.locs = s.locs /\ h.groups = s.groups /\ h.severities = s.severities /\ h.text = s.text
      /\ h.window = s.window /\ h.seenAfter = s.seenAfter /\ h.seenBefore = s.seenBefore
      /\ h.statuses = s.statuses /\ h.days = s.days /\ h.from = x /\ h.to = y
  BY <1>4, <1>8 DEF Forms
<1>10. h.custom <=> g.from # Unset \/ g.to # Unset
  BY <1>4, <1>8 DEF Forms
<1>11. /\ (IF h.custom THEN StartOfDay(h.from) ELSE Unset) = g.from
       /\ (IF h.custom THEN EndOfDay(h.to) ELSE Unset) = g.to
  BY <1>2, <1>9, <1>10
<1>12. FilterOf(h) = g
  BY <1>0, <1>5, <1>7, <1>9, <1>11, QFRecordIs
<1> QED  BY <1>3, <1>5, <1>6, <1>9, <1>12

\* A view of this version asks, once restored, for what it holds.
LEMMA QFRestoredAsks ==
  ASSUME NEW f \in Forms, NEW c, c.kind # "old", IsAsked(c.filter),
         c.statuses \in (SUBSET PatchStatuses) \ {{}}, c.days \in Ids
  PROVE  QueryOf(Restored(f, c)) = [filter |-> c.filter, statuses |-> c.statuses, days |-> c.days]
<1>1. PICK g : g = c.filter
  OBVIOUS
<1>2. g \in Filters
  BY <1>1 DEF IsAsked
<1>3. PICK s : s = [f EXCEPT !.orgs = g.orgs, !.locs = g.locs, !.groups = g.groups,
                             !.severities = g.severities, !.text = g.text, !.statuses = c.statuses, !.days = c.days]
  OBVIOUS
<1>4. /\ s.orgs = g.orgs /\ s.locs = g.locs /\ s.groups = g.groups /\ s.severities = g.severities /\ s.text = g.text
      /\ s.statuses = c.statuses /\ s.days = c.days
  BY <1>3 DEF Forms
<1>5. s \in Forms
  BY <1>2, <1>3 DEF Forms, Filters
<1>6. Restored(f, c) = WithInstalls(WithSeen(s, g), g)
  BY <1>1, <1>3 DEF Restored
<1>7. PICK h : h = WithInstalls(WithSeen(s, g), g)
  OBVIOUS
<1>8. FilterOf(h) = g /\ h.statuses = s.statuses /\ h.days = s.days
  BY <1>1, <1>4, <1>5, <1>7, QFReturns
<1> QED  BY <1>1, <1>4, <1>6, <1>7, <1>8 DEF QueryOf

\* The locations are pruned in the query as in the form.
LEMMA QFPrunedQuery ==
  ASSUME NEW f \in Forms, NEW q, q = QueryOf(f)
  PROVE  QueryOf(WithLocations(f, listed)) =
           IF listed.all = NotLoaded THEN q
           ELSE [q EXCEPT !.filter.locs = @ \intersect IdsOf(LocationsFor(listed.all, q.filter.orgs))]
<1>1. CASE listed.all = NotLoaded
  BY <1>1 DEF WithLocations
<1>2. CASE listed.all # NotLoaded
  <2>1. q = [filter |-> FilterOf(f), statuses |-> f.statuses, days |-> f.days]
    BY DEF QueryOf
  <2>2. FilterOf(f).orgs = f.orgs /\ FilterOf(f).locs = f.locs
    BY DEF FilterOf
  <2>3. PICK s : s = f.locs \intersect IdsOf(LocationsFor(listed.all, f.orgs))
    OBVIOUS
  <2>4. s \in SUBSET Ids
    BY <2>3 DEF Forms
  <2>5. PICK h : h = [f EXCEPT !.locs = s]
    OBVIOUS
  <2>6. WithLocations(f, listed) = h
    BY <1>2, <2>3, <2>5 DEF WithLocations, OfferedUnder
  <2>7. PICK g : g = FilterOf(f)
    OBVIOUS
  <2>8. FilterOf(h) = [g EXCEPT !.locs = s]
    <3>1. /\ h.orgs = f.orgs /\ h.locs = s /\ h.groups = f.groups /\ h.severities = f.severities /\ h.text = f.text
          /\ h.window = f.window /\ h.seenAfter = f.seenAfter /\ h.seenBefore = f.seenBefore
          /\ h.custom = f.custom /\ h.from = f.from /\ h.to = f.to
      BY <2>5 DEF Forms
    <3>2. g \in Filters
      <4>1. PICK r : r = QueryOf(f)
        OBVIOUS
      <4>2. r \in FormQueries
        BY <4>1, QFQueryTyped
      <4>3. r.filter = FilterOf(f)
        BY <4>1 DEF QueryOf
      <4>4. r.filter \in Filters
        BY <4>2 DEF FormQueries
      <4> QED  BY <2>7, <4>3, <4>4
    <3>3. PICK k : k = [g EXCEPT !.locs = s]
      OBVIOUS
    <3>4. k \in Filters
      BY <2>4, <3>2, <3>3 DEF Filters
    <3>5. /\ k.orgs = g.orgs /\ k.locs = s /\ k.groups = g.groups /\ k.severities = g.severities /\ k.text = g.text
          /\ k.within = g.within /\ k.seenAfter = g.seenAfter /\ k.seenBefore = g.seenBefore
          /\ k.from = g.from /\ k.to = g.to
      BY <3>2, <3>3 DEF Filters
    <3>6. h \in Forms
      BY <2>4, <2>5 DEF Forms
    <3>7. /\ g.orgs = f.orgs /\ g.groups = f.groups /\ g.severities = f.severities /\ g.text = f.text
          /\ (IF f.window \in SeenWindows THEN f.window ELSE Unset) = g.within
          /\ (IF f.window = CustomSeen THEN StartOfDay(f.seenAfter) ELSE Unset) = g.seenAfter
          /\ (IF f.window = CustomSeen THEN EndOfDay(f.seenBefore) ELSE Unset) = g.seenBefore
          /\ (IF f.custom THEN StartOfDay(f.from) ELSE Unset) = g.from
          /\ (IF f.custom THEN EndOfDay(f.to) ELSE Unset) = g.to
      BY <2>7 DEF FilterOf
    <3>8. FilterOf(h) = k
      BY <3>1, <3>4, <3>5, <3>6, <3>7, QFRecordIs
    <3> QED  BY <3>3, <3>8
  <2>9. h.statuses = f.statuses /\ h.days = f.days
    BY <2>5 DEF Forms
  <2>10. QueryOf(h) = [filter |-> [g EXCEPT !.locs = s], statuses |-> f.statuses, days |-> f.days]
    BY <2>8, <2>9 DEF QueryOf
  <2>11. q = [filter |-> g, statuses |-> f.statuses, days |-> f.days] /\ g.locs = f.locs /\ g.orgs = f.orgs
    BY <2>1, <2>2, <2>7
  <2>12. s = g.locs \intersect IdsOf(LocationsFor(listed.all, q.filter.orgs))
    BY <2>3, <2>11
  <2>13. [q EXCEPT !.filter.locs = @ \intersect IdsOf(LocationsFor(listed.all, q.filter.orgs))] =
         [filter |-> [g EXCEPT !.locs = s], statuses |-> f.statuses, days |-> f.days]
    <3>1. [q EXCEPT !.filter.locs = @ \intersect IdsOf(LocationsFor(listed.all, q.filter.orgs))] =
          [q EXCEPT !.filter = [g EXCEPT !.locs = s]]
      BY <2>11, <2>12
    <3>2. PICK k : k = [g EXCEPT !.locs = s]
      OBVIOUS
    <3>3. [q EXCEPT !.filter = k] = [filter |-> k, statuses |-> f.statuses, days |-> f.days]
      BY <2>11
    <3> QED  BY <3>1, <3>2, <3>3
  <2> QED  BY <1>2, <2>6, <2>10, <2>13
<1> QED  BY <1>1, <1>2

\* Nothing of a view that a form of this version made is invalid.
LEMMA QFValidSame ==
  ASSUME NEW c \in Views, c.filter \in Filters, c.statuses \in (SUBSET PatchStatuses) \ {{}}, c.days \in Ids
  PROVE  Validated(c) = c
<1>1. PICK g : g = c.filter
  OBVIOUS
<1>2. g \in Filters
  BY <1>1
<1>3. ASSUME NEW ids \in SUBSET Ids
      PROVE  CleanIds(ids) = ids
  <2>1. \A i \in ids : i > 0
    BY DEF Ids
  <2> QED  BY <2>1 DEF CleanIds
<1>4. g.orgs \in SUBSET Ids /\ g.locs \in SUBSET Ids /\ g.groups \in SUBSET Ids /\ g.severities \in SUBSET {"CRITICAL"}
      /\ g.within \in SeenWindows \union {Unset}
  BY <1>2 DEF Filters
<1>5. PICK o, l, d : o = CleanIds(g.orgs) /\ l = CleanIds(g.locs) /\ d = CleanIds(g.groups)
  OBVIOUS
<1>6. o = g.orgs /\ l = g.locs /\ d = g.groups
  BY <1>3, <1>4, <1>5
<1>7. PICK v, w : v = g.severities \intersect {"CRITICAL"} /\ w = IF g.within \in SeenWindows THEN g.within ELSE Unset
  OBVIOUS
<1>8. v = g.severities /\ w = g.within
  BY <1>4, <1>7
<1>9. PICK k : k = [g EXCEPT !.orgs = o, !.locs = l, !.groups = d, !.severities = v, !.within = w]
  OBVIOUS
<1>10. k = g
  BY <1>2, <1>6, <1>8, <1>9 DEF Filters
<1>11. PICK s : s = LET known == c.statuses \intersect {"PENDING", "INSTALLED", "FAILED"}
                    IN  IF known = {} THEN {"PENDING"} ELSE known
  OBVIOUS
<1>12. s = c.statuses
  BY <1>11 DEF PatchStatuses
<1>13. PICK n : n = IF c.days = 0 THEN 30 ELSE IF c.days < 1 THEN 1 ELSE c.days
  OBVIOUS
<1>14. n = c.days
  BY <1>13 DEF Ids
<1>15. Validated(c) = [c EXCEPT !.filter = k, !.statuses = s, !.days = n]
  BY <1>1, <1>5, <1>7, <1>9, <1>11, <1>13, ZenonT(60) DEF Validated, Views
<1>16. [c EXCEPT !.filter = c.filter, !.statuses = c.statuses, !.days = c.days] = c
  BY DEF Views
<1> QED  BY <1>1, <1>10, <1>12, <1>14, <1>15, <1>16

\* What a link drops leaves a filter that a form could have made.
LEMMA QFKnownAsked ==
  ASSUME NEW g, IsAsked(g)
  PROVE  IsAsked(WithoutUnknown(g))
<1>1. g \in Filters
  BY DEF IsAsked
<1>2. PICK a, b : a = PruneUnknown(g.orgs, listed.orgs) /\ b = PruneUnknown(g.groups, listed.groups)
  OBVIOUS
<1>3. PICK k : k = [g EXCEPT !.orgs = a, !.groups = b]
  OBVIOUS
<1>4. WithoutUnknown(g) = k
  BY <1>2, <1>3 DEF WithoutUnknown
<1>5. k \in Filters
  BY <1>1, <1>4, QFKnownTyped
<1>6. k.within = g.within /\ k.seenAfter = g.seenAfter /\ k.seenBefore = g.seenBefore /\ k.from = g.from /\ k.to = g.to
  BY <1>1, <1>3 DEF Filters
<1> QED  BY <1>4, <1>5, <1>6 DEF IsAsked

\* A link asks for what it holds, less what is not listed here.
LEMMA QFLinkAsks ==
  ASSUME form \in Forms, NEW c \in Views, c.kind = "link", IsAsked(c.filter),
         c.statuses \in (SUBSET PatchStatuses) \ {{}}, c.days \in Ids
  PROVE  QueryOf(Opened(c)) = [filter |-> WithoutUnknown(c.filter), statuses |-> c.statuses, days |-> c.days]
<1>1. c.filter \in Filters
  BY DEF IsAsked
<1>2. Validated(c) = c
  BY <1>1, QFValidSame
<1>3. PICK g : g = WithoutUnknown(c.filter)
  OBVIOUS
<1>4. IsAsked(g)
  BY <1>3, QFKnownAsked
<1>5. PICK v : v = [c EXCEPT !.filter = g]
  OBVIOUS
<1>6. v.kind # "old" /\ v.filter = g /\ v.statuses = c.statuses /\ v.days = c.days
  BY <1>5 DEF Views
<1>7. Opened(c) = Restored(form, v)
  BY <1>2, <1>3, <1>5 DEF Opened
<1>8. QueryOf(Restored(form, v)) = [filter |-> v.filter, statuses |-> v.statuses, days |-> v.days]
  BY <1>4, <1>6, QFRestoredAsks
<1> QED  BY <1>3, <1>6, <1>7, <1>8

\* The locations are dropped on both sides by the same lists.
LEMMA QFReopens ==
  ASSUME form \in Forms, NEW c, IsView(c), c.kind \in {"preset", "link"}, c.meant # NoQuery,
         NEW f, f = IF c.kind = "link" THEN Opened(c) ELSE Restored(form, c)
  PROVE  QueryOf(WithLocations(f, listed)) = Meant(c)
<1>1. /\ c \in Views /\ IsAsked(c.filter) /\ c.meant \in FormQueries
      /\ c.meant = [filter |-> c.filter, statuses |-> c.statuses, days |-> c.days]
  BY DEF IsView, Views
<1>2. c.filter \in Filters /\ c.statuses \in (SUBSET PatchStatuses) \ {{}} /\ c.days \in Ids
  BY <1>1 DEF FormQueries
<1>3. PICK g : g = IF c.kind = "link" THEN WithoutUnknown(c.filter) ELSE c.filter
  OBVIOUS
<1>4. f \in Forms
  <2>1. CASE c.kind = "link"
    BY <1>1, <2>1, QFOpenedTyped
  <2>2. CASE c.kind # "link"
    BY <1>1, <1>2, <2>2, QFRestoredTyped
  <2> QED  BY <2>1, <2>2
<1>5. QueryOf(f) = [filter |-> g, statuses |-> c.statuses, days |-> c.days]
  <2>1. CASE c.kind = "link"
    BY <1>1, <1>2, <1>3, <2>1, QFLinkAsks
  <2>2. CASE c.kind # "link"
    BY <1>1, <1>2, <1>3, <2>2, QFRestoredAsks
  <2> QED  BY <2>1, <2>2
<1>6. PICK q : q = QueryOf(f)
  OBVIOUS
<1>7. [c.meant EXCEPT !.filter = g] = q /\ q.filter = g
  BY <1>1, <1>5, <1>6
<1>8. QueryOf(WithLocations(f, listed)) =
        IF listed.all = NotLoaded THEN q
        ELSE [q EXCEPT !.filter.locs = @ \intersect IdsOf(LocationsFor(listed.all, q.filter.orgs))]
  BY <1>4, <1>6, QFPrunedQuery
<1>9. c.meant.filter = c.filter
  BY <1>1
<1>10. Meant(c) = IF listed.all = NotLoaded THEN q
                  ELSE [q EXCEPT !.filter.locs = @ \intersect IdsOf(LocationsFor(listed.all, g.orgs))]
  BY <1>3, <1>7, <1>9 DEF Meant
<1> QED  BY <1>7, <1>8, <1>10

\* A preset or a link made from the form asks for the same query when it is applied, on
\* any form and any lists (apply_preset, apply_view against filter_params).
THEOREM AViewReopens == QueryFormSpec => []ViewReopens
<1>1. FormInv => ViewReopens
  <2> SUFFICES ASSUME FormInv, NEW c \in copies, c.kind \in {"preset", "link"}, c.meant # NoQuery,
                      NEW f, f = IF c.kind = "link" THEN Opened(c) ELSE Restored(form, c)
               PROVE  QueryOf(WithLocations(f, listed)) = Meant(c)
    BY Zenon DEF ViewReopens
  <2>1. form \in Forms /\ IsView(c)
    BY DEF FormInv, LocationInv, ViewsInv
  <2> QED  BY <2>1, QFReopens
<1> QED  BY <1>1, FormKept, PTL

-----------------------------------------------------------------------------
(* The sliced feed.                                                        *)

LEMMA LeastOf ==
    ASSUME NEW S \in SUBSET Nat, S # {}
    PROVE  \E m \in S : \A n \in S : m <= n
  <1> SUFFICES ASSUME \A m \in S : \E n \in S : ~(m <= n) PROVE FALSE
    OBVIOUS
  <1> DEFINE T == {n \in Nat : \A x \in S : n <= x}
  <1>1. 0 \in T
    OBVIOUS
  <1>2. ASSUME NEW n \in T PROVE n + 1 \in T
    <2>1. n \notin S
      OBVIOUS
    <2>2. ASSUME NEW x \in S PROVE n + 1 <= x
      <3>1. n <= x /\ n # x /\ x \in Nat
        BY <2>1
      <3> QED BY <3>1
    <2> QED BY <2>2
  <1>3. T = Nat
    <2>1. T \in SUBSET Nat
      OBVIOUS
    <2> HIDE DEF T
    <2> QED BY <1>1, <1>2, <2>1, Induction
  <1>4. PICK x \in S : TRUE
    OBVIOUS
  <1>5. x + 1 \in T
    BY <1>3, <1>4
  <1> QED BY <1>4, <1>5

LEMMA GreatestOf ==
    ASSUME NEW max \in Nat, NEW S \in SUBSET (0..max), S # {}
    PROVE  \E m \in S : \A n \in S : n <= m
  <1> DEFINE D == {max - n : n \in S}
  <1>1. D \in SUBSET Nat /\ D # {}
    OBVIOUS
  <1>2. PICK d \in D : \A c \in D : d <= c
    <2> HIDE DEF D
    <2> QED BY <1>1, LeastOf
  <1>3. PICK m \in S : d = max - m
    OBVIOUS
  <1>4. ASSUME NEW n \in S PROVE n <= m
    <2>1. max - n \in D /\ n \in Nat /\ m \in Nat
      BY <1>3
    <2>2. d <= max - n
      BY <1>2, <2>1
    <2> QED BY <1>3, <2>1, <2>2
  <1> QED BY <1>4

LEMMA Weighs ==
    /\ \A ids : Weight(ids) \in Nat
    /\ \A l : Population(l) \in 0..Cardinality(Device)
    /\ Cardinality(Device) \in Nat
  <1>1. ASSUME NEW ids PROVE SliceMatches(ids) \in SUBSET Device
    BY DEF SliceMatches
  <1>2. ASSUME NEW ids
        PROVE  Cardinality(SliceMatches(ids)) \in 0..Cardinality(Device) /\ Cardinality(Device) \in Nat
    <2>1. IsFiniteSet(SliceMatches(ids)) /\ Cardinality(SliceMatches(ids)) <= Cardinality(Device)
      BY <1>1, SliceAssumption, FS_Subset
    <2>2. Cardinality(SliceMatches(ids)) \in Nat /\ Cardinality(Device) \in Nat
      BY <2>1, SliceAssumption, FS_CardinalityType
    <2> QED BY <2>1, <2>2
  <1>3. Cardinality(Device) \in Nat
    BY SliceAssumption, FS_CardinalityType
  <1> QED BY <1>2, <1>3 DEF Weight, Population

LEMMA LargestIs ==
    ASSUME NEW ls \in SUBSET Location, ls # {}
    PROVE  Largest(ls) \in ls
  <1>t. ls \in SUBSET Nat /\ \A l \in ls : Population(l) \in 0..Cardinality(Device)
    BY SliceAssumption, Weighs
  <1> DEFINE sizes == {Population(l) : l \in ls}
  <1>1. sizes \in SUBSET (0..Cardinality(Device)) /\ sizes # {} /\ Cardinality(Device) \in Nat
    BY <1>t, Weighs
  <1>2. PICK p \in sizes : \A q \in sizes : q <= p
    <2> HIDE DEF sizes
    <2> QED BY <1>1, GreatestOf
  <1> DEFINE those == {l \in ls : Population(l) = p}
  <1>3. those \in SUBSET Nat /\ those # {}
    BY <1>t, <1>2
  <1>4. PICK l \in those : \A k \in those : l <= k
    <2> HIDE DEF those
    <2> QED BY <1>3, LeastOf
  <1>5. ASSUME NEW k \in ls
        PROVE  Population(l) > Population(k) \/ (Population(l) = Population(k) /\ l <= k)
    <2>1. Population(k) \in sizes /\ Population(l) = p /\ Population(k) \in Nat /\ p \in Nat
      BY <1>1, <1>4, <1>t
    <2>2. Population(k) <= p
      BY <1>2, <2>1
    <2>3. Population(k) = p => l <= k
      BY <1>4
    <2> QED BY <2>1, <2>2, <2>3
  <1>6. \E m \in ls : \A k \in ls : Population(m) > Population(k) \/ (Population(m) = Population(k) /\ m <= k)
    BY <1>4, <1>5
  <1> QED BY <1>6, Zenon DEF Largest

LEMMA LightestIs ==
    ASSUME NEW n \in Nat \ {0}, NEW slices, DOMAIN slices = 1..n
    PROVE  Lightest(slices) \in 1..n
  <1>t. \A i \in 1..n : Weight(slices[i]) \in Nat
    BY Weighs
  <1> DEFINE weights == {Weight(slices[i]) : i \in 1..n}
  <1>1. weights \in SUBSET Nat /\ weights # {}
    <2>1. Weight(slices[1]) \in weights
      OBVIOUS
    <2> QED BY <1>t, <2>1
  <1>2. PICK p \in weights : \A q \in weights : p <= q
    <2> HIDE DEF weights
    <2> QED BY <1>1, LeastOf
  <1> DEFINE those == {i \in 1..n : Weight(slices[i]) = p}
  <1>3. those \in SUBSET Nat /\ those # {}
    BY <1>2
  <1>4. PICK i \in those : \A k \in those : i <= k
    <2> HIDE DEF those
    <2> QED BY <1>3, LeastOf
  <1>5. ASSUME NEW k \in 1..n
        PROVE  \/ Weight(slices[i]) < Weight(slices[k])
               \/ Weight(slices[i]) = Weight(slices[k]) /\ i <= k
    <2>1. Weight(slices[k]) \in weights /\ Weight(slices[i]) = p /\ Weight(slices[k]) \in Nat /\ p \in Nat
      BY <1>1, <1>4, <1>t
    <2>2. p <= Weight(slices[k])
      BY <1>2, <2>1
    <2>3. Weight(slices[k]) = p => i <= k
      BY <1>4
    <2> QED BY <2>1, <2>2, <2>3
  <1>6. \E m \in DOMAIN slices : \A k \in DOMAIN slices :
          \/ Weight(slices[m]) < Weight(slices[k])
          \/ Weight(slices[m]) = Weight(slices[k]) /\ m <= k
    BY <1>4, <1>5
  <1>7. Lightest(slices) \in DOMAIN slices
    BY <1>6, Zenon DEF Lightest
  <1> QED BY <1>7

\* Slices of k of the occupied locations: no two share one.
Holds(slices, n, k) ==
    /\ slices \in [1..n -> SUBSET Occupied]
    /\ \A i, j \in 1..n : i # j => slices[i] \intersect slices[j] = {}
    /\ Cardinality(Named(slices)) = k

LEMMA NextIsPlaced ==
    ASSUME NEW n \in Nat \ {0}, NEW k \in Nat, k < Cardinality(Occupied), NEW slices, Holds(slices, n, k)
    PROVE  Holds(WithNext(slices), n, k + 1)
  <1>1. Occupied \in SUBSET Location /\ IsFiniteSet(Occupied) /\ Cardinality(Occupied) \in Nat
    <2>1. Occupied \in SUBSET Location
      BY DEF Occupied
    <2>2. IsFiniteSet(Occupied)
      BY <2>1, SliceAssumption, FS_Subset
    <2> QED BY <2>1, <2>2, FS_CardinalityType
  <1>2. slices \in [1..n -> SUBSET Occupied] /\ DOMAIN slices = 1..n
    BY DEF Holds
  <1>3. Named(slices) \in SUBSET Occupied /\ IsFiniteSet(Named(slices)) /\ Cardinality(Named(slices)) = k
    <2>1. Named(slices) \in SUBSET Occupied
      BY <1>2 DEF Named
    <2>2. IsFiniteSet(Named(slices))
      BY <1>1, <2>1, FS_Subset
    <2> QED BY <2>1, <2>2 DEF Holds
  <1>4. Occupied \ Named(slices) # {}
    BY <1>1, <1>3
  <1>5. PICK l : l = Largest(Occupied \ Named(slices))
    OBVIOUS
  <1>6. l \in Occupied \ Named(slices)
    <2>1. Occupied \ Named(slices) \in SUBSET Location
      BY <1>1
    <2> QED BY <1>4, <1>5, <2>1, LargestIs
  <1>7. PICK p \in 1..n : p = Lightest(slices)
    BY <1>2, LightestIs
  <1>8. PICK next : next = WithNext(slices)
    OBVIOUS
  <1>9. next = [slices EXCEPT ![p] = slices[p] \union {l}]
    BY <1>2, <1>5, <1>7, <1>8 DEF WithNext
  <1>10. /\ next \in [1..n -> SUBSET Occupied] /\ DOMAIN next = 1..n
         /\ next[p] = slices[p] \union {l}
         /\ \A i \in 1..n : i # p => next[i] = slices[i]
    BY <1>2, <1>6, <1>9
  <1>11. \A i \in 1..n : l \notin slices[i]
    BY <1>2, <1>6 DEF Named
  <1>12. ASSUME NEW i \in 1..n, NEW j \in 1..n, i # j
         PROVE  next[i] \intersect next[j] = {}
    <2>1. slices[i] \intersect slices[j] = {} /\ slices[j] \intersect slices[i] = {}
      BY <1>12 DEF Holds
    <2>2. CASE i = p
      BY <1>10, <1>11, <1>12, <2>1, <2>2
    <2>3. CASE j = p
      BY <1>10, <1>11, <1>12, <2>1, <2>3
    <2>4. CASE i # p /\ j # p
      BY <1>10, <2>1, <2>4
    <2> QED BY <2>2, <2>3, <2>4
  <1>13. Named(next) = Named(slices) \union {l}
    <2>1. ASSUME NEW m PROVE m \in Named(next) <=> m \in Named(slices) \union {l}
      <3>1. m \in Named(next) <=> \E i \in 1..n : m \in next[i]
        BY <1>10 DEF Named
      <3>2. m \in Named(slices) <=> \E i \in 1..n : m \in slices[i]
        BY <1>2 DEF Named
      <3>3. ASSUME NEW i \in 1..n PROVE m \in next[i] <=> m \in slices[i] \/ (i = p /\ m = l)
        BY <1>10
      <3> QED BY <3>1, <3>2, <3>3
    <2> QED BY <2>1
  <1>14. Cardinality(Named(next)) = k + 1
    BY <1>3, <1>6, <1>13, FS_AddElement
  <1> QED BY <1>8, <1>10, <1>12, <1>14 DEF Holds

Spreads(f, used, least) ==
    f = [n \in 0..used |-> IF n = 0 THEN [i \in 1..least |-> {}] ELSE WithNext(f[n - 1])]

LEMMA SpreadsExist ==
    ASSUME NEW least, NEW n \in Nat
    PROVE  \E f : Spreads(f, n, least)
  <1> DEFINE S == {m \in Nat : \E f : Spreads(f, m, least)}
  <1>1. 0 \in S
    <2>1. Spreads([n_1 \in 0..0 |-> [i \in 1..least |-> {}]], 0, least)
      BY DEF Spreads
    <2> QED BY <2>1
  <1>2. ASSUME NEW m \in S PROVE m + 1 \in S
    <2>1. PICK f : Spreads(f, m, least)
      OBVIOUS
    <2>2. m \in Nat /\ m + 1 \in Nat
      OBVIOUS
    <2> DEFINE g == [j \in 0..(m + 1) |-> IF j <= m THEN f[j] ELSE WithNext(f[m])]
    <2>3. ASSUME NEW j \in 0..(m + 1)
          PROVE  g[j] = IF j = 0 THEN [i \in 1..least |-> {}] ELSE WithNext(g[j - 1])
      <3>1. CASE j = 0
        <4>1. f[0] = [i \in 1..least |-> {}]
          BY <2>1, <2>2 DEF Spreads
        <4> QED BY <2>2, <3>1, <4>1
      <3>2. CASE j # 0 /\ j <= m
        <4>1. j \in 0..m /\ j - 1 \in 0..(m + 1) /\ j - 1 <= m /\ j <= m
          BY <2>2, <3>2
        <4>2. f[j] = WithNext(f[j - 1])
          BY <2>1, <3>2, <4>1 DEF Spreads
        <4>3. g[j] = f[j] /\ g[j - 1] = f[j - 1]
          BY <4>1
        <4> HIDE DEF g
        <4> QED BY <3>2, <4>2, <4>3
      <3>3. CASE j = m + 1
        <4>1. ~(m + 1 <= m) /\ (m + 1) - 1 = m /\ m \in 0..(m + 1) /\ m <= m /\ m + 1 \in 0..(m + 1)
          BY <2>2
        <4>2. g[m + 1] = WithNext(f[m])
          BY <4>1
        <4>3. g[m] = f[m]
          BY <4>1
        <4> HIDE DEF g
        <4> QED BY <2>2, <3>3, <4>1, <4>2, <4>3
      <3> QED BY <2>2, <3>1, <3>2, <3>3
    <2>4. g = [j \in 0..(m + 1) |-> g[j]]
      OBVIOUS
    <2> HIDE DEF g
    <2>5. g = [j \in 0..(m + 1) |-> IF j = 0 THEN [i \in 1..least |-> {}] ELSE WithNext(g[j - 1])]
      BY <2>3, <2>4, Zenon
    <2>6. Spreads(g, m + 1, least)
      BY <2>5 DEF Spreads
    <2> QED BY <2>2, <2>6
  <1>3. S \in SUBSET Nat
    OBVIOUS
  <1>4. S = Nat
    <2> HIDE DEF S
    <2> QED BY <1>1, <1>2, <1>3, Induction
  <1> QED BY <1>4

\* The slices name every occupied location, once.
LEMMA SpreadIs ==
    ASSUME Cardinality(Occupied) >= 1
    PROVE  \E n \in Nat \ {0} : /\ Spread \in [1..n -> SUBSET Occupied]
                                /\ \A i, j \in 1..n : i # j => Spread[i] \intersect Spread[j] = {}
                                /\ Named(Spread) = Occupied
  <1> DEFINE used == Cardinality(Occupied)
             least == IF used < Slices THEN used ELSE Slices
             spread[n \in 0..used] == IF n = 0 THEN [i \in 1..least |-> {}] ELSE WithNext(spread[n - 1])
  <1>1. Occupied \in SUBSET Location /\ IsFiniteSet(Occupied) /\ used \in Nat /\ least \in Nat \ {0}
    <2>1. Occupied \in SUBSET Location
      BY DEF Occupied
    <2>2. IsFiniteSet(Occupied)
      BY <2>1, SliceAssumption, FS_Subset
    <2>3. Cardinality(Occupied) \in Nat
      BY <2>2, FS_CardinalityType
    <2> QED BY <2>1, <2>2, <2>3, SliceAssumption
  <1>2. Spreads(spread, used, least)
    <2>1. \E f : Spreads(f, used, least)
      <3> HIDE DEF used, least
      <3> QED BY <1>1, SpreadsExist
    <2> HIDE DEF least
    <2> QED BY <2>1, Zenon DEF Spreads
  <1>3. Spread = spread[used]
    BY DEF Spread
  <1> HIDE DEF spread, used, least
  <1> DEFINE S == {k \in Nat : k <= used => Holds(spread[k], least, k)}
  <1>4. 0 \in S
    <2>1. 0 \in 0..used
      BY <1>1
    <2>2. spread[0] = [i \in 1..least |-> {}]
      BY <1>2, <2>1 DEF Spreads
    <2>3. PICK s : s = spread[0]
      OBVIOUS
    <2>4. /\ s \in [1..least -> SUBSET Occupied] /\ DOMAIN s = 1..least
          /\ \A i \in 1..least : s[i] = {}
      BY <2>2, <2>3
    <2>5. Named(s) = {}
      BY <2>4 DEF Named
    <2>6. Holds(s, least, 0)
      BY <2>4, <2>5, FS_EmptySet DEF Holds
    <2> QED BY <2>3, <2>6
  <1>5. ASSUME NEW k \in S PROVE k + 1 \in S
    <2>1. CASE k + 1 <= used
      <3>1. k \in Nat /\ k <= used /\ k < used /\ k + 1 \in 0..used /\ k + 1 # 0 /\ (k + 1) - 1 = k
        BY <1>1, <2>1
      <3>2. Holds(spread[k], least, k)
        BY <3>1
      <3>3. spread[k + 1] = WithNext(spread[k])
        BY <1>2, <3>1 DEF Spreads
      <3>4. Holds(WithNext(spread[k]), least, k + 1)
        BY <1>1, <3>1, <3>2, NextIsPlaced DEF used
      <3> QED BY <3>1, <3>3, <3>4
    <2>2. CASE ~(k + 1 <= used)
      BY <2>2
    <2> QED BY <2>1, <2>2
  <1>6. S \in SUBSET Nat
    OBVIOUS
  <1>7. S = Nat
    <2> HIDE DEF S
    <2> QED BY <1>4, <1>5, <1>6, Induction
  <1>8. Holds(Spread, least, used)
    BY <1>1, <1>3, <1>7
  <1>9. Named(Spread) = Occupied
    <2>1. Named(Spread) \in SUBSET Occupied /\ Cardinality(Named(Spread)) = Cardinality(Occupied)
      BY <1>8 DEF Holds, Named, used
    <2> QED BY <1>1, <2>1, FS_Subset
  <1> QED BY <1>1, <1>8, <1>9 DEF Holds

Sums(f, s) == f = [n \in 0..Len(s) |-> IF n = 0 THEN 0 ELSE f[n - 1] + s[n]]

LEMMA SumsExist ==
    ASSUME NEW s \in Seq(Nat)
    PROVE  \E f : Sums(f, s)
  <1> DEFINE len == Len(s)
             S == {m \in Nat : m <= len => \E f : f = [n \in 0..m |-> IF n = 0 THEN 0 ELSE f[n - 1] + s[n]]}
  <1>0. len \in Nat
    OBVIOUS
  <1> HIDE DEF len
  <1>1. 0 \in S
    <2> DEFINE f == [n \in 0..0 |-> 0]
    <2>1. f = [n \in 0..0 |-> IF n = 0 THEN 0 ELSE f[n - 1] + s[n]]
      OBVIOUS
    <2> QED BY <2>1
  <1>2. ASSUME NEW m \in S PROVE m + 1 \in S
    <2>1. CASE m + 1 <= len
      <3>1. m \in Nat /\ m <= len
        BY <1>0, <2>1
      <3>2. PICK f : f = [n \in 0..m |-> IF n = 0 THEN 0 ELSE f[n - 1] + s[n]]
        BY <3>1
      <3> DEFINE g == [j \in 0..(m + 1) |-> IF j <= m THEN f[j] ELSE f[m] + s[m + 1]]
      <3>3. ASSUME NEW j \in 0..(m + 1)
            PROVE  g[j] = IF j = 0 THEN 0 ELSE g[j - 1] + s[j]
        <4>1. CASE j = 0
          <5>1. f[0] = 0
            BY <3>1, <3>2
          <5> QED BY <3>1, <4>1, <5>1
        <4>2. CASE j # 0 /\ j <= m
          <5>1. j \in 0..m /\ j - 1 \in 0..(m + 1) /\ j - 1 <= m /\ j <= m
            BY <3>1, <4>2
          <5>2. f[j] = f[j - 1] + s[j]
            BY <3>2, <4>2, <5>1
          <5>3. g[j] = f[j] /\ g[j - 1] = f[j - 1]
            BY <5>1
          <5> HIDE DEF g
          <5> QED BY <4>2, <5>2, <5>3
        <4>3. CASE j = m + 1
          <5>1. ~(m + 1 <= m) /\ (m + 1) - 1 = m /\ m \in 0..(m + 1) /\ m <= m /\ m + 1 \in 0..(m + 1)
            BY <3>1
          <5>2. g[m + 1] = f[m] + s[m + 1]
            BY <5>1
          <5>3. g[m] = f[m]
            BY <5>1
          <5> HIDE DEF g
          <5> QED BY <3>1, <4>3, <5>1, <5>2, <5>3
        <4> QED BY <3>1, <4>1, <4>2, <4>3
      <3>4. g = [j \in 0..(m + 1) |-> g[j]]
        OBVIOUS
      <3> HIDE DEF g
      <3>5. g = [j \in 0..(m + 1) |-> IF j = 0 THEN 0 ELSE g[j - 1] + s[j]]
        BY <3>3, <3>4, Zenon
      <3>6. m + 1 \in Nat /\ \E h : h = [n \in 0..(m + 1) |-> IF n = 0 THEN 0 ELSE h[n - 1] + s[n]]
        BY <3>1, <3>5
      <3> QED BY <3>6
    <2>2. CASE ~(m + 1 <= len)
      BY <2>2
    <2> QED BY <2>1, <2>2
  <1>3. S \in SUBSET Nat
    OBVIOUS
  <1>4. S = Nat
    <2> HIDE DEF S
    <2> QED BY <1>1, <1>2, <1>3, Induction
  <1>5. len \in S
    BY <1>0, <1>4
  <1> QED BY <1>0, <1>5 DEF Sums, len

LEMMA TotalIs ==
    ASSUME NEW s \in Seq(Nat), NEW f, Sums(f, s)
    PROVE  Total(s) = f[Len(s)]
  <1> DEFINE len == Len(s)
  <1>0. len \in Nat /\ \A n \in 1..len : s[n] \in Nat
    OBVIOUS
  <1> DEFINE sum[n \in 0..Len(s)] == IF n = 0 THEN 0 ELSE sum[n - 1] + s[n]
  <1>1. Sums(sum, s)
    <2>1. \E g : Sums(g, s)
      OBVIOUS
    <2> QED BY <2>1, Zenon DEF Sums
  <1>2. Total(s) = sum[len]
    BY DEF Total
  <1> HIDE DEF sum, len
  <1> DEFINE S == {n \in Nat : n <= len => sum[n] = f[n]}
  <1>3. \A n \in 0..len : /\ f[n] = IF n = 0 THEN 0 ELSE f[n - 1] + s[n]
                          /\ sum[n] = IF n = 0 THEN 0 ELSE sum[n - 1] + s[n]
    BY <1>1, Zenon DEF Sums, len
  <1>4. 0 \in S
    <2>1. 0 \in 0..len
      BY <1>0
    <2> QED BY <1>3, <2>1
  <1>5. ASSUME NEW n \in S PROVE n + 1 \in S
    <2>1. CASE n + 1 <= len
      <3>1. n \in Nat /\ n <= len /\ n + 1 \in 0..len /\ n + 1 # 0 /\ (n + 1) - 1 = n
        BY <1>0, <2>1
      <3>2. sum[n + 1] = sum[n] + s[n + 1] /\ f[n + 1] = f[n] + s[n + 1]
        BY <1>3, <3>1
      <3> QED BY <3>1, <3>2
    <2>2. CASE ~(n + 1 <= len)
      BY <2>2
    <2> QED BY <2>1, <2>2
  <1>6. S \in SUBSET Nat
    OBVIOUS
  <1>7. S = Nat
    <2> HIDE DEF S
    <2> QED BY <1>4, <1>5, <1>6, Induction
  <1>8. len \in S
    BY <1>0, <1>7
  <1> QED BY <1>0, <1>2, <1>8 DEF len

\* When all devices but one are in one set each, and the sets count as many as there are
\* devices, that one is in one set too.
LEMMA TheOneCounts ==
    ASSUME NEW n \in Nat, NEW rows \in [1..n -> SUBSET Device], NEW m \in Device,
           \A d \in Device \ {m} : \E i \in 1..n : /\ d \in rows[i]
                                                   /\ \A k \in 1..n : d \in rows[k] => k = i,
           Total([i \in 1..n |-> Cardinality(rows[i])]) = Cardinality(Device)
    PROVE  Cardinality({i \in 1..n : m \in rows[i]}) = 1
  <1> DEFINE counts == [i \in 1..n |-> Cardinality(rows[i])]
             others(k) == {d \in Device \ {m} : \E i \in 1..k : d \in rows[i]}
             holding(k) == {i \in 1..k : m \in rows[i]}
  <1>1. \A i \in 1..n : IsFiniteSet(rows[i]) /\ Cardinality(rows[i]) \in Nat
    <2> SUFFICES ASSUME NEW i \in 1..n PROVE IsFiniteSet(rows[i]) /\ Cardinality(rows[i]) \in Nat
      OBVIOUS
    <2>1. rows[i] \in SUBSET Device
      OBVIOUS
    <2>2. IsFiniteSet(rows[i])
      BY <2>1, SliceAssumption, FS_Subset
    <2> QED BY <2>2, FS_CardinalityType
  <1>2. counts \in Seq(Nat) /\ Len(counts) = n /\ \A i \in 1..n : counts[i] = Cardinality(rows[i])
    BY <1>1
  <1>3. PICK f : Sums(f, counts)
    <2> HIDE DEF counts
    <2> QED BY <1>2, SumsExist
  <1>4. Total(counts) = f[n]
    <2> HIDE DEF counts
    <2> QED BY <1>2, <1>3, TotalIs
  <1> HIDE DEF counts
  <1>5. \A k \in 0..n : f[k] = IF k = 0 THEN 0 ELSE f[k - 1] + Cardinality(rows[k])
    <2> SUFFICES ASSUME NEW k \in 0..n
                 PROVE  f[k] = IF k = 0 THEN 0 ELSE f[k - 1] + Cardinality(rows[k])
      OBVIOUS
    <2>1. f[k] = IF k = 0 THEN 0 ELSE f[k - 1] + counts[k]
      BY <1>2, <1>3 DEF Sums
    <2> QED BY <1>2, <2>1
  <1>6. ASSUME NEW k \in Nat
        PROVE  /\ IsFiniteSet(others(k)) /\ Cardinality(others(k)) \in Nat
               /\ IsFiniteSet(holding(k)) /\ Cardinality(holding(k)) \in Nat
    <2>1. others(k) \in SUBSET Device /\ holding(k) \in SUBSET (1..k)
      OBVIOUS
    <2>2. IsFiniteSet(1..k)
      BY FS_Interval
    <2> HIDE DEF others, holding
    <2>3. IsFiniteSet(others(k)) /\ IsFiniteSet(holding(k))
      BY <2>1, <2>2, SliceAssumption, FS_Subset
    <2> QED BY <2>3, FS_CardinalityType
  <1> DEFINE S == {k \in Nat : k <= n => f[k] = Cardinality(others(k)) + Cardinality(holding(k))}
  <1>7. 0 \in S
    <2>1. others(0) = {} /\ holding(0) = {} /\ 0 \in 0..n
      OBVIOUS
    <2>2. Cardinality(others(0)) = 0 /\ Cardinality(holding(0)) = 0
      BY <2>1, FS_EmptySet
    <2> HIDE DEF others, holding
    <2>3. f[0] = 0
      BY <1>5, <2>1
    <2> QED BY <2>2, <2>3
  <1>8. ASSUME NEW k \in S PROVE k + 1 \in S
    <2>1. CASE k + 1 <= n
      <3>1. PICK q \in 1..n : q = k + 1
        BY <2>1
      <3>2. k \in Nat /\ k <= n /\ q \in 0..n /\ q # 0 /\ q - 1 = k /\ q \in Nat
        BY <2>1, <3>1
      <3>3. f[q] = f[k] + Cardinality(rows[q])
        BY <1>5, <3>2
      <3>4. f[k] = Cardinality(others(k)) + Cardinality(holding(k))
        BY <3>2
      <3> DEFINE rest == rows[q] \ {m}
      <3>5. /\ IsFiniteSet(rest)
            /\ Cardinality(rest) = IF m \in rows[q] THEN Cardinality(rows[q]) - 1 ELSE Cardinality(rows[q])
        BY <1>1, FS_RemoveElement
      <3>6. others(q) = others(k) \union rest
        <4>1. ASSUME NEW d \in Device \ {m}
              PROVE  (\E i \in 1..q : d \in rows[i]) <=> (\E i \in 1..k : d \in rows[i]) \/ d \in rows[q]
          <5>1. \A i : i \in 1..q <=> i \in 1..k \/ i = q
            BY <3>1, <3>2
          <5> QED BY <5>1
        <4>2. rows[q] \subseteq Device
          OBVIOUS
        <4> QED BY <4>1, <4>2
      <3>7. others(k) \intersect rest = {}
        <4>1. ASSUME NEW d \in Device \ {m}, NEW i \in 1..k, d \in rows[i], d \in rows[q] PROVE FALSE
          <5>1. i \in 1..n /\ i # q
            BY <3>1, <3>2
          <5>2. PICK j \in 1..n : \A p \in 1..n : d \in rows[p] => p = j
            OBVIOUS
          <5> QED BY <4>1, <5>1, <5>2
        <4> QED BY <4>1
      <3>8. Cardinality(others(q)) = Cardinality(others(k)) + Cardinality(rest)
        <4>1. IsFiniteSet(others(k)) /\ Cardinality(others(k)) \in Nat /\ Cardinality(rest) \in Nat
          BY <1>6, <3>2, <3>5, FS_CardinalityType
        <4> HIDE DEF others, rest
        <4>2. Cardinality(others(k) \union rest) =
                Cardinality(others(k)) + Cardinality(rest) - Cardinality(others(k) \intersect rest)
          BY <3>5, <4>1, FS_Union
        <4>3. Cardinality(others(k) \intersect rest) = 0
          BY <3>7, FS_EmptySet
        <4> QED BY <3>6, <4>1, <4>2, <4>3
      <3>9. Cardinality(holding(q)) = IF m \in rows[q] THEN Cardinality(holding(k)) + 1
                                      ELSE Cardinality(holding(k))
        <4>1. holding(q) = IF m \in rows[q] THEN holding(k) \union {q} ELSE holding(k)
          <5>1. \A i : i \in 1..q <=> i \in 1..k \/ i = q
            BY <3>1, <3>2
          <5> QED BY <5>1
        <4>2. q \notin holding(k)
          BY <3>1, <3>2
        <4>3. IsFiniteSet(holding(k))
          BY <1>6, <3>2
        <4> HIDE DEF holding
        <4> QED BY <4>1, <4>2, <4>3, FS_AddElement
      <3>10. /\ Cardinality(others(k)) \in Nat /\ Cardinality(holding(k)) \in Nat
             /\ Cardinality(rows[q]) \in Nat
        BY <1>1, <1>6, <3>2
      <3> HIDE DEF others, holding, rest
      <3>11. f[q] = Cardinality(others(q)) + Cardinality(holding(q))
        BY <3>3, <3>4, <3>5, <3>8, <3>9, <3>10
      <3> QED BY <3>1, <3>2, <3>11
    <2>2. CASE ~(k + 1 <= n)
      BY <2>2
    <2> QED BY <2>1, <2>2
  <1>9. S \in SUBSET Nat
    OBVIOUS
  <1>10. S = Nat
    <2> HIDE DEF S
    <2> QED BY <1>7, <1>8, <1>9, Induction
  <1>11. others(n) = Device \ {m}
    OBVIOUS
  <1>12. Cardinality(others(n)) = Cardinality(Device) - 1 /\ Cardinality(Device) \in Nat
    BY <1>11, SliceAssumption, FS_RemoveElement, FS_CardinalityType
  <1>13. f[n] = Cardinality(others(n)) + Cardinality(holding(n))
    <2> HIDE DEF others, holding
    <2>1. n \in S /\ n <= n
      BY <1>10
    <2> QED BY <2>1
  <1>14. f[n] = Cardinality(Device)
    BY <1>4 DEF counts
  <1>15. Cardinality(holding(n)) \in Nat
    BY <1>6
  <1>16. Cardinality(holding(n)) = 1
    <2> HIDE DEF others, holding
    <2> QED BY <1>12, <1>13, <1>14, <1>15
  <1> QED BY <1>16

\* The devices of m apart, which may have been moved, every device is in one slice, and the
\* rows that have been read are those of it.
InOneSlice(m, slices, rows, read) ==
    /\ DOMAIN rows = DOMAIN slices
    /\ \A d \in Device \ m :
         /\ \E i \in DOMAIN slices : /\ location[d] \in slices[i]
                                     /\ \A k \in DOMAIN slices : location[d] \in slices[k] => k = i
         /\ \A i \in read : d \in rows[i] <=> location[d] \in slices[i]

FeedType == [pc : {"idle", "sizing", "reading", "whole", "ok", "error"}, slices : Seq(SUBSET Location),
             sizes : Seq(Int), read : SUBSET Nat, rows : Seq(SUBSET Device), whole : Int]

SlicedInv ==
    /\ location \in [Device -> Everywhere] /\ moves \in Nat /\ feed \in FeedType
    /\ feed.pc = "sizing" => feed.whole \in {Unread, Cardinality(Device)}
    /\ feed.pc = "reading" => feed.whole = Cardinality(Device)
    /\ feed.pc \in {"sizing", "reading"} =>
         \E m \in SUBSET Device : /\ moves = 0 => m = {}
                                  /\ \A c, d \in m : c = d
                                  /\ InOneSlice(m, feed.slices, feed.rows, feed.read)
    /\ EveryRowOnce

LEMMA DevicesCounted == IsFiniteSet(Device) /\ Cardinality(Device) \in Nat
  BY SliceAssumption, FS_CardinalityType

LEMMA PlanIs ==
    ASSUME SlicedInv, Planned # <<>>
    PROVE  /\ Planned \in Seq(SUBSET Location)
           /\ \A d \in Device : \E i \in DOMAIN Planned :
                /\ location[d] \in Planned[i]
                /\ \A k \in DOMAIN Planned : location[d] \in Planned[k] => k = i
  <1>1. /\ Planned = Spread /\ \A d \in Device : location[d] # Nowhere
        /\ ~(Cardinality(Occupied) < 2)
    BY DEF Planned
  <1>2. Occupied \in SUBSET Location /\ Cardinality(Occupied) \in Nat
    <2>1. Occupied \in SUBSET Location
      BY DEF Occupied
    <2>2. IsFiniteSet(Occupied)
      BY <2>1, SliceAssumption, FS_Subset
    <2> QED BY <2>1, <2>2, FS_CardinalityType
  <1>3. PICK n \in Nat \ {0} : /\ Spread \in [1..n -> SUBSET Occupied]
                               /\ \A i, j \in 1..n : i # j => Spread[i] \intersect Spread[j] = {}
                               /\ Named(Spread) = Occupied
    BY <1>1, <1>2, SpreadIs
  <1>4. DOMAIN Spread = 1..n /\ Spread \in Seq(SUBSET Location)
    BY <1>2, <1>3
  <1>5. ASSUME NEW d \in Device
        PROVE  \E i \in 1..n : /\ location[d] \in Spread[i]
                               /\ \A k \in 1..n : location[d] \in Spread[k] => k = i
    <2>1. location[d] \in Location
      BY <1>1 DEF SlicedInv, Everywhere
    <2>2. PICK l : l = location[d]
      OBVIOUS
    <2>3. d \in SliceMatches({l})
      BY <2>2 DEF SliceMatches
    <2>4. IsFiniteSet(SliceMatches({l}))
      <3>1. SliceMatches({l}) \in SUBSET Device
        BY DEF SliceMatches
      <3> QED BY <3>1, SliceAssumption, FS_Subset
    <2>5. Population(l) > 0
      <3>1. Cardinality(SliceMatches({l})) \in Nat /\ Cardinality(SliceMatches({l})) # 0
        BY <2>3, <2>4, FS_CardinalityType, FS_EmptySet
      <3> QED BY <3>1 DEF Population
    <2>6. l \in Named(Spread)
      BY <1>3, <2>1, <2>2, <2>5 DEF Occupied
    <2>7. PICK i \in 1..n : l \in Spread[i]
      BY <1>4, <2>6 DEF Named
    <2>8. \A k \in 1..n : l \in Spread[k] => k = i
      BY <1>3, <2>7
    <2> QED BY <2>2, <2>7, <2>8
  <1> QED BY <1>1, <1>4, <1>5

LEMMA FeedStarts == FeedInit => SlicedInv
<1> SUFFICES ASSUME FeedInit PROVE SlicedInv
  OBVIOUS
<1>1. location \in [Device -> Everywhere] /\ moves = 0 /\ feed = NoFeed
  BY DEF FeedInit
<1>2. feed \in FeedType /\ feed.pc = "idle"
  BY <1>1 DEF NoFeed, FeedType, Unread
<1> QED BY <1>1, <1>2 DEF SlicedInv, EveryRowOnce

\* A feed that is not read in slices.
LEMMA NotInSlices ==
    ASSUME SlicedInv, location' = location, moves' = moves \/ moves' = 0, feed' \in FeedType,
           feed'.pc \in {"idle", "whole", "error"}
    PROVE  SlicedInv'
  BY DEF SlicedInv, EveryRowOnce, Everywhere

LEMMA BlankFeed ==
    ASSUME NEW pc \in {"idle", "whole", "error"}
    PROVE  [NoFeed EXCEPT !.pc = pc] \in FeedType /\ [NoFeed EXCEPT !.pc = pc].pc = pc
  <1>1. [NoFeed EXCEPT !.pc = pc] = [pc |-> pc, slices |-> <<>>, sizes |-> <<>>, read |-> {},
                                    rows |-> <<>>, whole |-> -1]
    BY DEF NoFeed, Unread
  <1>2. [pc |-> pc, slices |-> <<>>, sizes |-> <<>>, read |-> {}, rows |-> <<>>, whole |-> -1] \in FeedType
    <2>1. <<>> \in Seq(SUBSET Location) /\ <<>> \in Seq(Int) /\ <<>> \in Seq(SUBSET Device) /\ -1 \in Int
      OBVIOUS
    <2> QED BY <2>1, Zenon DEF FeedType
  <1> QED BY <1>1, <1>2

LEMMA BeginsOfFeed == SlicedInv /\ BeginsFeed => SlicedInv'
<1> SUFFICES ASSUME SlicedInv, BeginsFeed PROVE SlicedInv'
  OBVIOUS
<1>1. location' = location /\ moves' = 0 /\ location \in [Device -> Everywhere]
  BY DEF BeginsFeed, SlicedInv
<1>2. CASE Planned = <<>>
  <2>1. feed' = [NoFeed EXCEPT !.pc = "whole"]
    BY <1>2 DEF BeginsFeed
  <2> QED BY <1>1, <2>1, BlankFeed, NotInSlices
<1>3. CASE Planned # <<>>
  <2>1. PICK plan \in Seq(SUBSET Location) :
          /\ plan = Planned
          /\ \A d \in Device : \E i \in DOMAIN plan :
                /\ location[d] \in plan[i]
                /\ \A k \in DOMAIN plan : location[d] \in plan[k] => k = i
    BY <1>3, PlanIs
  <2>2. feed' = [pc |-> "sizing", slices |-> plan, whole |-> Unread,
                 sizes |-> [i \in DOMAIN plan |-> Unread],
                 read |-> {}, rows |-> [i \in DOMAIN plan |-> {}]]
    BY <1>3, <2>1 DEF BeginsFeed
  <2>3. PICK sizes \in Seq(Int), rows \in Seq(SUBSET Device) :
          /\ sizes = [i \in DOMAIN plan |-> Unread] /\ rows = [i \in DOMAIN plan |-> {}]
          /\ DOMAIN rows = DOMAIN plan
    <3>1. DOMAIN plan = 1..Len(plan) /\ Len(plan) \in Nat /\ Unread \in Int
      BY DEF Unread
    <3>2. [i \in 1..Len(plan) |-> Unread] \in Seq(Int)
      BY <3>1
    <3>3. [i \in 1..Len(plan) |-> {}] \in Seq(SUBSET Device)
      BY <3>1
    <3> QED BY <3>1, <3>2, <3>3
  <2>4. feed' = [pc |-> "sizing", slices |-> plan, whole |-> Unread, sizes |-> sizes, read |-> {},
                 rows |-> rows]
    BY <2>2, <2>3
  <2>5. /\ feed' \in FeedType /\ feed'.pc = "sizing" /\ feed'.slices = plan /\ feed'.rows = rows
        /\ feed'.read = {} /\ feed'.whole = Unread
    BY <2>4 DEF FeedType, Unread
  <2>6. InOneSlice({}, feed.slices, feed.rows, feed.read)'
    BY <1>1, <2>1, <2>3, <2>5 DEF InOneSlice
  <2>7. \E m \in SUBSET Device : /\ moves' = 0 => m = {}
                                 /\ \A c, d \in m : c = d
                                 /\ InOneSlice(m, feed.slices, feed.rows, feed.read)'
    <3>1. {} \in SUBSET Device /\ \A c, d \in {} : c = d
      OBVIOUS
    <3> QED BY <2>6, <3>1, Zenon DEF InOneSlice
  <2> QED BY <1>1, <2>5, <2>7 DEF SlicedInv, EveryRowOnce, InOneSlice, Everywhere
<1> QED BY <1>2, <1>3

\* A feed that is read in slices goes on: its slices and the devices apart are the same.
LEMMA GoesOn ==
    ASSUME SlicedInv, UNCHANGED <<location, moves>>, feed.pc \in {"sizing", "reading"},
           feed' \in FeedType, feed'.pc \in {"sizing", "reading"}, feed'.slices = feed.slices,
           feed'.pc = "sizing" => feed'.whole \in {Unread, Cardinality(Device)},
           feed'.pc = "reading" => feed'.whole = Cardinality(Device),
           DOMAIN feed'.rows = DOMAIN feed.rows,
           \A i \in feed'.read : \/ i \in feed.read /\ feed'.rows[i] = feed.rows[i]
                                 \/ feed'.rows[i] = SliceMatches(feed.slices[i])
    PROVE  SlicedInv'
  <1>1. PICK m \in SUBSET Device : /\ moves = 0 => m = {}
                                   /\ \A c, d \in m : c = d
                                   /\ InOneSlice(m, feed.slices, feed.rows, feed.read)
    BY DEF SlicedInv
  <1>2. ASSUME NEW d \in Device \ m, NEW i \in feed'.read
        PROVE  d \in feed'.rows[i] <=> location[d] \in feed.slices[i]
    <2>1. CASE i \in feed.read /\ feed'.rows[i] = feed.rows[i]
      BY <1>1, <2>1 DEF InOneSlice
    <2>2. CASE feed'.rows[i] = SliceMatches(feed.slices[i])
      BY <2>2 DEF SliceMatches
    <2> QED BY <2>1, <2>2
  <1>3. /\ DOMAIN feed'.rows = DOMAIN feed'.slices
        /\ \A d \in Device \ m :
             /\ \E i \in DOMAIN feed'.slices :
                  /\ location'[d] \in feed'.slices[i]
                  /\ \A k \in DOMAIN feed'.slices : location'[d] \in feed'.slices[k] => k = i
             /\ \A i \in feed'.read : d \in feed'.rows[i] <=> location'[d] \in feed'.slices[i]
    BY <1>1, <1>2 DEF InOneSlice
  <1>4. \E w \in SUBSET Device : /\ moves' = 0 => w = {}
                                 /\ \A c, d \in w : c = d
                                 /\ InOneSlice(w, feed.slices, feed.rows, feed.read)'
    BY <1>1, <1>3 DEF InOneSlice
  <1>5. location \in [Device -> Everywhere] /\ moves \in Nat
    BY DEF SlicedInv
  <1> QED BY <1>4, <1>5 DEF SlicedInv, EveryRowOnce, Everywhere

LEMMA FeedTypes == SlicedInv => feed \in FeedType
  BY DEF SlicedInv

LEMMA SizeOfFeed ==
    ASSUME SlicedInv, NEW i, SizeArrives(i)
    PROVE  SlicedInv'
<1>1. feed \in FeedType /\ feed.pc = "sizing" /\ UNCHANGED <<location, moves>>
  BY FeedTypes DEF SizeArrives
<1>2. CASE i = Whole /\ feed.whole = Unread /\ feed' = [feed EXCEPT !.whole = Cardinality(Device)]
  <2>1. /\ feed' \in FeedType /\ feed'.pc = "sizing" /\ feed'.slices = feed.slices
        /\ feed'.rows = feed.rows /\ feed'.read = feed.read /\ feed'.whole = Cardinality(Device)
    <3>1. PICK n \in Int : n = Cardinality(Device)
      BY DevicesCounted
    <3>2. feed' = [feed EXCEPT !.whole = n]
      BY <1>2, <3>1
    <3> QED BY <1>1, <3>1, <3>2 DEF FeedType
  <2> QED BY <1>1, <2>1, GoesOn
<1>3. CASE i \in DOMAIN feed.sizes /\ feed' = [feed EXCEPT !.sizes[i] = Weight(feed.slices[i])]
  <2>1. PICK w \in Nat : w = Weight(feed.slices[i])
    BY Weighs
  <2>2. PICK s \in Seq(Int) : s = [feed.sizes EXCEPT ![i] = w]
    <3>1. feed.sizes \in Seq(Int)
      BY <1>1 DEF FeedType
    <3>2. PICK t \in Seq(Int) : t = feed.sizes
      BY <3>1
    <3>3. i \in 1..Len(t) /\ DOMAIN t = 1..Len(t) /\ Len(t) \in Nat /\ \A k \in 1..Len(t) : t[k] \in Int
      BY <1>3, <3>2
    <3>4. [t EXCEPT ![i] = w] \in [1..Len(t) -> Int]
      BY <3>3
    <3>5. [t EXCEPT ![i] = w] \in Seq(Int)
      BY <3>3, <3>4
    <3> QED BY <3>2, <3>5
  <2>3. feed' = [feed EXCEPT !.sizes = s]
    BY <1>3, <2>1, <2>2
  <2>4. /\ feed' \in FeedType /\ feed'.pc = "sizing" /\ feed'.slices = feed.slices
        /\ feed'.rows = feed.rows /\ feed'.read = feed.read /\ feed'.whole = feed.whole
    BY <1>1, <2>3 DEF FeedType
  <2>5. feed.whole \in {Unread, Cardinality(Device)}
    BY <1>1 DEF SlicedInv
  <2> QED BY <1>1, <2>4, <2>5, GoesOn
<1> QED BY <1>2, <1>3 DEF SizeArrives

LEMMA SizeOfFeedFails == SlicedInv /\ SizeFails => SlicedInv'
  BY BlankFeed, NotInSlices DEF SizeFails

LEMMA FeedFails == SlicedInv /\ SliceFails => SlicedInv'
  BY BlankFeed, NotInSlices DEF SliceFails

LEMMA SizesOfFeed == SlicedInv /\ SizesAreIn => SlicedInv'
<1> SUFFICES ASSUME SlicedInv, SizesAreIn PROVE SlicedInv'
  OBVIOUS
<1>1. /\ feed \in FeedType /\ feed.pc = "sizing" /\ UNCHANGED <<location, moves>>
      /\ feed.whole = Cardinality(Device)
  BY FeedTypes DEF SizesAreIn, SlicedInv
<1>2. CASE Total(feed.sizes) = feed.whole
  <2>1. feed' = [feed EXCEPT !.pc = "reading", !.sizes = <<>>]
    BY <1>2 DEF SizesAreIn
  <2>2. /\ feed' \in FeedType /\ feed'.pc = "reading" /\ feed'.slices = feed.slices
        /\ feed'.rows = feed.rows /\ feed'.read = feed.read /\ feed'.whole = feed.whole
    <3>0. <<>> \in Seq(Int)
      OBVIOUS
    <3>1. PICK none \in Seq(Int) : none = <<>>
      BY <3>0
    <3>2. feed' = [feed EXCEPT !.pc = "reading", !.sizes = none]
      BY <2>1, <3>1
    <3> QED BY <1>1, <3>2 DEF FeedType
  <2> QED BY <1>1, <2>2, GoesOn
<1>3. CASE Total(feed.sizes) # feed.whole
  <2>1. feed' = [NoFeed EXCEPT !.pc = "whole"]
    BY <1>3 DEF SizesAreIn
  <2> QED BY <1>1, <2>1, BlankFeed, NotInSlices
<1> QED BY <1>2, <1>3

LEMMA SliceOfFeed ==
    ASSUME SlicedInv, NEW i, SliceArrives(i)
    PROVE  SlicedInv'
<1>1. /\ feed \in FeedType /\ feed.pc = "reading" /\ UNCHANGED <<location, moves>>
      /\ i \in (DOMAIN feed.rows) \ feed.read /\ feed.whole = Cardinality(Device)
      /\ feed' = [feed EXCEPT !.read = @ \union {i}, !.rows[i] = SliceMatches(feed.slices[i])]
  BY FeedTypes DEF SliceArrives, SlicedInv
<1>2. PICK w \in SUBSET Device : w = SliceMatches(feed.slices[i])
  BY DEF SliceMatches
<1>3. feed.rows \in Seq(SUBSET Device) /\ i \in Nat
  <2>1. feed.rows \in Seq(SUBSET Device)
    BY <1>1 DEF FeedType
  <2> QED BY <1>1, <2>1
<1>4. PICK rows \in Seq(SUBSET Device) : /\ rows = [feed.rows EXCEPT ![i] = w]
                                         /\ DOMAIN rows = DOMAIN feed.rows
                                         /\ rows[i] = w
                                         /\ \A k \in DOMAIN feed.rows : k # i => rows[k] = feed.rows[k]
  <2>1. PICK t \in Seq(SUBSET Device) : t = feed.rows
    BY <1>3
  <2>2. i \in 1..Len(t) /\ DOMAIN t = 1..Len(t) /\ Len(t) \in Nat
        /\ \A k \in 1..Len(t) : t[k] \in SUBSET Device
    BY <1>1, <2>1
  <2>3. [t EXCEPT ![i] = w] \in [1..Len(t) -> SUBSET Device]
    BY <2>2
  <2>4. [t EXCEPT ![i] = w] \in Seq(SUBSET Device)
    BY <2>2, <2>3
  <2> QED BY <2>1, <2>2, <2>4
<1>5. feed' = [feed EXCEPT !.read = feed.read \union {i}, !.rows = rows]
  BY <1>1, <1>2, <1>4 DEF FeedType
<1>6. /\ feed' \in FeedType /\ feed'.pc = "reading" /\ feed'.slices = feed.slices
      /\ feed'.rows = rows /\ feed'.read = feed.read \union {i} /\ feed'.whole = feed.whole
  <2>1. PICK read \in SUBSET Nat : read = feed.read \union {i}
    BY <1>1, <1>3 DEF FeedType
  <2>2. feed' = [feed EXCEPT !.read = read, !.rows = rows]
    BY <1>5, <2>1
  <2> QED BY <1>1, <2>1, <2>2 DEF FeedType
<1>7. \A k \in feed'.read : \/ k \in feed.read /\ feed'.rows[k] = feed.rows[k]
                            \/ feed'.rows[k] = SliceMatches(feed.slices[k])
  <2> SUFFICES ASSUME NEW k \in feed.read, k # i PROVE rows[k] = feed.rows[k]
    BY <1>2, <1>4, <1>6
  <2>1. CASE k \in DOMAIN feed.rows
    BY <1>4, <2>1
  <2>2. CASE k \notin DOMAIN feed.rows
    BY <1>4, <2>2
  <2> QED BY <2>1, <2>2
<1> QED BY <1>1, <1>4, <1>6, <1>7, GoesOn

\* When there are as many rows as the feed has, every device has one.
LEMMA SlicesOfFeed == SlicedInv /\ SlicesAreIn => SlicedInv'
<1> SUFFICES ASSUME SlicedInv, SlicesAreIn PROVE SlicedInv'
  OBVIOUS
<1>1. /\ feed \in FeedType /\ feed.pc = "reading" /\ UNCHANGED <<location, moves>>
      /\ feed.whole = Cardinality(Device) /\ feed.read = DOMAIN feed.rows
  BY FeedTypes DEF SlicesAreIn, AllRead, SlicedInv
<1>2. CASE Total(Counts) = feed.whole
  <2>1. feed' = [feed EXCEPT !.pc = "ok", !.slices = <<>>, !.read = {}, !.whole = Unread]
    BY <1>2 DEF SlicesAreIn
  <2>2. feed' \in FeedType /\ feed'.pc = "ok" /\ feed'.rows = feed.rows
    <3>0. <<>> \in Seq(SUBSET Location) /\ {} \in SUBSET Nat /\ -1 \in Int
      OBVIOUS
    <3>1. PICK none \in Seq(SUBSET Location), blank \in SUBSET Nat, unread \in Int :
            none = <<>> /\ blank = {} /\ unread = Unread
      BY <3>0, Zenon DEF Unread
    <3>2. feed' = [feed EXCEPT !.pc = "ok", !.slices = none, !.read = blank, !.whole = unread]
      BY <2>1, <3>1
    <3> QED BY <1>1, <3>2 DEF FeedType
  <2>3. PICK rows \in Seq(SUBSET Device) : rows = feed.rows
    BY <1>1 DEF FeedType
  <2>4. PICK n \in Nat : /\ n = Len(rows) /\ DOMAIN rows = 1..n
                         /\ rows \in [1..n -> SUBSET Device]
    OBVIOUS
  <2>5. Total([i \in 1..n |-> Cardinality(rows[i])]) = Cardinality(Device)
    BY <1>1, <1>2, <2>3, <2>4 DEF Counts
  <2>6. PICK m \in SUBSET Device : /\ \A c, d \in m : c = d
                                   /\ InOneSlice(m, feed.slices, feed.rows, feed.read)
    BY <1>1 DEF SlicedInv
  <2>7. ASSUME NEW d \in Device \ m
        PROVE  \E i \in 1..n : d \in rows[i] /\ \A k \in 1..n : d \in rows[k] => k = i
    <3>1. /\ DOMAIN feed.slices = 1..n
          /\ \A i \in 1..n : d \in rows[i] <=> location[d] \in feed.slices[i]
      BY <1>1, <2>3, <2>4, <2>6 DEF InOneSlice
    <3>2. \E i \in DOMAIN feed.slices : /\ location[d] \in feed.slices[i]
                                       /\ \A k \in DOMAIN feed.slices : location[d] \in feed.slices[k] => k = i
      BY <2>6, Zenon DEF InOneSlice
    <3> QED BY <3>1, <3>2
  <2>8. ASSUME NEW d \in Device
        PROVE  Cardinality({i \in 1..n : d \in rows[i]}) = 1
    <3>1. CASE d \in m
      <4>1. Device \ {d} \subseteq Device \ m
        BY <2>6, <3>1
      <4>2. \A c \in Device \ {d} : \E i \in 1..n :
              c \in rows[i] /\ \A k \in 1..n : c \in rows[k] => k = i
        BY <2>7, <2>6, <3>1
      <4> QED BY <2>4, <2>5, <4>2, TheOneCounts
    <3>2. CASE d \notin m
      <4>1. PICK i \in 1..n : d \in rows[i] /\ \A k \in 1..n : d \in rows[k] => k = i
        BY <2>7, <3>2
      <4>2. {k \in 1..n : d \in rows[k]} = {i}
        BY <4>1
      <4> QED BY <4>2, FS_Singleton
    <3> QED BY <3>1, <3>2
  <2>9. EveryRowOnce'
    BY <2>2, <2>3, <2>4, <2>8 DEF EveryRowOnce
  <2>10. location' \in [Device -> Everywhere] /\ moves' \in Nat
    BY <1>1 DEF SlicedInv
  <2> QED BY <2>2, <2>9, <2>10 DEF SlicedInv, Everywhere
<1>3. CASE Total(Counts) # feed.whole
  <2>1. feed' = [NoFeed EXCEPT !.pc = "whole"]
    BY <1>3 DEF SlicesAreIn
  <2> QED BY <1>1, <2>1, BlankFeed, NotInSlices
<1> QED BY <1>2, <1>3

LEMMA WholeFeed == SlicedInv /\ WholeArrives => SlicedInv'
<1> SUFFICES ASSUME SlicedInv, WholeArrives PROVE SlicedInv'
  OBVIOUS
<1>1. UNCHANGED <<location, moves>> /\ location \in [Device -> Everywhere] /\ moves \in Nat
  BY DEF WholeArrives, SlicedInv
<1>2. CASE feed' = [NoFeed EXCEPT !.pc = "ok", !.rows = <<Device>>]
  <2>1. PICK rows \in Seq(SUBSET Device) : rows = <<Device>> /\ DOMAIN rows = {1} /\ rows[1] = Device
    <3>1. PICK all \in SUBSET Device : all = Device
      OBVIOUS
    <3>2. <<all>> \in Seq(SUBSET Device) /\ DOMAIN <<all>> = {1} /\ <<all>>[1] = all
      OBVIOUS
    <3> QED BY <3>1, <3>2
  <2>2. feed' = [pc |-> "ok", slices |-> <<>>, sizes |-> <<>>, read |-> {}, rows |-> rows, whole |-> -1]
    BY <1>2, <2>1 DEF NoFeed, Unread
  <2>3. feed' \in FeedType /\ feed'.pc = "ok" /\ feed'.rows = rows
    <3>1. <<>> \in Seq(SUBSET Location) /\ <<>> \in Seq(Int) /\ -1 \in Int
      OBVIOUS
    <3>2. [pc |-> "ok", slices |-> <<>>, sizes |-> <<>>, read |-> {}, rows |-> rows, whole |-> -1]
            \in FeedType
      BY <3>1, Zenon DEF FeedType
    <3> QED BY <2>2, <3>2
  <2>4. ASSUME NEW d \in Device
        PROVE  Cardinality({i \in DOMAIN rows : d \in rows[i]}) = 1
    <3>1. {i \in DOMAIN rows : d \in rows[i]} = {1}
      BY <2>1
    <3> QED BY <3>1, FS_Singleton
  <2>5. EveryRowOnce'
    BY <2>3, <2>4 DEF EveryRowOnce
  <2> QED BY <1>1, <2>3, <2>5 DEF SlicedInv, Everywhere
<1>3. CASE feed' = [NoFeed EXCEPT !.pc = "error"]
  BY <1>1, <1>3, BlankFeed, NotInSlices
<1> QED BY <1>2, <1>3 DEF WholeArrives

LEMMA DeviceMoves ==
    ASSUME MaxMoves <= 1, SlicedInv, NEW d \in Device, Moves(d)
    PROVE  SlicedInv'
<1>1. /\ moves = 0 /\ moves' = 1 /\ feed' = feed /\ feed.pc \in {"sizing", "reading"}
      /\ feed \in FeedType
  BY SliceAssumption, FeedTypes DEF Moves, SlicedInv
<1>2. PICK l \in Everywhere : location' = [location EXCEPT ![d] = l]
  BY DEF Moves
<1>3. /\ location' \in [Device -> Everywhere]
      /\ \A c \in Device : c # d => location'[c] = location[c]
  BY <1>2 DEF SlicedInv
<1>4. InOneSlice({}, feed.slices, feed.rows, feed.read)
  BY <1>1 DEF SlicedInv
<1>5. InOneSlice({d}, feed.slices, feed.rows, feed.read)'
  BY <1>1, <1>3, <1>4 DEF InOneSlice
<1>6. \E m \in SUBSET Device : /\ moves' = 0 => m = {}
                               /\ \A b, c \in m : b = c
                               /\ InOneSlice(m, feed.slices, feed.rows, feed.read)'
  <2>1. {d} \in SUBSET Device /\ (\A b, c \in {d} : b = c) /\ moves' # 0
    BY <1>1
  <2> QED BY <1>5, <2>1, Zenon DEF InOneSlice
<1>7. /\ feed'.pc = "sizing" => feed'.whole \in {Unread, Cardinality(Device)}
      /\ feed'.pc = "reading" => feed'.whole = Cardinality(Device)
  BY <1>1 DEF SlicedInv
<1> QED BY <1>1, <1>3, <1>6, <1>7 DEF SlicedInv, EveryRowOnce, Everywhere, InOneSlice

LEMMA FeedStep == MaxMoves <= 1 /\ SlicedInv /\ [FeedNext]_feedVars => SlicedInv'
<1> SUFFICES ASSUME MaxMoves <= 1, SlicedInv, [FeedNext]_feedVars PROVE SlicedInv'
  OBVIOUS
<1>1. CASE FeedNext
  BY <1>1, BeginsOfFeed, SizeOfFeed, SizeOfFeedFails, SizesOfFeed, SliceOfFeed, FeedFails,
     SlicesOfFeed, WholeFeed, DeviceMoves DEF FeedNext
<1>2. CASE UNCHANGED feedVars
  <2>1. location' = location /\ moves' = moves /\ feed' = feed
    BY <1>2 DEF feedVars
  <2>2. EveryRowOnce'
    BY <2>1 DEF SlicedInv, EveryRowOnce
  <2>3. feed'.pc \in {"sizing", "reading"} =>
          \E m \in SUBSET Device : /\ moves' = 0 => m = {}
                                   /\ \A c, d \in m : c = d
                                   /\ InOneSlice(m, feed.slices, feed.rows, feed.read)'
    <3> SUFFICES ASSUME feed'.pc \in {"sizing", "reading"}
                 PROVE  \E m \in SUBSET Device : /\ moves' = 0 => m = {}
                                                 /\ \A c, d \in m : c = d
                                                 /\ InOneSlice(m, feed.slices, feed.rows, feed.read)'
      OBVIOUS
    <3>1. PICK m \in SUBSET Device : /\ moves = 0 => m = {}
                                     /\ \A c, d \in m : c = d
                                     /\ InOneSlice(m, feed.slices, feed.rows, feed.read)
      BY <2>1 DEF SlicedInv
    <3>2. InOneSlice(m, feed.slices, feed.rows, feed.read)'
      BY <2>1, <3>1 DEF InOneSlice
    <3> QED BY <2>1, <3>1, <3>2, Zenon DEF InOneSlice
  <2> QED BY <2>1, <2>2, <2>3 DEF SlicedInv, InOneSlice, Everywhere
<1> QED BY <1>1, <1>2

\* The rows of a feed that is read in slices are those of the fleet, each once, when at most
\* one device is moved meanwhile, for every fleet, location and slicing: the slices name every
\* occupied location once, so only the device that moves can be in two slices or in none, and
\* then the rows are not as many as were announced (plan_location_slices and
\* fleet_software_patches_sliced of api/patches.rs).
THEOREM RowsComeOnce == MaxMoves <= 1 => (FeedSpec => []EveryRowOnce)
<1> SUFFICES ASSUME MaxMoves <= 1 PROVE FeedSpec => []EveryRowOnce
  OBVIOUS
<1>1. FeedInit => SlicedInv
  BY FeedStarts
<1>2. SlicedInv /\ [FeedNext]_feedVars => SlicedInv'
  BY FeedStep
<1>3. SlicedInv => EveryRowOnce
  BY DEF SlicedInv
<1> QED BY <1>1, <1>2, <1>3, PTL DEF FeedSpec
=============================================================================
