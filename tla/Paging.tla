------------------------------- MODULE Paging -------------------------------
(***************************************************************************)
(* get_paginated_reporting (src-tauri/src/api/paging.rs): a whole feed     *)
(* read page by page, against a server that keeps the scan's position      *)
(* itself, under the name of the cursor.                                   *)
(*                                                                         *)
(* A fetch makes its requests through Requests, one at a time; other       *)
(* calls, actions on devices, share the client's pause with it. The        *)
(* server is the environment. A row is its number in the feed. It numbers  *)
(* the cursors of a scan; honest ones are new. lied says that, since the   *)
(* scan was opened, the server has ended it before the end, or served rows *)
(* twice, where no count can show it: a broken cursor, or a feed that has  *)
(* changed since it was opened.                                            *)
(***************************************************************************)
EXTENDS Requests, Sequences

CONSTANTS Fetch,          \* the fetches, of Req
          ScanRestarts,   \* SCAN_RESTARTS
          PageRereads,    \* PAGE_REREADS
          MaxPages,       \* MAX_PAGES
          PageSize,       \* REPORTING_PAGE_SIZE, DEFAULT_PAGE_SIZE
          Sizes,          \* the feed's size when the fetch begins
          MaxRows         \* bound: the rows of the feed

ASSUME FetchesAreCalls == Fetch \subseteq Req
ASSUME BudgetsAreCounted ==
    /\ ScanRestarts \in Nat /\ PageRereads \in Nat /\ MaxPages \in Nat
    /\ PageSize \in Nat \ {0} /\ MaxRows \in Nat
    /\ Sizes \subseteq 0..MaxRows

VARIABLES fetch,    \* the fetches: how far each has come, and with which budgets left
          server    \* what NinjaOne holds for each: the feed, the scan, the page to read

vars == <<req, paused, fetch, server>>

NoCursor == 0
\* A cursor object without a usable name.
OddCursor == MaxPages + 1
Unknown == MaxRows + 1
Style == {"envelope", "array"}
EmptyBody == [shape |-> "empty", rows |-> <<>>, cursor |-> NoCursor]

\* CursorScan::default().
FreshScan(f) == [f EXCEPT !.cursor = NoCursor, !.seen = {}, !.announced = Unknown,
                          !.rereading = FALSE, !.reread = FALSE]

\* What is left of a fetch that has returned: nothing, or its rows.
Failed == [pc |-> "error", style |-> "envelope", rows |-> <<>>, after |-> 0, pages |-> 0,
           restarts |-> 0, rereads |-> 0, cursor |-> NoCursor, seen |-> {},
           announced |-> Unknown, rereading |-> FALSE, reread |-> FALSE]
Returned(fs) == [Failed EXCEPT !.pc = "ok", !.rows = fs.rows]

\* A server that knows of no scan.
NoScan(s) == [s EXCEPT !.pos = 0, !.count = Unknown, !.cursor = 0, !.body = EmptyBody, !.lied = FALSE]

Init ==
    /\ RequestsInit
    /\ fetch = [f \in Fetch |-> Failed]
    /\ server \in [Fetch ->
         [size : Sizes, counts : BOOLEAN, pos : {0}, count : {Unknown}, cursor : {0},
          body : {EmptyBody}, lied : {FALSE}]]

-----------------------------------------------------------------------------
(* The server.                                                             *)

Rows(from, to) == [i \in 1..(to - from) |-> from + i]
Least(a, b) == IF a < b THEN a ELSE b

\* The page at the position of the scan, which a request without a cursor opens:
\* s is the server after it, its page in body under a new cursor. The feed's size
\* rides along as count, where the endpoint announces one.
TurnedPage(f) ==
    LET opens == fetch[f].cursor = NoCursor
        s     == server[f]
        from  == IF opens THEN 0 ELSE Least(s.pos, s.size)
        to    == Least(from + PageSize, s.size)
        next  == IF opens THEN 1 ELSE Least(s.cursor + 1, MaxPages)
    IN  [s EXCEPT !.pos = to, !.cursor = next,
                  !.count = IF opens THEN IF s.counts THEN s.size ELSE Unknown ELSE s.count,
                  !.lied = ~opens /\ s.lied,
                  !.body = [shape |-> "envelope", rows |-> Rows(from, to), cursor |-> next]]

\* How the server may answer: the page; at the end without a cursor, or without a
\* body. Or wrongly: a part for the whole; no rows before the end, which the count
\* gives away; the rows of the page before, under a new cursor; a cursor it gave
\* before; one of no known shape.
EnvelopeAnswers(f) ==
    LET s     == TurnedPage(f)
        whole == s.pos = s.size
        from  == s.pos - Len(s.body.rows)
    IN  {s,
         [s EXCEPT !.body.cursor = NoCursor, !.lied = @ \/ ~whole],
         [s EXCEPT !.body = EmptyBody, !.lied = @ \/ ~whole \/ s.body.rows # <<>>],
         [s EXCEPT !.body.rows = <<>>, !.pos = from,
                   !.lied = @ \/ (s.body.rows # <<>> /\ s.count = Unknown)],
         [s EXCEPT !.body.rows = Rows(from - Least(from, PageSize), from), !.pos = from,
                   !.lied = TRUE],
         [s EXCEPT !.body.cursor = OddCursor]}
        \union {[s EXCEPT !.body.cursor = c] : c \in fetch[f].seen}

\* The list endpoints: the rows after the one asked for, which some include again.
ArrayAnswers(f) ==
    LET s == [server[f] EXCEPT !.lied = FALSE]
        Page(from) == [shape |-> "array", rows |-> Rows(from, Least(from + PageSize, s.size)),
                       cursor |-> NoCursor]
        after == Least(fetch[f].after, s.size)
    IN  {[s EXCEPT !.body = Page(after)],
         [s EXCEPT !.body = Page(IF after = 0 THEN 0 ELSE after - 1)]}

Answers(f) == IF fetch[f].style = "array" THEN ArrayAnswers(f) ELSE EnvelopeAnswers(f)

\* A request of a fetch is answered: handled, it moves the scan, whether or not the
\* answer arrives.
PageAnswered(f) ==
    /\ \E out \in Outcome : \E handled \in Handled(out) :
         /\ Answered(f, out, handled)
         /\ IF handled = 1 THEN \E s \in Answers(f) : server' = [server EXCEPT ![f] = s]
                           ELSE UNCHANGED server
    /\ UNCHANGED fetch

-----------------------------------------------------------------------------
(* The fetch.                                                              *)

Begins(f) ==
    /\ fetch[f].pc \in {"ok", "error"}
    /\ \E style \in Style :
         fetch' = [fetch EXCEPT ![f] =
           [Failed EXCEPT !.pc = "loop", !.style = style]]
    /\ UNCHANGED <<req, paused, server>>

\* The next request goes out, at most MAX_PAGES of them. Only one that carries a
\* cursor moves the scan.
Asks(f) ==
    /\ fetch[f].pc = "loop" /\ fetch[f].pages < MaxPages
    /\ Calls(f, IF fetch[f].cursor # NoCursor THEN "CursorPage" ELSE "Idempotent")
    /\ fetch' = [fetch EXCEPT ![f].pc = "asking", ![f].pages = @ + 1]
    /\ UNCHANGED server

PagesForEver(f) ==
    /\ fetch[f].pc = "loop" /\ fetch[f].pages = MaxPages
    /\ fetch' = [fetch EXCEPT ![f] = Failed]
    /\ UNCHANGED <<req, paused, server>>

\* restart_scan, or the error once the restarts are spent.
Restart(fs) ==
    IF fs.restarts < ScanRestarts
    THEN FreshScan([fs EXCEPT !.pc = "loop", !.restarts = @ + 1, !.rows = <<>>])
    ELSE Failed

\* The request failed: read the page again where the count will tell, start over
\* where the scan may have moved, or give up.
OnError(fs, result) ==
    IF ~fs.rereading /\ fs.rereads < PageRereads /\ fs.announced # Unknown /\ result = "lost"
    THEN [fs EXCEPT !.pc = "loop", !.rereads = @ + 1, !.rereading = TRUE, !.reread = TRUE]
    ELSE IF fs.rereading \/ result \in {"lost", "lostServed"}
    THEN Restart(fs)
    ELSE Failed

\* Mutant of OnEnd: a page read again is taken for the page that was lost.
OnEndTrusting(fs) == Returned(fs)

\* A scan ends. One that read a page again must end at its count.
OnEnd(fs) ==
    IF fs.reread /\ fs.announced # Unknown /\ Len(fs.rows) # fs.announced
    THEN Restart(fs)
    ELSE Returned(fs)

\* A row of a list page: one seen before is skipped, a new one may take `after` on.
Taken(fs, r) ==
    IF \E i \in 1..Len(fs.rows) : fs.rows[i] = r
    THEN fs
    ELSE [fs EXCEPT !.rows = Append(@, r), !.after = IF r > @ THEN r ELSE @]

\* A page of a list endpoint, row by row: a short page is the last, and a full one
\* must take `after` further.
OnArray(fs, body) ==
    LET read[i \in 0..Len(body.rows)] ==
            IF i = 0 THEN fs ELSE Taken(read[i - 1], body.rows[i])
        grown == read[Len(body.rows)]
    IN  IF Len(body.rows) < PageSize THEN OnEnd(grown)
        ELSE IF grown.after = fs.after THEN Failed
        ELSE [grown EXCEPT !.pc = "loop"]

\* A page of a reporting endpoint. No rows is the end, unless the count says that
\* there are more; a cursor must be a new one; none is the end.
OnEnvelope(fs, body, count) ==
    LET grown == [fs EXCEPT !.rows = @ \o body.rows,
                            !.announced = IF @ = Unknown /\ body.cursor # NoCursor
                                          THEN count ELSE @,
                            !.rereading = FALSE]
    IN  IF body.rows = <<>>
        THEN IF grown.announced # Unknown /\ Len(grown.rows) < grown.announced
             THEN Restart(grown)
             ELSE OnEnd(grown)
        ELSE IF body.cursor = NoCursor THEN OnEnd(grown)
        ELSE IF body.cursor \in fs.seen \union {fs.cursor, OddCursor}
        THEN Failed
        ELSE [grown EXCEPT !.pc = "loop", !.cursor = body.cursor,
                           !.seen = @ \union {body.cursor}]

OnPage(fs, s) == CASE s.body.shape = "array"    -> OnArray(fs, s.body)
                   [] s.body.shape = "envelope" -> OnEnvelope(fs, s.body, s.count)
                   [] OTHER                     -> OnEnd(fs)

\* The page is read, and a scan whose cursor nobody holds any more is over.
Receives(f) ==
    /\ fetch[f].pc = "asking" /\ req[f].pc = "done"
    /\ fetch' = [fetch EXCEPT ![f] = IF req[f].result = "ok"
                                     THEN OnPage(@, server[f])
                                     ELSE OnError(@, req[f].result)]
    /\ req' = [req EXCEPT ![f] = NoCall]
    /\ server' = [server EXCEPT ![f] = IF fetch'[f].cursor # NoCursor \/ fetch'[f].pc = "ok"
                                       \/ fetch'[f].after # 0
                                       THEN [@ EXCEPT !.body = EmptyBody]
                                       ELSE NoScan(@)]
    /\ UNCHANGED paused

-----------------------------------------------------------------------------
(* The other calls of the client.                                          *)

ActsOn(q) ==
    /\ req[q].pc = "idle"
    /\ Calls(q, "ActOnce")
    /\ UNCHANGED <<fetch, server>>

ActionAnswered(q) ==
    /\ \E out \in Outcome : \E handled \in Handled(out) : Answered(q, out, handled)
    /\ UNCHANGED <<fetch, server>>

Runs(q)  == Proceeds(q) /\ UNCHANGED <<fetch, server>>
Passes   == Tick /\ UNCHANGED <<fetch, server>>
Switches == (TenantMoves \/ SessionEnds) /\ UNCHANGED <<fetch, server>>

FetchStep(f) == Asks(f) \/ PagesForEver(f) \/ Receives(f) \/ PageAnswered(f)

Next ==
    \/ \E f \in Fetch : Begins(f) \/ FetchStep(f)
    \/ \E q \in Req \ Fetch : ActsOn(q) \/ ActionAnswered(q)
    \/ \E q \in Req : Runs(q)
    \/ Passes
    \/ Switches

\* Time passes, and every await ends: reqwest has timeouts, a backoff and a pause
\* are capped. A call that sleeps is woken when the pause is over, before the answer
\* to a call sent since can prolong it.
Fairness ==
    /\ \A f \in Fetch : WF_vars(FetchStep(f))
    /\ \A q \in Req : SF_vars(Runs(q))
    /\ \A q \in Req \ Fetch : WF_vars(ActionAnswered(q))
    /\ WF_vars(Passes)

Spec == Init /\ [][Next]_vars /\ Fairness

-----------------------------------------------------------------------------
(* Properties.                                                             *)

\* What a fetch returns is the whole feed: every row once and in order, whatever
\* pages were lost, asked for again or answered with the next one, as long as the
\* server ends the scan where the feed ends. Anything else must be an error: a short
\* feed looks like a small fleet (paging.rs:245, 466).
ReturnsTheWholeFeed ==
    \A f \in Fetch :
        fetch[f].pc = "ok" /\ ~server[f].lied
            => fetch[f].rows = Rows(0, server[f].size)

\* A fetch ends, under any mix of refusals, lost pages, rate limits drawn by itself
\* or by the other calls, and pages that go on for ever; and so does every call.
FetchesEnd == \A f \in Fetch : fetch[f].pc = "loop" ~> fetch[f].pc \in {"ok", "error"}
=============================================================================
