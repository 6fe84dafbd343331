------------------------------ MODULE JobBoard ------------------------------
(***************************************************************************)
(* The Jobs tab: the rows it shows of the jobs the backend holds, and the  *)
(* dispatches it announces once they settle (web-rs/src/app/util/jobs.rs,  *)
(* state/actions.rs, app.rs; src-tauri/src/state/jobs.rs,                  *)
(* commands/actions/dispatch.rs, poller.rs).                               *)
(*                                                                         *)
(* Rows reach the tab four ways: the action:progress events, in the order  *)
(* they were emitted; the reply of run_action; the replies of list_jobs    *)
(* and of clear_jobs.  A reply is computed at one moment and lands at      *)
(* another, with events landing in between.                                *)
(*                                                                         *)
(* A job's row is its state: running until it is settled; "none" is no     *)
(* row, and the order of the rows is left out.  What a tick                *)
(* finds, and who may dispatch, are ActionJobs' and Approval's; the store  *)
(* is not trimmed here, and no one leaves the tab's session but by ending  *)
(* it.                                                                     *)
(***************************************************************************)
EXTENDS Integers, Sequences, FiniteSets, Functions

CONSTANTS
    BoardJobs,     \* the jobs, and the dispatch each belongs to
    BatchOf,
    MaxBoardAsks,  \* bound: list_jobs and clear_jobs calls, and ends of the session
    MaxToasts      \* bound: error toasts of other parts

ASSUME BoardAssumption ==
    /\ IsFiniteSet(BoardJobs) /\ BatchOf \in [BoardJobs -> Nat]
    /\ MaxBoardAsks \in Nat /\ MaxToasts \in Nat

VARIABLES
    store,       \* the backend: per job its row's state, "none" when it has none
    ended,       \* the backend has ended the session, and the frontend is yet to hear
    sends,       \* per dispatch where run_action is, and per job how its send ended
    sent,
    ticking,     \* jobs a tick has settled in the store and not emitted yet
    events,      \* emitted and not delivered
    board,       \* the frontend's list
    watched,     \* dispatches to announce
    told,        \* per dispatch, how often it was announced
    toast,       \* an error is on screen; and a timer waits for its end
    asks,        \* list_jobs and clear_jobs calls in flight
    crossed,     \* jobs whose rows crossed: an older row landed after a newer one
    hasty,       \* dispatches that settled before their own reply landed
    boardAsks, toasts

boardVars == <<store, ended, sends, sent, ticking, events, board, watched, told, toast,
               asks, crossed, hasty, boardAsks, toasts>>

Batches == {BatchOf[j] : j \in BoardJobs}
JobsOf(b) == {j \in BoardJobs : BatchOf[j] = b}
NoJobs == [j \in BoardJobs |-> "none"]
Calm == [error |-> FALSE, timer |-> FALSE]

JobBoardInit ==
    /\ store = NoJobs /\ ended = FALSE
    /\ sends = [b \in Batches |-> "none"] /\ sent = NoJobs
    /\ ticking = {} /\ events = <<>>
    /\ board = NoJobs /\ watched = {} /\ told = [b \in Batches |-> 0]
    /\ toast = Calm /\ asks = {} /\ crossed = {} /\ hasty = {}
    /\ boardAsks = 0 /\ toasts = 0

-----------------------------------------------------------------------------
(* The list *)

InFlightOf(rows, b) == \E j \in JobsOf(b) : rows[j] = "running"
Listed(rows, b) == \E j \in JobsOf(b) : rows[j] # "none"

\* Mutant of Merged: a settled row is replaced by whatever comes.
MergedOver(rows, incoming) ==
    [j \in BoardJobs |-> IF j \in DOMAIN incoming THEN incoming[j] ELSE rows[j]]

\* merge_jobs: by id, and a settled row is never rolled back.
Merged(rows, incoming) ==
    [j \in BoardJobs |-> IF j \in DOMAIN incoming /\ (rows[j] # "done" \/ incoming[j] = "done")
                         THEN incoming[j] ELSE rows[j]]

\* Mutant of Finished: a dispatch is announced when any of its jobs settles.
FinishedAny(rows) == {b \in watched : \E j \in JobsOf(b) : rows[j] # "running"}

\* take_finished_batches: none of the jobs still listed is in flight.
Finished(rows) == {b \in watched : ~InFlightOf(rows, b)}

\* announce_settled_batches: an error on screen is not replaced, it is tried again.
Announces(rows) ==
    IF toast.error
    THEN toast' = [toast EXCEPT !.timer = TRUE] /\ UNCHANGED <<watched, told>>
    ELSE /\ watched' = watched \ Finished(rows)
         /\ told' = [b \in Batches |-> told[b] + IF b \in Finished(rows) /\ Listed(rows, b)
                                                    THEN 1 ELSE 0]
         /\ UNCHANGED toast

-----------------------------------------------------------------------------
(* A dispatch *)

Emits(rows) == events' = Append(events, rows)
Dispatching == \E b \in Batches : sends[b] \in {"sending", "returned", "refused"}

\* confirm_plan, from a dialog that covers the tab until the reply lands.
Confirms ==
    /\ ~Dispatching
    /\ \E b \in Batches :
         /\ sends[b] = "none" /\ \A o \in Batches : o < b => sends[o] # "none"
         /\ sends' = [sends EXCEPT ![b] = "sending"]
    /\ UNCHANGED <<store, ended, sent, ticking, events, board, watched, told, toast, asks,
                   crossed, hasty, boardAsks, toasts>>

\* dispatch_one and device_progress: a send ends, and is shown while its session lasts.
SendsJob ==
    /\ ~ended
    /\ \E j \in BoardJobs, state \in {"running", "done"} :
         /\ sends[BatchOf[j]] = "sending" /\ sent[j] = "none"
         /\ sent' = [sent EXCEPT ![j] = state]
         /\ Emits([k \in {j} |-> state])
    /\ UNCHANGED <<store, ended, sends, ticking, board, watched, told, toast, asks, crossed,
                   hasty, boardAsks, toasts>>

\* append_jobs, then the reply; a dispatch whose session ended is not recorded.
Returns ==
    /\ \E b \in Batches :
         /\ sends[b] = "sending"
         /\ ended \/ \A j \in JobsOf(b) : sent[j] # "none"
         /\ sends' = [sends EXCEPT ![b] = IF ended THEN "refused" ELSE "returned"]
         /\ store' = IF ended THEN store
                     ELSE [j \in BoardJobs |-> IF j \in JobsOf(b) THEN sent[j] ELSE store[j]]
    /\ UNCHANGED <<ended, sent, ticking, events, board, watched, told, toast, asks, crossed,
                   hasty, boardAsks, toasts>>

AskList == [clear |-> FALSE, answered |-> FALSE, late |-> FALSE, rows |-> NoJobs]

\* The reply: its rows are merged, and a dispatch with a job in flight is watched.  One
\* that cannot be read asks for the list; a refused one says so.
ReplyLands ==
    /\ \E b \in Batches :
         /\ sends[b] \in {"returned", "refused"}
         /\ sends' = [sends EXCEPT ![b] = "back"]
         /\ LET rows == Restrict(sent, JobsOf(b))
                live == InFlightOf(sent, b)
                next == Merged(board, rows)
            IN  \/ /\ sends[b] = "returned"
                   /\ board' = next
                   /\ watched' = IF live THEN watched \union {b} ELSE watched
                   /\ hasty' = IF live /\ ~InFlightOf(next, b) THEN hasty \union {b} ELSE hasty
                   /\ crossed' = crossed \union {j \in JobsOf(b) : store[j] = "none"}
                   /\ UNCHANGED <<asks, toast>>
                \/ /\ sends[b] = "returned"
                   /\ asks' = asks \union {AskList} /\ toast' = [toast EXCEPT !.error = TRUE]
                   /\ UNCHANGED <<board, watched, hasty, crossed>>
                \/ /\ sends[b] = "refused"
                   /\ toast' = [toast EXCEPT !.error = TRUE]
                   /\ UNCHANGED <<asks, board, watched, hasty, crossed>>
    /\ UNCHANGED <<store, ended, sent, ticking, events, told, boardAsks, toasts>>

-----------------------------------------------------------------------------
(* The poller, and the events *)

\* settle_tick: the rows go to the store, and after the audit's write to the tab.
TickSettles ==
    /\ ticking = {}
    /\ \E js \in (SUBSET {j \in BoardJobs : store[j] = "running"}) \ {{}} :
         /\ ticking' = js
         /\ store' = [j \in BoardJobs |-> IF j \in js THEN "done" ELSE store[j]]
    /\ UNCHANGED <<ended, sends, sent, events, board, watched, told, toast, asks, crossed,
                   hasty, boardAsks, toasts>>

TickEmits ==
    /\ ticking # {}
    /\ Emits([j \in ticking |-> "done"])
    /\ ticking' = {}
    /\ UNCHANGED <<store, ended, sends, sent, board, watched, told, toast, asks, crossed,
                   hasty, boardAsks, toasts>>

\* on_action_progress.  The row of a job cleared meanwhile comes back.
EventLands ==
    /\ events # <<>>
    /\ events' = Tail(events)
    /\ board' = Merged(board, Head(events))
    /\ Announces(board')
    /\ crossed' = crossed \union {j \in DOMAIN Head(events) : store[j] = "none"
                                                            /\ sends[BatchOf[j]] # "sending"}
    /\ UNCHANGED <<store, ended, sends, sent, ticking, asks, hasty, boardAsks, toasts>>

-----------------------------------------------------------------------------
(* list_jobs and clear_jobs *)

\* refresh_jobs when actions become available; Clear finished, from the tab.
AsksForList ==
    /\ boardAsks < MaxBoardAsks /\ ~Dispatching
    /\ \E clear \in BOOLEAN : asks' = asks \union {[AskList EXCEPT !.clear = clear]}
    /\ asks' # asks
    /\ boardAsks' = boardAsks + 1
    /\ UNCHANGED <<store, ended, sends, sent, ticking, events, board, watched, told, toast,
                   crossed, hasty, toasts>>

\* clear_job_history drops the settled rows, and answers with what is left.
AnswersList ==
    /\ \E a \in asks :
         LET left == IF a.clear THEN [j \in BoardJobs |-> IF store[j] = "done" THEN "none"
                                                         ELSE store[j]]
                     ELSE store
         IN  /\ ~a.answered
             /\ store' = left
             /\ asks' = (asks \ {a}) \union {[a EXCEPT !.answered = TRUE, !.rows = left]}
    /\ UNCHANGED <<ended, sends, sent, ticking, events, board, watched, told, toast, crossed,
                   hasty, boardAsks, toasts>>

\* The jobs a reply knows less of than the store does by now.
Overtaken(rows) == {j \in BoardJobs : rows[j] # store[j]}

\* Mutant of ListLands: a list asked for in a session that has ended is shown.
ListLandsLate ==
    /\ \E a \in asks :
         /\ a.answered
         /\ asks' = asks \ {a}
         /\ board' = a.rows
         /\ crossed' = IF a.late /\ ~a.clear THEN crossed ELSE crossed \union Overtaken(a.rows)
         /\ IF a.clear THEN UNCHANGED <<watched, told, toast>> ELSE Announces(board')
    /\ UNCHANGED <<store, ended, sends, sent, ticking, events, hasty, boardAsks, toasts>>

\* The list replaces the tab's.  refresh_jobs drops what was asked for in a session
\* that has ended, and announces; clear_job_history does neither.
ListLands ==
    /\ \E a \in asks :
         /\ a.answered
         /\ asks' = asks \ {a}
         /\ IF a.late /\ ~a.clear THEN UNCHANGED <<board, crossed, watched, told, toast>>
            ELSE /\ board' = a.rows
                 /\ crossed' = crossed \union Overtaken(a.rows)
                 /\ IF a.clear THEN UNCHANGED <<watched, told, toast>> ELSE Announces(board')
    /\ UNCHANGED <<store, ended, sends, sent, ticking, events, hasty, boardAsks, toasts>>

-----------------------------------------------------------------------------
(* Toasts, and the end of the session *)

\* Of no consequence unless a dispatch waits to be announced.
ErrorShows ==
    /\ toasts < MaxToasts /\ watched # {} /\ ~toast.error
    /\ toasts' = toasts + 1 /\ toast' = [toast EXCEPT !.error = TRUE]
    /\ UNCHANGED <<store, ended, sends, sent, ticking, events, board, watched, told, asks,
                   crossed, hasty, boardAsks>>

ErrorGoes ==
    /\ toast.error
    /\ toast' = [toast EXCEPT !.error = FALSE]
    /\ UNCHANGED <<store, ended, sends, sent, ticking, events, board, watched, told, asks,
                   crossed, hasty, boardAsks, toasts>>

\* The timer of announce_settled_batches.
TimerFires ==
    /\ toast.timer
    /\ IF toast.error THEN UNCHANGED <<watched, told, toast>>
       ELSE /\ watched' = watched \ Finished(board)
            /\ told' = [b \in Batches |->
                           told[b] + IF b \in Finished(board) /\ Listed(board, b) THEN 1 ELSE 0]
            /\ toast' = Calm
    /\ UNCHANGED <<store, ended, sends, sent, ticking, events, board, asks, crossed, hasty,
                   boardAsks, toasts>>

EndsSession ==
    /\ ~ended /\ boardAsks < MaxBoardAsks
    /\ boardAsks' = boardAsks + 1
    /\ ended' = TRUE /\ store' = NoJobs
    /\ UNCHANGED <<sends, sent, ticking, events, board, watched, told, toast, asks, crossed,
                   hasty, toasts>>

\* clear_session
ClearsBoard ==
    /\ ended /\ ~\E b \in Batches : sends[b] = "sending"
    /\ ended' = FALSE
    /\ board' = NoJobs /\ watched' = {}
    /\ asks' = {[a EXCEPT !.late = TRUE] : a \in asks}
    /\ UNCHANGED <<store, sends, sent, ticking, events, told, toast, crossed, hasty,
                   boardAsks, toasts>>

JobBoardNext ==
    \/ Confirms \/ SendsJob \/ Returns \/ ReplyLands
    \/ TickSettles \/ TickEmits \/ EventLands
    \/ AsksForList \/ AnswersList \/ ListLands
    \/ ErrorShows \/ ErrorGoes \/ TimerFires \/ EndsSession \/ ClearsBoard

JobBoardSpec == JobBoardInit /\ [][JobBoardNext]_boardVars

-----------------------------------------------------------------------------
(* Properties *)

Quiet == /\ ~ended /\ ~Dispatching /\ ticking = {} /\ events = <<>> /\ asks = {}
         /\ toast = Calm

(* Once every event and reply has landed, the tab lists each job of the    *)
(* backend as the backend holds it, and no other: a settled job            *)
(* is never left "Running", whatever order the rows came in.  Excepted are *)
(* the jobs whose list crossed their event, which the tab cannot tell.     *)
BoardCatchesUp == Quiet => \A j \in BoardJobs \ crossed : board[j] = store[j]

(* A dispatch is announced once at most, and not before its jobs have      *)
(* settled; and none waits for its announcement when nothing is left to    *)
(* come, unless its jobs settled before the dispatch's own reply landed,   *)
(* or their rows crossed.                                                  *)
ToldOnceSettled ==
    /\ \A b \in Batches : told[b] <= 1
    /\ \A b \in Batches : told[b] = 1 => \A j \in JobsOf(b) \ crossed : store[j] # "running"
    /\ Quiet => \A b \in watched \ hasty : InFlightOf(board, b) \/ JobsOf(b) \intersect crossed # {}
=============================================================================
