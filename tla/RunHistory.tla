----------------------------- MODULE RunHistory -----------------------------
(***************************************************************************)
(* The run history (src-tauri/src/history.rs): one line per completed      *)
(* query, appended by whichever task ran it, and trimmed from the front.   *)
(*                                                                         *)
(* A record is its number; Torn is a line that cannot be read, as a write  *)
(* cut short leaves it, or the append that then runs on from it.           *)
(***************************************************************************)
EXTENDS Naturals, Sequences

CONSTANTS Writer,       \* the tasks that record a query
          MaxLines,     \* MAX_LINES
          TrimSlack,    \* TRIM_SLACK
          MaxRecords    \* bound: the records

ASSUME HistoryAssumption ==
    /\ MaxLines \in Nat \ {0} /\ TrimSlack \in Nat /\ MaxRecords \in Nat
    /\ "none" \notin Writer

VARIABLES lines,     \* the file
          cut,       \* does it end within a line?
          writer,    \* where each task is, and the lines it has read
          holder,    \* HISTORY_LOCK
          intact     \* the records appended whole, in order

historyVars == <<lines, cut, writer, holder, intact>>

Torn == 0
NoWriter == [pc |-> "idle", keep |-> <<>>]
MaxLength == MaxLines + TrimSlack + 2

HistoryTypeOK ==
    /\ lines \in Seq(0..MaxRecords) /\ Len(lines) <= MaxLength
    /\ cut \in BOOLEAN
    /\ writer \in [Writer -> [pc : {"idle", "trimming", "renaming"}, keep : Seq(0..MaxRecords)]]
    /\ holder \in Writer \union {"none"}
    /\ intact \in Seq(1..MaxRecords)

HistoryInit ==
    /\ lines = <<>> /\ cut = FALSE
    /\ writer = [w \in Writer |-> NoWriter]
    /\ holder = "none"
    /\ intact = <<>>

\* The newest n of s.
Newest(s, n) == IF Len(s) > n THEN SubSeq(s, Len(s) - n + 1, Len(s)) ELSE s

\* The records that parse: what read_all returns.
Readable ==
    LET upTo[i \in 0..Len(lines)] ==
            IF i = 0 THEN <<>>
            ELSE IF lines[i] = Torn THEN upTo[i - 1]
            ELSE Append(upTo[i - 1], lines[i])
    IN  upTo[Len(lines)]

Release(w) == holder' = "none" /\ writer' = [writer EXCEPT ![w] = NoWriter]

\* Mutant of Appends: it does not wait for the lock.
AppendsUnlocked(w) ==
    /\ writer[w].pc = "idle" /\ Len(intact) < MaxRecords
    /\ lines' = Append(lines, Len(intact) + 1)
    /\ intact' = Append(intact, Len(intact) + 1)
    /\ cut' = FALSE
    /\ holder' = w
    /\ writer' = [writer EXCEPT ![w].pc = "trimming"]

\* append: one write, of the record and its newline. It runs on from a line that was
\* cut short, and then neither can be read. It can be cut short itself, by a full disk
\* or the end of the app, or not happen.
Appends(w) ==
    /\ writer[w].pc = "idle" /\ holder = "none" /\ Len(intact) < MaxRecords
    /\ LET record == Len(intact) + 1
       IN  \/ /\ lines' = IF cut THEN lines ELSE Append(lines, record)
              /\ intact' = IF cut THEN intact ELSE Append(intact, record)
              /\ cut' = FALSE
              /\ holder' = w
              /\ writer' = [writer EXCEPT ![w].pc = "trimming"]
           \/ /\ lines' = IF cut THEN lines ELSE Append(lines, Torn)
              /\ cut' = TRUE
              /\ UNCHANGED <<holder, writer, intact>>

\* trim: the file is read, and left alone until it is TRIM_SLACK lines too long.
Trims(w) ==
    /\ writer[w].pc = "trimming"
    /\ IF Len(lines) <= MaxLines + TrimSlack
       THEN Release(w)
       ELSE /\ writer' = [writer EXCEPT ![w] = [pc |-> "renaming", keep |-> Newest(lines, MaxLines)]]
            /\ UNCHANGED holder
    /\ UNCHANGED <<lines, cut, intact>>

\* The newest lines have been written beside the file and are renamed over it; or
\* that has failed, and the file is what it was.
Renames(w) ==
    /\ writer[w].pc = "renaming"
    /\ \/ lines' = writer[w].keep /\ cut' = FALSE
       \/ UNCHANGED <<lines, cut>>
    /\ Release(w)
    /\ UNCHANGED intact

\* The app ends anywhere and starts again.
HistoryRestarts ==
    /\ writer' = [w \in Writer |-> NoWriter]
    /\ holder' = "none"
    /\ UNCHANGED <<lines, cut, intact>>

\* Bound: a trim that always fails lets the file grow.
Bounded == Len(lines) < MaxLength

HistoryNext ==
    \/ \E w \in Writer : Appends(w) /\ Bounded
    \/ \E w \in Writer : Trims(w) \/ Renames(w)
    \/ HistoryRestarts

HistorySpec == HistoryInit /\ [][HistoryNext]_historyVars

-----------------------------------------------------------------------------

\* What can be read are the newest of the records that were appended whole, in their
\* order: all of them, or as many as MAX_LINES lines hold beside those that were torn.
\* Neither overlapping queries nor an app that ends in the middle lose one.
KeepsTheNewest ==
    /\ Readable = Newest(intact, Len(Readable))
    /\ Len(Readable) < Len(intact) => Len(lines) >= MaxLines
=============================================================================
