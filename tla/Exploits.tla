------------------------------ MODULE Exploits ------------------------------
(***************************************************************************)
(* The local copy of the public exploit data: Microsoft's release months   *)
(* and CISA's catalog, one file each, and the index in memory that queries *)
(* are matched against (src-tauri/src/exploits/store.rs).                  *)
(*                                                                         *)
(* Every query asks for a refresh and waits for none. A copy is the        *)
(* release date it was fetched under and its age, in units of              *)
(* RETRY_AFTER_FAILURE. The two feeds are the environment.                 *)
(***************************************************************************)
EXTENDS Naturals

CONSTANTS Asker,        \* queries that ask together
          LastMonth,    \* bound: the months Microsoft releases
          Months,       \* MONTHS
          MaxDate,      \* bound: the revisions of a document
          Revised,      \* bound: the documents that are revised
          RetryAfter,   \* RETRY_AFTER_FAILURE
          CheckEvery,   \* CHECK_INTERVAL
          NewestAge,    \* NEWEST_MONTH_MAX_AGE_SECS
          OlderAge      \* OLDER_MONTH_MAX_AGE_SECS

ASSUME ExploitAssumption ==
    /\ LastMonth \in Nat \ {0} /\ Months \in Nat \ {0} /\ MaxDate \in Nat \ {0}
    /\ RetryAfter \in Nat \ {0} /\ CheckEvery \in Nat /\ NewestAge \in Nat /\ OlderAge \in Nat
    /\ Revised \subseteq 0..LastMonth
    /\ RetryAfter <= CheckEvery /\ CheckEvery <= OlderAge /\ NewestAge <= OlderAge

VARIABLES inner,       \* Inner
          refreshing, asking, task,
          disk,        \* the files
          released, dates,     \* the feeds: the newest month, each document's date
          rest         \* history: the time until another download is called for

exploitVars == <<inner, refreshing, asking, task, disk, released, dates, rest>>

\* A document: the catalog, or a month by its number.
Kev == 0
Doc == 0..LastMonth
Window(newest) == {m \in 1..newest : m + Months > newest}

NoDate == 0
None == [date |-> NoDate, age |-> 0]
Nothing == [d \in Doc |-> NoDate]
FirstRun == [index |-> Nothing, loaded |-> FALSE, checked |-> CheckEvery,
             attempt |-> RetryAfter, failed |-> FALSE]
NoTask == [pc |-> "idle", window |-> {}, dates |-> Nothing, todo |-> {}, errors |-> FALSE]

ExploitTypeOK ==
    /\ inner \in [index : [Doc -> 0..MaxDate], loaded : BOOLEAN, checked : 0..CheckEvery,
                  attempt : 0..RetryAfter, failed : BOOLEAN]
    /\ refreshing \in BOOLEAN /\ asking \subseteq Asker
    /\ task \in [pc : {"idle", "load", "check", "list", "fetch", "end"}, window : SUBSET Doc,
                 dates : [Doc -> 0..MaxDate], todo : SUBSET Doc, errors : BOOLEAN]
    /\ disk \in [Doc -> [date : 0..MaxDate, age : 0..OlderAge]]
    /\ released \in 1..LastMonth /\ dates \in [Doc -> 1..MaxDate]
    /\ rest \in 0..CheckEvery
    /\ refreshing <=> task.pc # "idle"

ExploitInit ==
    /\ inner = FirstRun
    /\ refreshing = FALSE /\ asking = {} /\ task = NoTask
    /\ disk = [d \in Doc |-> None]
    /\ released = 1 /\ dates = [d \in Doc |-> 1]
    /\ rest = 0

\* Inner::due: nothing is loaded, or the last check is old, and the last failure is too.
Due == \/ ~inner.loaded
       \/ inner.checked >= CheckEvery /\ ~(inner.failed /\ inner.attempt < RetryAfter)

-----------------------------------------------------------------------------
(* ensure_fresh, of a query: it finds the data due, and starts the one     *)
(* refresh, unless there is one.                                           *)

FindsDue(q) ==
    /\ q \notin asking /\ Due
    /\ asking' = asking \union {q}
    /\ UNCHANGED <<inner, refreshing, task, disk, released, dates, rest>>

StartsOne(q) ==
    /\ q \in asking
    /\ asking' = asking \ {q}
    /\ refreshing' = TRUE
    /\ task' = IF refreshing THEN task ELSE [NoTask EXCEPT !.pc = "load"]
    /\ UNCHANGED <<inner, disk, released, dates, rest>>

-----------------------------------------------------------------------------
(* run, and refresh.                                                       *)

\* Mutant of Ended: the flag stays up, as after an early return that resets it by hand.
EndedHolding == task' = NoTask /\ UNCHANGED refreshing

\* However the task ends, the flag is dropped with it (InFlight).
Ended == task' = NoTask /\ refreshing' = FALSE

\* Once per process the files are read. The time of the last check is the catalog's.
LoadsDisk ==
    /\ task.pc = "load"
    /\ inner' = IF inner.loaded THEN inner
                ELSE [inner EXCEPT !.loaded = TRUE, !.index = [d \in Doc |-> disk[d].date],
                        !.checked = IF disk[Kev] = None \/ disk[Kev].age > CheckEvery
                                    THEN CheckEvery ELSE disk[Kev].age]
    /\ task' = [task EXCEPT !.pc = "check"]
    /\ UNCHANGED <<refreshing, asking, disk, released, dates, rest>>

\* Mutant of ChecksAgain: what the query found due is taken to be due.
ChecksNever ==
    /\ task.pc = "check"
    /\ task' = [task EXCEPT !.pc = "list"]
    /\ UNCHANGED <<inner, refreshing, asking, disk, released, dates, rest>>

\* What the query found due may have been refreshed, or read from disk, since.
ChecksAgain ==
    /\ task.pc = "check"
    /\ \/ Due /\ task' = [task EXCEPT !.pc = "list"] /\ UNCHANGED refreshing
       \/ ~Due /\ Ended
    /\ UNCHANGED <<inner, asking, disk, released, dates, rest>>

\* The refresh has failed, or part of it has.
Fails(i) == [i EXCEPT !.attempt = 0, !.failed = TRUE]

\* Microsoft's list: the window of months and their dates, or an error that ends all.
Lists ==
    /\ task.pc = "list"
    /\ \/ /\ task' = [task EXCEPT !.pc = "fetch", !.dates = dates,
                        !.window = Window(released) \union {Kev},
                        !.todo = {m \in Window(released) : ~
                             (/\ disk[m] # None
                              /\ \/ disk[m].date = dates[m]
                                 \/ disk[m].age < (IF m = released THEN NewestAge ELSE OlderAge))}
                          \union {Kev}]
          /\ UNCHANGED <<inner, refreshing, rest>>
       \/ inner' = Fails(inner) /\ rest' = RetryAfter /\ Ended
    /\ UNCHANGED <<asking, disk, released, dates>>

\* The newest month that is to be fetched, the catalog last. Each is written as it
\* arrives; one that cannot be had is left as it is.
Downloads(d) ==
    /\ task.pc = "fetch" /\ d \in task.todo /\ \A e \in task.todo : e <= d
    /\ \/ disk' = [disk EXCEPT ![d] = [date |-> task.dates[d], age |-> 0]]
          /\ task' = [task EXCEPT !.todo = @ \ {d}]
       \/ UNCHANGED disk
          /\ task' = [task EXCEPT !.todo = @ \ {d}, !.errors = TRUE]
    /\ UNCHANGED <<inner, refreshing, asking, released, dates, rest>>

\* prune: the months that have left the window.
PrunesMonths ==
    /\ task.pc = "fetch" /\ task.todo = {}
    /\ disk' = [d \in Doc |-> IF d \in task.window THEN disk[d] ELSE None]
    /\ task' = [task EXCEPT !.pc = "end", !.window = {}, !.dates = Nothing]
    /\ UNCHANGED <<inner, refreshing, asking, released, dates, rest>>

\* Mutant of Swaps: a month that failed leaves the index.
SwapsOnlyNew ==
    /\ task.pc = "end"
    /\ inner' = [inner EXCEPT !.index = [d \in Doc |-> IF disk[d].age = 0 THEN disk[d].date ELSE NoDate],
                              !.attempt = 0, !.failed = task.errors,
                              !.checked = IF task.errors THEN @ ELSE 0]
    /\ rest' = IF task.errors THEN RetryAfter ELSE CheckEvery
    /\ Ended
    /\ UNCHANGED <<asking, disk, released, dates>>

\* The index is replaced as a whole, by what was kept and what was fetched, unless
\* that is nothing.
Swaps ==
    /\ task.pc = "end"
    /\ LET data == [d \in Doc |-> disk[d].date]
       IN  inner' = [inner EXCEPT !.index = IF data = Nothing THEN @ ELSE data,
                                  !.attempt = 0, !.failed = task.errors,
                                  !.checked = IF task.errors THEN @ ELSE 0]
    /\ rest' = IF task.errors THEN RetryAfter ELSE CheckEvery
    /\ Ended
    /\ UNCHANGED <<asking, disk, released, dates>>

-----------------------------------------------------------------------------
(* What happens meanwhile.                                                 *)

Older(age, max) == IF age < max THEN age + 1 ELSE age

\* Time passes, and either feed may have news.
TimePasses ==
    /\ inner' = [inner EXCEPT !.checked = Older(@, CheckEvery), !.attempt = Older(@, RetryAfter)]
    /\ disk' = [d \in Doc |-> IF disk[d] = None THEN None
                              ELSE [disk[d] EXCEPT !.age = Older(@, OlderAge)]]
    /\ rest' = IF rest > 0 THEN rest - 1 ELSE 0
    /\ \/ released < LastMonth /\ released' = released + 1 /\ UNCHANGED dates
       \/ \E d \in Revised : dates[d] < MaxDate /\ dates' = [dates EXCEPT ![d] = @ + 1]
          /\ UNCHANGED released
       \/ UNCHANGED <<released, dates>>
    /\ UNCHANGED <<refreshing, asking, task>>

\* The app ends anywhere and starts again.
ExploitRestarts ==
    /\ inner' = FirstRun /\ refreshing' = FALSE /\ asking' = {} /\ task' = NoTask
    /\ rest' = 0
    /\ UNCHANGED <<disk, released, dates>>

ExploitNext ==
    \/ \E q \in Asker : FindsDue(q) \/ StartsOne(q)
    \/ LoadsDisk \/ ChecksAgain \/ Lists
    \/ \E d \in Doc : Downloads(d)
    \/ PrunesMonths \/ Swaps
    \/ TimePasses \/ ExploitRestarts

ExploitSpec == ExploitInit /\ [][ExploitNext]_exploitVars

-----------------------------------------------------------------------------
(* Properties.                                                             *)

\* Outside of a refresh, queries are matched against every copy the app holds: a month
\* or a catalog that could not be fetched leaves the older copy in use, in memory as on
\* disk, and a restart changes nothing. (With no file left, the last index stays.)
ServesWhatItHolds ==
    /\ inner.loaded /\ task.pc \notin {"fetch", "end"}
    /\ \E d \in Doc : disk[d] # None
    => inner.index = [d \in Doc |-> disk[d].date]

\* A quarter of a gigabyte is downloaded only when it is called for: not within
\* CHECK_INTERVAL of a refresh that succeeded, nor within RETRY_AFTER_FAILURE of one
\* that did not, however many queries ask together.
DownloadsWhenDue == task.pc = "list" => rest = 0

\* The exploit data: what is held is what is served, and it is fetched when due alone.
HoldsWhatItFetched == ServesWhatItHolds /\ DownloadsWhenDue
=============================================================================
