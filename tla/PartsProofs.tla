---------------------------- MODULE PartsProofs ----------------------------
(***************************************************************************)
(* What the parts that share no state promise, whatever interleaves: the   *)
(* exploit data, the first-seen ledger, the settings file, the table of a  *)
(* result, the run history and what becomes of an action.                  *)
(***************************************************************************)
EXTENDS Exploits, FirstSeen, SavedSettings, ResultView, RunHistory,
        JobOutcomes, TLAPS, FiniteSetTheorems

-----------------------------------------------------------------------------
(* The exploit data.                                                       *)

\* A task that has read the files knows that they are loaded; one that fetches has the
\* dates of what it fetches, and so has every copy.
TaskKnows ==
    /\ task.pc \in {"check", "list", "fetch", "end"} => inner.loaded
    /\ task.pc = "fetch" => \A d \in Doc : task.dates[d] # NoDate
    /\ \A d \in Doc : disk[d] # None => disk[d].date # NoDate

\* As long as nothing is to be fetched, the time of the last check, or that of the last
\* failure, says so.
RestIsKnown ==
    /\ ~inner.loaded => rest = 0
    /\ rest > 0 => \/ inner.checked + rest <= CheckEvery
                   \/ inner.failed /\ inner.attempt + rest <= RetryAfter

ExploitInv == ExploitTypeOK /\ TaskKnows /\ RestIsKnown /\ HoldsWhatItFetched

InnerType == [index : [Doc -> 0..MaxDate], loaded : BOOLEAN, checked : 0..CheckEvery,
              attempt : 0..RetryAfter, failed : BOOLEAN]
TaskType == [pc : {"idle", "load", "check", "list", "fetch", "end"}, window : SUBSET Doc,
             dates : [Doc -> 0..MaxDate], todo : SUBSET Doc, errors : BOOLEAN]
CopyType == [date : 0..MaxDate, age : 0..OlderAge]

\* ExploitTypeOK, variable by variable.
ExploitTyped ==
    /\ inner \in InnerType /\ task \in TaskType /\ disk \in [Doc -> CopyType]
    /\ refreshing \in BOOLEAN /\ asking \subseteq Asker
    /\ released \in 1..LastMonth /\ dates \in [Doc -> 1..MaxDate]
    /\ rest \in 0..CheckEvery /\ (refreshing <=> task.pc # "idle")

LEMMA TypesAreTyped == ExploitTypeOK <=> ExploitTyped
  BY DEF ExploitTypeOK, ExploitTyped, InnerType, TaskType, CopyType

LEMMA ExploitConstants ==
    /\ Nothing \in [Doc -> 0..MaxDate] /\ FirstRun \in InnerType /\ NoTask \in TaskType
    /\ NoTask.pc = "idle" /\ ~FirstRun.loaded
    /\ None \in CopyType /\ None.date = 0 /\ Kev \in Doc
    /\ \A n \in 1..LastMonth : Window(n) \subseteq Doc
    /\ LastMonth >= 1 /\ MaxDate >= 1
<1> USE ExploitAssumption
<1>1. Nothing \in [Doc -> 0..MaxDate]
  BY DEF Nothing, NoDate
<1>2. FirstRun \in InnerType /\ NoTask \in TaskType /\ NoTask.pc = "idle" /\ ~FirstRun.loaded
  BY <1>1 DEF FirstRun, InnerType, NoTask, TaskType
<1>3. None \in CopyType /\ None.date = 0
  BY DEF None, NoDate, CopyType
<1>4. Kev \in Doc /\ \A n \in 1..LastMonth : Window(n) \subseteq Doc
  BY DEF Window, Kev, Doc
<1> QED BY <1>1, <1>2, <1>3, <1>4

LEMMA OlderIsBounded ==
    ASSUME NEW max \in Nat, NEW age \in 0..max
    PROVE  Older(age, max) \in 0..max
  BY DEF Older

LEMMA ExploitInits == ExploitInit => ExploitInv
<1> SUFFICES ASSUME ExploitInit PROVE ExploitInv
  OBVIOUS
<1> USE ExploitAssumption, ExploitConstants DEF ExploitInit
<1>1. ExploitTypeOK
  <2>1. /\ inner \in InnerType /\ task \in TaskType /\ disk \in [Doc -> CopyType]
        /\ released \in 1..LastMonth /\ dates \in [Doc -> 1..MaxDate] /\ rest \in 0..CheckEvery
    OBVIOUS
  <2> QED BY <2>1, TypesAreTyped DEF ExploitTyped
<1>2. TaskKnows /\ RestIsKnown /\ HoldsWhatItFetched
  BY DEF TaskKnows, RestIsKnown, HoldsWhatItFetched, ServesWhatItHolds, DownloadsWhenDue
<1> QED BY <1>1, <1>2 DEF ExploitInv

LEMMA ExploitSteps == ExploitInv /\ [ExploitNext]_exploitVars => ExploitInv'
<1> SUFFICES ASSUME ExploitInv, [ExploitNext]_exploitVars PROVE ExploitInv'
  OBVIOUS
<1> USE ExploitAssumption
<1>t. ExploitTyped
  BY TypesAreTyped DEF ExploitInv
<1>k. TaskKnows /\ RestIsKnown /\ ServesWhatItHolds /\ DownloadsWhenDue
  BY DEF ExploitInv, HoldsWhatItFetched
<1>f. /\ inner.index \in [Doc -> 0..MaxDate] /\ inner.checked \in 0..CheckEvery
      /\ inner.attempt \in 0..RetryAfter /\ rest \in 0..CheckEvery
      /\ \A d \in Doc : disk[d].date \in 0..MaxDate /\ disk[d].age \in 0..OlderAge
      /\ [d \in Doc |-> disk[d].date] \in [Doc -> 0..MaxDate]
  BY <1>t DEF ExploitTyped, InnerType, CopyType
<1>p. ExploitTyped' => ExploitTypeOK'
  BY TypesAreTyped, PTL
<1>1. ASSUME NEW q \in Asker, FindsDue(q) PROVE ExploitInv'
  <2>1. ExploitTyped'
    BY <1>1, <1>t, <1>k DEF ExploitTyped, FindsDue, InnerType, TaskType, CopyType
  <2>2. TaskKnows' /\ RestIsKnown'
    BY <1>1, <1>t, <1>k DEF ExploitTyped, FindsDue, TaskKnows, RestIsKnown, InnerType, TaskType, CopyType
  <2>3. ServesWhatItHolds'
    BY <1>1, <1>t, <1>k DEF ExploitTyped, FindsDue, TaskKnows, ServesWhatItHolds, InnerType, TaskType, CopyType
  <2>4. DownloadsWhenDue'
    BY <1>1, <1>t, <1>k DEF ExploitTyped, FindsDue, Due, RestIsKnown, TaskKnows, DownloadsWhenDue, InnerType, TaskType
  <2> QED BY <2>1, <2>2, <2>3, <2>4, <1>p DEF ExploitInv, HoldsWhatItFetched
<1>2. ASSUME NEW q \in Asker, StartsOne(q) PROVE ExploitInv'
  <2>1. ExploitTyped'
    BY <1>2, <1>t, <1>k, ExploitConstants DEF ExploitTyped, StartsOne, InnerType, TaskType, CopyType
  <2>2. TaskKnows' /\ RestIsKnown'
    BY <1>2, <1>t, <1>k, ExploitConstants DEF ExploitTyped, StartsOne, TaskKnows, RestIsKnown, InnerType, TaskType, CopyType
  <2>3. ServesWhatItHolds'
    BY <1>2, <1>t, <1>k, ExploitConstants DEF ExploitTyped, StartsOne, TaskKnows, ServesWhatItHolds, InnerType, TaskType, CopyType
  <2>4. DownloadsWhenDue'
    BY <1>2, <1>t, <1>k, ExploitConstants DEF ExploitTyped, StartsOne, Due, RestIsKnown, TaskKnows, DownloadsWhenDue, InnerType, TaskType
  <2> QED BY <2>1, <2>2, <2>3, <2>4, <1>p DEF ExploitInv, HoldsWhatItFetched
<1>3. CASE LoadsDisk
  <2>1. ExploitTyped'
    <3>1. inner' \in InnerType
      <4>1. CASE inner.loaded
        BY <1>3, <1>t, <4>1 DEF LoadsDisk, ExploitTyped
      <4>2. CASE ~inner.loaded
        <5> DEFINE c == IF disk[Kev] = None \/ disk[Kev].age > CheckEvery
                        THEN CheckEvery ELSE disk[Kev].age
        <5>1. c \in 0..CheckEvery
          BY <1>f, ExploitConstants
        <5>2. inner' = [inner EXCEPT !.loaded = TRUE, !.index = [d \in Doc |-> disk[d].date],
                                     !.checked = c]
          BY <1>3, <4>2 DEF LoadsDisk
        <5> HIDE DEF c
        <5> QED BY <1>t, <1>f, <5>1, <5>2 DEF ExploitTyped, InnerType
      <4> QED BY <4>1, <4>2
    <3>2. task' \in TaskType /\ task'.pc = "check" /\ task.pc # "idle"
      BY <1>3, <1>t, <1>k DEF ExploitTyped, LoadsDisk, TaskType
    <3> QED BY <3>1, <3>2, <1>3, <1>t DEF ExploitTyped, LoadsDisk
  <2>2. TaskKnows' /\ RestIsKnown'
    BY <1>3, <1>t, <1>k DEF ExploitTyped, LoadsDisk, TaskKnows, RestIsKnown, InnerType, TaskType, CopyType
  <2>3. ServesWhatItHolds'
    BY <1>3, <1>t, <1>k DEF ExploitTyped, LoadsDisk, TaskKnows, ServesWhatItHolds, InnerType, TaskType, CopyType
  <2>4. DownloadsWhenDue'
    BY <1>3, <1>t, <1>k DEF ExploitTyped, LoadsDisk, Due, RestIsKnown, TaskKnows, DownloadsWhenDue, InnerType, TaskType
  <2> QED BY <2>1, <2>2, <2>3, <2>4, <1>p DEF ExploitInv, HoldsWhatItFetched
<1>4. CASE ChecksAgain
  <2>1. ExploitTyped'
    BY <1>4, <1>t, <1>k, ExploitConstants DEF ExploitTyped, ChecksAgain, Ended, InnerType, TaskType, CopyType
  <2>2. TaskKnows' /\ RestIsKnown'
    BY <1>4, <1>t, <1>k, ExploitConstants DEF ExploitTyped, ChecksAgain, Ended, TaskKnows, RestIsKnown, InnerType, TaskType, CopyType
  <2>3. ServesWhatItHolds'
    BY <1>4, <1>t, <1>k, ExploitConstants DEF ExploitTyped, ChecksAgain, Ended, TaskKnows, ServesWhatItHolds, InnerType, TaskType, CopyType
  <2>4. DownloadsWhenDue'
    <3> SUFFICES ASSUME task'.pc = "list" PROVE rest' = 0
      BY DEF DownloadsWhenDue
    <3>1. task.pc = "check" /\ rest' = rest /\ Due
      BY <1>4, ExploitConstants DEF ChecksAgain, Ended
    <3>2. inner.checked >= CheckEvery /\ ~(inner.failed /\ inner.attempt < RetryAfter)
      BY <1>k, <3>1 DEF TaskKnows, Due
    <3> QED BY <1>f, <1>k, <3>1, <3>2 DEF RestIsKnown
  <2> QED BY <2>1, <2>2, <2>3, <2>4, <1>p DEF ExploitInv, HoldsWhatItFetched
<1>5. CASE Lists
  <2>1. ExploitTyped'
    <3>1. inner' = inner \/ inner' = [inner EXCEPT !.attempt = 0, !.failed = TRUE]
      BY <1>5 DEF Lists, Fails
    <3>2. inner' \in InnerType
      <4>1. 0 \in 0..RetryAfter /\ inner \in InnerType
        BY <1>t DEF ExploitTyped
      <4> QED BY <3>1, <4>1 DEF InnerType
    <3>3. task' \in TaskType
      <4>1. CASE task' = NoTask
        BY <4>1, ExploitConstants
      <4>2. CASE task' # NoTask
        <5>1. PICK w \in SUBSET Doc, t \in SUBSET Doc :
                task' = [task EXCEPT !.pc = "fetch", !.dates = dates, !.window = w, !.todo = t]
          <6>1. released \in 1..LastMonth /\ Window(released) \union {Kev} \subseteq Doc
            BY <1>t, ExploitConstants DEF ExploitTyped
          <6> QED BY <1>5, <4>2, <6>1 DEF Lists, Ended
        <5>2. dates \in [Doc -> 0..MaxDate]
          BY <1>t DEF ExploitTyped
        <5> QED BY <1>t, <5>1, <5>2 DEF ExploitTyped, TaskType
      <4> QED BY <4>1, <4>2
    <3>5. rest' \in {rest, RetryAfter}
      BY <1>5 DEF Lists
    <3>6. rest' \in 0..CheckEvery
      BY <1>f, <3>5
    <3>4. refreshing' \in BOOLEAN /\ (refreshing' <=> task'.pc # "idle")
      BY <1>5, <1>t, <1>k, ExploitConstants DEF ExploitTyped, Lists, Ended, TaskType
    <3> QED BY <3>2, <3>3, <3>4, <3>6, <1>5, <1>t, ExploitConstants DEF ExploitTyped, Lists
  <2>2. TaskKnows' /\ RestIsKnown'
    <3>1. CASE inner' = inner /\ rest' = rest /\ task'.pc = "fetch" /\ task'.dates = dates
      <4>1. TaskKnows'
        BY <1>5, <1>t, <1>k, <3>1 DEF Lists, ExploitTyped, TaskKnows, NoDate
      <4> QED BY <1>k, <3>1, <4>1 DEF RestIsKnown
    <3>2. CASE inner' = Fails(inner) /\ rest' = RetryAfter /\ task' = NoTask
      <4>1. inner'.loaded /\ inner'.failed /\ inner'.attempt = 0 /\ inner'.checked \in 0..CheckEvery
        BY <1>5, <1>t, <1>k, <3>2 DEF Lists, TaskKnows, Fails, ExploitTyped, InnerType
      <4>2. TaskKnows'
        BY <1>5, <1>k, <3>2, ExploitConstants DEF Lists, TaskKnows
      <4> QED BY <3>2, <4>1, <4>2 DEF RestIsKnown
    <3> QED BY <1>5, <1>t, <3>1, <3>2 DEF Lists, Ended, ExploitTyped, TaskType
  <2>3. ServesWhatItHolds'
    BY <1>5, <1>t, <1>k, ExploitConstants, ZenonT(60) DEF ExploitTyped, Lists, Fails, Ended, TaskKnows, ServesWhatItHolds, InnerType, TaskType, CopyType
  <2>4. DownloadsWhenDue'
    BY <1>5, <1>t, <1>k, ExploitConstants DEF ExploitTyped, Lists, Fails, Ended, Due, RestIsKnown, TaskKnows, DownloadsWhenDue, InnerType, TaskType
  <2> QED BY <2>1, <2>2, <2>3, <2>4, <1>p DEF ExploitInv, HoldsWhatItFetched
<1>6. ASSUME NEW d \in Doc, Downloads(d) PROVE ExploitInv'
  <2>1. ExploitTyped'
    <3>1. task' \in TaskType /\ task'.pc = "fetch"
      <4>1. \/ task' = [task EXCEPT !.todo = task.todo \ {d}]
            \/ task' = [task EXCEPT !.todo = task.todo \ {d}, !.errors = TRUE]
        BY <1>6 DEF Downloads
      <4> QED BY <1>6, <1>t, <4>1 DEF Downloads, ExploitTyped, TaskType
    <3>2. disk' \in [Doc -> CopyType]
      BY <1>6, <1>t, <1>k, ExploitConstants DEF ExploitTyped, Downloads, TaskType, CopyType
    <3> QED BY <3>1, <3>2, <1>6, <1>t, ExploitConstants DEF ExploitTyped, Downloads
  <2>2. TaskKnows' /\ RestIsKnown'
    <3>1. task'.pc = "fetch" /\ task'.dates = task.dates /\ inner' = inner /\ rest' = rest
      BY <1>6, <1>t DEF Downloads, ExploitTyped, TaskType
    <3>2. disk' = disk \/ disk' = [disk EXCEPT ![d] = [date |-> task.dates[d], age |-> 0]]
      BY <1>6 DEF Downloads
    <3>3. task.pc = "fetch"
      BY <1>6 DEF Downloads
    <3>4. \A e \in Doc : disk'[e] # None => disk'[e].date # NoDate
      BY <1>6, <1>t, <1>k, <3>2, <3>3 DEF TaskKnows, ExploitTyped
    <3> QED BY <1>k, <3>1, <3>3, <3>4 DEF TaskKnows, RestIsKnown
  <2>3. ServesWhatItHolds'
    BY <1>6, <1>t, <1>k, ExploitConstants DEF ExploitTyped, Downloads, TaskKnows, ServesWhatItHolds, InnerType, TaskType, CopyType
  <2>4. DownloadsWhenDue'
    BY <1>6, <1>t, <1>k, ExploitConstants DEF ExploitTyped, Downloads, Due, RestIsKnown, TaskKnows, DownloadsWhenDue, InnerType, TaskType
  <2> QED BY <2>1, <2>2, <2>3, <2>4, <1>p DEF ExploitInv, HoldsWhatItFetched
<1>7. CASE PrunesMonths
  <2>1. ExploitTyped'
    BY <1>7, <1>t, <1>k, ExploitConstants DEF ExploitTyped, PrunesMonths, InnerType, TaskType, CopyType
  <2>2. TaskKnows' /\ RestIsKnown'
    BY <1>7, <1>t, <1>k, ExploitConstants DEF ExploitTyped, PrunesMonths, TaskKnows, RestIsKnown, InnerType, TaskType, CopyType
  <2>3. ServesWhatItHolds'
    BY <1>7, <1>t, <1>k, ExploitConstants DEF ExploitTyped, PrunesMonths, TaskKnows, ServesWhatItHolds, InnerType, TaskType, CopyType
  <2>4. DownloadsWhenDue'
    BY <1>7, <1>t, <1>k, ExploitConstants DEF ExploitTyped, PrunesMonths, Due, RestIsKnown, TaskKnows, DownloadsWhenDue, InnerType, TaskType
  <2> QED BY <2>1, <2>2, <2>3, <2>4, <1>p DEF ExploitInv, HoldsWhatItFetched
<1>8. CASE Swaps
  <2>1. ExploitTyped'
    <3>1. inner' \in InnerType
      <4> DEFINE data == [d \in Doc |-> disk[d].date]
                 index == IF data = Nothing THEN inner.index ELSE data
                 checked == IF task.errors THEN inner.checked ELSE 0
      <4>1. index \in [Doc -> 0..MaxDate] /\ checked \in 0..CheckEvery /\ 0 \in 0..RetryAfter
        BY <1>f
      <4>2. inner' = [inner EXCEPT !.index = index, !.attempt = 0, !.failed = task.errors,
                                   !.checked = checked]
        BY <1>8 DEF Swaps
      <4>3. inner \in InnerType /\ task.errors \in BOOLEAN
        BY <1>t DEF ExploitTyped, TaskType
      <4> HIDE DEF data, index, checked
      <4> QED BY <4>1, <4>2, <4>3 DEF InnerType
    <3>2. task' \in TaskType /\ task'.pc = "idle" /\ refreshing' = FALSE
      BY <1>8, <1>t, <1>k, ExploitConstants DEF ExploitTyped, Swaps, Ended
    <3>3. rest' \in 0..CheckEvery
      BY <1>8, <1>t, <1>k, ExploitConstants DEF ExploitTyped, Swaps
    <3> QED BY <3>1, <3>2, <3>3, <1>8, <1>t, ExploitConstants DEF ExploitTyped, Swaps
  <2>2. TaskKnows' /\ RestIsKnown'
    BY <1>8, <1>t, <1>k, ExploitConstants DEF ExploitTyped, Swaps, Ended, TaskKnows, RestIsKnown, InnerType, TaskType, CopyType
  <2>3. ServesWhatItHolds'
    <3> SUFFICES ASSUME NEW d \in Doc, disk'[d] # None
                 PROVE  inner'.index = [e \in Doc |-> disk'[e].date]
      BY DEF ServesWhatItHolds
    <3>1. disk' = disk /\ inner \in InnerType
      BY <1>8, <1>t DEF Swaps, ExploitTyped
    <3>2. disk[d].date # NoDate
      BY <1>k, <3>1 DEF TaskKnows
    <3>3. [e \in Doc |-> disk[e].date] # Nothing
      <4>1. [e \in Doc |-> disk[e].date][d] # Nothing[d]
        BY <3>2 DEF Nothing
      <4> QED BY <4>1
    <3>4. inner'.index = [e \in Doc |-> disk[e].date]
      BY <1>8, <3>1, <3>3 DEF Swaps, InnerType
    <3> QED BY <3>1, <3>4
  <2>4. DownloadsWhenDue'
    BY <1>8, <1>t, <1>k, ExploitConstants DEF ExploitTyped, Swaps, Ended, Due, RestIsKnown, TaskKnows, DownloadsWhenDue, InnerType, TaskType
  <2> QED BY <2>1, <2>2, <2>3, <2>4, <1>p DEF ExploitInv, HoldsWhatItFetched
<1>9. CASE TimePasses
  <2>1. ExploitTyped'
    <3>1. inner' \in InnerType
      <4>1. PICK c \in 0..CheckEvery, a \in 0..RetryAfter :
              inner' = [inner EXCEPT !.checked = c, !.attempt = a]
        BY <1>9, <1>f, OlderIsBounded DEF TimePasses
      <4> QED BY <1>t, <4>1 DEF ExploitTyped, InnerType
    <3>2. disk' \in [Doc -> CopyType]
      BY <1>9, <1>t, <1>k, ExploitConstants DEF ExploitTyped, TimePasses, Older, CopyType
    <3>3. released' \in 1..LastMonth /\ dates' \in [Doc -> 1..MaxDate]
      BY <1>9, <1>t, <1>k, ExploitConstants DEF ExploitTyped, TimePasses
    <3>4. rest' \in 0..CheckEvery
      BY <1>9, <1>t, <1>k, ExploitConstants DEF ExploitTyped, TimePasses
    <3> QED BY <3>1, <3>2, <3>3, <3>4, <1>9, <1>t, ExploitConstants DEF ExploitTyped, TimePasses
  <2>2. TaskKnows' /\ RestIsKnown'
    BY <1>9, <1>t, <1>k, ExploitConstants DEF ExploitTyped, TimePasses, Older, TaskKnows, RestIsKnown, InnerType, TaskType, CopyType
  <2>3. ServesWhatItHolds'
    BY <1>9, <1>t, <1>k, ExploitConstants DEF ExploitTyped, TimePasses, Older, TaskKnows, ServesWhatItHolds, InnerType, TaskType, CopyType
  <2>4. DownloadsWhenDue'
    BY <1>9, <1>t, <1>k, ExploitConstants DEF ExploitTyped, TimePasses, Older, Due, RestIsKnown, TaskKnows, DownloadsWhenDue, InnerType, TaskType
  <2> QED BY <2>1, <2>2, <2>3, <2>4, <1>p DEF ExploitInv, HoldsWhatItFetched
<1>10. CASE ExploitRestarts
  <2>1. ExploitTyped'
    <3>1. inner' \in InnerType /\ task' \in TaskType /\ task'.pc = "idle"
      BY <1>10, <1>t, <1>k, ExploitConstants DEF ExploitTyped, ExploitRestarts
    <3>2. rest' \in 0..CheckEvery
      BY <1>10, <1>t, <1>k, ExploitConstants DEF ExploitTyped, ExploitRestarts
    <3> QED BY <3>1, <3>2, <1>10, <1>t, ExploitConstants DEF ExploitTyped, ExploitRestarts
  <2>2. TaskKnows' /\ RestIsKnown'
    BY <1>10, <1>t, <1>k, ExploitConstants DEF ExploitTyped, ExploitRestarts, TaskKnows, RestIsKnown, InnerType, TaskType, CopyType
  <2>3. ServesWhatItHolds'
    BY <1>10, <1>t, <1>k, ExploitConstants DEF ExploitTyped, ExploitRestarts, TaskKnows, ServesWhatItHolds, InnerType, TaskType, CopyType
  <2>4. DownloadsWhenDue'
    BY <1>10, <1>t, <1>k, ExploitConstants DEF ExploitTyped, ExploitRestarts, Due, RestIsKnown, TaskKnows, DownloadsWhenDue, InnerType, TaskType
  <2> QED BY <2>1, <2>2, <2>3, <2>4, <1>p DEF ExploitInv, HoldsWhatItFetched
<1>11. CASE UNCHANGED exploitVars
  <2>1. ExploitTyped'
    BY <1>11, <1>t, <1>k DEF ExploitTyped, exploitVars, InnerType, TaskType, CopyType
  <2>2. TaskKnows' /\ RestIsKnown'
    BY <1>11, <1>t, <1>k DEF ExploitTyped, exploitVars, TaskKnows, RestIsKnown, InnerType, TaskType, CopyType
  <2>3. ServesWhatItHolds'
    BY <1>11, <1>t, <1>k DEF ExploitTyped, exploitVars, TaskKnows, ServesWhatItHolds, InnerType, TaskType, CopyType
  <2>4. DownloadsWhenDue'
    BY <1>11, <1>t, <1>k DEF ExploitTyped, exploitVars, Due, RestIsKnown, TaskKnows, DownloadsWhenDue, InnerType, TaskType
  <2> QED BY <2>1, <2>2, <2>3, <2>4, <1>p DEF ExploitInv, HoldsWhatItFetched
<1> QED
  BY <1>1, <1>2, <1>3, <1>4, <1>5, <1>6, <1>7, <1>8, <1>9, <1>10, <1>11 DEF ExploitNext

\* Whatever fails, is revised or is asked for meanwhile, and however often the app is
\* restarted: queries are matched against the copies held, and nothing is fetched
\* before it is due.
THEOREM ExploitDataIsHeld == ExploitSpec => []HoldsWhatItFetched
<1>1. ExploitInv => HoldsWhatItFetched
  BY DEF ExploitInv
<1> QED BY ExploitInits, ExploitSteps, <1>1, PTL DEF ExploitSpec

-----------------------------------------------------------------------------
(* The ledger in memory and on disk.                                       *)

RunType == [pc : {"idle", "loading", "fetching", "stored", "saving", "publishing"},
            tenant : LedgerTenant \union {"none"}, held : [Family -> Section],
            at : 0..MaxNow, feed : [Family -> SUBSET Patch],
            asked : SUBSET Family, offline : SUBSET Patch]

SlotType == [tenant : LedgerTenant \union {"none"}, ledger : [Family -> Section]]

LEMMA NoneAreTyped == /\ NoSection \in Section /\ NoLedger \in [Family -> Section]
                      /\ NoRun \in RunType /\ NoRun.pc = "idle"
                      /\ EmptySlot \in SlotType /\ EmptySlot.tenant = "none"
<1> USE LedgerAssumption
<1>1. NoSection \in Section
  BY DEF NoSection, Section
<1>2. NoLedger \in [Family -> Section]
  BY <1>1 DEF NoLedger
<1>3. NoRun \in RunType /\ NoRun.pc = "idle"
  BY <1>2 DEF NoRun, RunType
<1>4. EmptySlot \in SlotType /\ EmptySlot.tenant = "none"
  BY <1>2 DEF EmptySlot, SlotType
<1> QED BY <1>1, <1>2, <1>3, <1>4

\* A merged record is a record, whatever the cap takes from it.
LEMMA RebuiltIsTyped ==
    ASSUME NEW prev \in Section, NEW at \in 0..MaxNow, NEW feed, NEW offline
    PROVE  /\ Rebuilt(prev, feed, at, offline) \in Section
           /\ Rebuilt(prev, feed, at, offline).mergedAt = at
<1> DEFINE stays == [p \in Patch |-> CASE p \in feed /\ prev.first[p] = 0 -> at
                                      [] p \notin feed \union offline    -> 0
                                      [] OTHER                           -> prev.first[p]]
<1>1. stays \in [Patch -> 0..MaxNow]
  BY LedgerAssumption DEF Section
<1>2. CappedLedger(stays) \in [Patch -> 0..MaxNow]
  <2> HIDE DEF stays
  <2> QED BY <1>1, LedgerAssumption DEF CappedLedger
<1>3. Rebuilt(prev, feed, at, offline) =
        [since |-> IF prev.mergedAt = 0 THEN at ELSE prev.since, mergedAt |-> at,
         first |-> CappedLedger(stays)]
  BY DEF Rebuilt
<1> HIDE DEF stays
<1> QED BY <1>2, <1>3 DEF Section

LEMMA MergedIsTyped ==
    ASSUME NEW r \in Run, observing \in [Run -> RunType], NEW latest \in [Family -> Section]
    PROVE  MergedInto(r, latest) \in [Family -> Section]
<1>1. observing[r].at \in 0..MaxNow
  BY DEF RunType
<1> QED BY <1>1, RebuiltIsTyped DEF MergedInto

LedgerTyped ==
    /\ slot \in SlotType
    /\ ledger \in [LedgerTenant -> [Family -> Section]]
    /\ observing \in [Run -> RunType]
    /\ committer \in Run \union {"none"} /\ newest \in Run \union {"none"}
    /\ now \in 1..MaxNow
    /\ appeared \in [LedgerTenant -> [Family -> [Patch -> 0..MaxNow]]]
    /\ owed \in [LedgerTenant -> [Family -> [Patch -> 0..MaxNow]]]

LEMMA LedgerIsTyped == LedgerTypeOK <=> LedgerTyped
  BY DEF LedgerTypeOK, LedgerTyped, SlotType, RunType

AtWork == {"fetching", "stored", "saving", "publishing"}

\* The queries that are open are of one tenant, whose record is in memory from the time
\* they begin to fetch.
OneTenantAtATime ==
    /\ \A r, s \in Run : observing[r].pc # "idle" /\ observing[s].pc # "idle"
                            => observing[r].tenant = observing[s].tenant
    /\ \A r \in Run : /\ observing[r].pc # "idle" => observing[r].tenant \in LedgerTenant
                      /\ observing[r].pc \in AtWork => slot.tenant = observing[r].tenant

CommitsAlone ==
    \A r \in Run : committer = r <=> observing[r].pc \in {"saving", "publishing"}

\* A file that is still to be put in memory is as it was read.
ReadIsTheFile ==
    \A r \in Run : observing[r].pc = "loading" /\ slot.tenant # observing[r].tenant
                      => observing[r].held = ledger[observing[r].tenant]

Mirrors(memory, doc) ==
    \A f \in Family : /\ memory[f].first = doc[f].first
                      /\ memory[f].since = doc[f].since
                      /\ memory[f].mergedAt >= doc[f].mergedAt

\* Memory mirrors disk but while a record has been written and not put in memory, when
\* the record does.
Mirrored ==
    /\ slot.tenant # "none" /\ (\A r \in Run : observing[r].pc # "publishing")
         => Mirrors(slot.ledger, ledger[slot.tenant])
    /\ \A r \in Run : observing[r].pc = "publishing"
         => Mirrors(observing[r].held, ledger[observing[r].tenant])

MirrorInv == LedgerTyped /\ OneTenantAtATime /\ CommitsAlone /\ ReadIsTheFile /\ Mirrored

LEMMA MirrorInits == LedgerInit => MirrorInv
<1> SUFFICES ASSUME LedgerInit PROVE MirrorInv
  OBVIOUS
<1> USE NoneAreTyped DEF LedgerInit
<1>1. LedgerTyped
  <2>1. now \in 1..MaxNow /\ appeared \in [LedgerTenant -> [Family -> [Patch -> 0..MaxNow]]]
    <3>1. 1 \in 1..MaxNow /\ {0, 1} \subseteq 0..MaxNow
      BY LedgerAssumption
    <3>2. [Patch -> {0, 1}] \subseteq [Patch -> 0..MaxNow]
      BY <3>1
    <3>3. [Family -> [Patch -> {0, 1}]] \subseteq [Family -> [Patch -> 0..MaxNow]]
      BY <3>2
    <3> QED BY <3>1, <3>3
  <2>2. owed \in [LedgerTenant -> [Family -> [Patch -> 0..MaxNow]]]
    BY LedgerAssumption
  <2> QED BY <2>1, <2>2 DEF LedgerTyped
<1>2. OneTenantAtATime /\ CommitsAlone /\ ReadIsTheFile /\ Mirrored
  BY LedgerAssumption DEF OneTenantAtATime, CommitsAlone, ReadIsTheFile, Mirrored, AtWork
<1> QED BY <1>1, <1>2 DEF MirrorInv

LEMMA LooksMirrors ==
    ASSUME MirrorInv, ~SwitchesMidRun, NEW r \in Run, NEW t \in LedgerTenant, Looks(r, t)
    PROVE  MirrorInv'
<1> USE NoneAreTyped DEF MirrorInv
<1>1. /\ observing[r].pc = "idle"
      /\ \A s \in Run : observing[s].pc # "idle" => observing[s].tenant = t
  BY DEF Looks, Open, OneTenantAtATime
<1> DEFINE x == IF slot.tenant = t THEN [NoRun EXCEPT !.pc = "fetching", !.tenant = t]
                ELSE [NoRun EXCEPT !.pc = "loading", !.tenant = t, !.held = ledger[t]]
<1>2. x \in RunType /\ x.tenant = t /\ x.pc \in {"fetching", "loading"}
      /\ (x.pc = "fetching" => slot.tenant = t) /\ (x.pc = "loading" => x.held = ledger[t])
  BY DEF RunType, LedgerTyped
<1>3. observing' = [observing EXCEPT ![r] = x]
  BY DEF Looks
<1> HIDE DEF x
<1>4. observing'[r] = x /\ \A s \in Run \ {r} : observing'[s] = observing[s]
  BY <1>3 DEF LedgerTyped
<1>5. UNCHANGED <<slot, ledger, committer, now, appeared, owed>> /\ newest' = r
  BY DEF Looks
<1>6. LedgerTyped'
  BY <1>2, <1>3, <1>5 DEF LedgerTyped
<1>7. OneTenantAtATime' /\ CommitsAlone'
  BY <1>1, <1>2, <1>4, <1>5 DEF OneTenantAtATime, CommitsAlone, AtWork
<1>8. ReadIsTheFile' /\ Mirrored'
  BY <1>1, <1>2, <1>4, <1>5 DEF ReadIsTheFile, Mirrored, Mirrors
<1> QED BY <1>6, <1>7, <1>8

LEMMA KeepsMirrors ==
    ASSUME MirrorInv, NEW r \in Run, Keeps(r)
    PROVE  MirrorInv'
<1> USE DEF MirrorInv
<1> DEFINE t == observing[r].tenant
           x == [observing[r] EXCEPT !.pc = "fetching", !.held = NoLedger]
<1>1. observing[r].pc = "loading" /\ t \in LedgerTenant /\ t # "none"
  BY LedgerAssumption DEF Keeps, OneTenantAtATime
<1>2. x \in RunType /\ x.tenant = t /\ x.pc = "fetching"
  BY NoneAreTyped DEF RunType, LedgerTyped
<1>3. observing' = [observing EXCEPT ![r] = x]
  BY DEF Keeps
<1> HIDE DEF x
<1>4. observing'[r] = x /\ \A s \in Run \ {r} : observing'[s] = observing[s]
  BY <1>3 DEF LedgerTyped
<1>5. UNCHANGED <<ledger, committer, newest, now, appeared, owed>>
  BY DEF Keeps
<1>6. \/ slot.tenant = t /\ slot' = slot
      \/ slot.tenant # t /\ slot' = [tenant |-> t, ledger |-> ledger[t]]
  BY <1>1 DEF Keeps, ReadIsTheFile
<1>7. LedgerTyped'
  BY <1>1, <1>2, <1>3, <1>5, <1>6 DEF LedgerTyped, SlotType
<1>8. slot'.tenant = t
  BY <1>6
<1>9. OneTenantAtATime' /\ CommitsAlone'
  BY <1>1, <1>2, <1>4, <1>5, <1>8 DEF OneTenantAtATime, CommitsAlone, AtWork
<1>10. ReadIsTheFile'
  BY <1>1, <1>2, <1>4, <1>5, <1>8 DEF ReadIsTheFile, OneTenantAtATime
<1>11. Mirrored'
  <2>1. CASE slot' = slot
    BY <2>1, <1>1, <1>2, <1>4, <1>5 DEF Mirrored, Mirrors
  <2>2. CASE slot.tenant # t /\ slot' = [tenant |-> t, ledger |-> ledger[t]]
    <3>1. Mirrors(slot'.ledger, ledger'[slot'.tenant])
      BY <1>1, <1>5, <2>2 DEF Mirrors, LedgerTyped, Section
    <3>2. \A s \in Run : observing'[s].pc # "publishing"
      BY <1>1, <1>2, <1>4, <2>2 DEF OneTenantAtATime, AtWork
    <3> QED BY <3>1, <3>2 DEF Mirrored
  <2> QED BY <1>6, <2>1, <2>2
<1> QED BY <1>7, <1>9, <1>10, <1>11

\* A query that goes on or ends without touching the record.
LEMMA OtherwiseMirrors ==
    ASSUME MirrorInv, NEW r \in Run, NEW x \in RunType, observing' = [observing EXCEPT ![r] = x],
           UNCHANGED <<slot, ledger, newest, now, appeared, owed>>,
           observing[r].pc # "idle" /\ observing[r].pc \in AtWork \ {"publishing"},
           \/ x.pc = "idle"
           \/ x.pc = "stored" /\ x.tenant = observing[r].tenant
           \/ x.pc = "saving" /\ x.tenant = observing[r].tenant
           \/ x.pc = "publishing" /\ x.tenant = observing[r].tenant /\ Mirrors(x.held, ledger[x.tenant]),
           committer' \in Run \union {"none"},
           \A s \in Run : committer' = s <=> observing'[s].pc \in {"saving", "publishing"}
    PROVE  MirrorInv'
<1> USE DEF MirrorInv
<1>1. observing'[r] = x /\ \A s \in Run \ {r} : observing'[s] = observing[s]
  BY DEF LedgerTyped
<1>2. LedgerTyped'
  BY DEF LedgerTyped
<1>3. OneTenantAtATime'
  BY <1>1 DEF OneTenantAtATime, AtWork
<1>4. CommitsAlone'
  BY DEF CommitsAlone
<1>5. ReadIsTheFile'
  BY <1>1 DEF ReadIsTheFile, AtWork
<1>6. Mirrored'
  <2>1. ASSUME slot'.tenant # "none", \A s \in Run : observing'[s].pc # "publishing"
        PROVE  Mirrors(slot'.ledger, ledger'[slot'.tenant])
    BY <1>1, <2>1 DEF Mirrored, AtWork
  <2>2. ASSUME NEW s \in Run, observing'[s].pc = "publishing"
        PROVE  Mirrors(observing'[s].held, ledger'[observing'[s].tenant])
    BY <1>1, <2>2 DEF Mirrored
  <2> QED BY <2>1, <2>2 DEF Mirrored
<1> QED BY <1>2, <1>3, <1>4, <1>5, <1>6

LEMMA FetchesMirrors ==
    ASSUME MirrorInv, NEW r \in Run, Fetches(r)
    PROVE  MirrorInv'
<1> USE DEF MirrorInv
<1>1. PICK asked \in (SUBSET Family) \ {{}}, offline \in SUBSET Patch :
        observing' = [observing EXCEPT ![r] =
           IF newest # r THEN NoRun
           ELSE [@ EXCEPT !.pc = "stored", !.at = now, !.asked = asked, !.offline = offline,
                          !.feed = [f \in Family |-> IF f \in asked
                                      THEN Pending(observing[r].tenant, f) \ offline ELSE {}]]]
  BY DEF Fetches
<1> DEFINE feed == [f \in Family |-> IF f \in asked
                                      THEN Pending(observing[r].tenant, f) \ offline ELSE {}]
           y == [observing[r] EXCEPT !.pc = "stored", !.at = now, !.asked = asked,
                                     !.offline = offline, !.feed = feed]
           x == IF newest # r THEN NoRun ELSE y
<1>2. observing[r].pc = "fetching" /\ UNCHANGED <<slot, ledger, committer, newest, now, appeared, owed>>
  BY DEF Fetches
<1>3. feed \in [Family -> SUBSET Patch] /\ now \in 0..MaxNow
  BY LedgerAssumption DEF Pending, LedgerTyped
<1>4. observing[r] \in RunType
  BY DEF LedgerTyped
<1>5. y \in RunType /\ y.pc = "stored" /\ y.tenant = observing[r].tenant
  <2> HIDE DEF feed
  <2> QED BY <1>3, <1>4 DEF RunType
<1>6. observing' = [observing EXCEPT ![r] = x]
  BY <1>1
<1> HIDE DEF y
<1>7. x \in RunType /\ (x.pc = "idle" \/ (x.pc = "stored" /\ x.tenant = observing[r].tenant))
  <2>1. x = NoRun \/ x = y
    OBVIOUS
  <2> HIDE DEF x
  <2> QED BY <1>5, <2>1, NoneAreTyped
<1> HIDE DEF x
<1>8. committer' \in Run \union {"none"} /\ \A s \in Run : committer' = s <=> observing'[s].pc \in {"saving", "publishing"}
  BY <1>2, <1>6, <1>7 DEF CommitsAlone, LedgerTyped
<1> QED BY <1>2, <1>6, <1>7, <1>8, OtherwiseMirrors DEF AtWork

LEMMA CapKeepsOrDrops ==
    ASSUME NEW first, NEW p \in Patch
    PROVE  CappedLedger(first)[p] \in {0, first[p]}
  BY DEF CappedLedger

\* What is not written changes no entry: memory then mirrors disk all the same.
LEMMA UnchangedMirrors ==
    ASSUME NEW r \in Run, observing \in [Run -> RunType], NEW latest \in [Family -> Section],
           ~Changes(r, latest, MergedInto(r, latest))
    PROVE  Mirrors(MergedInto(r, latest), latest)
<1> DEFINE next == MergedInto(r, latest)
<1>1. next \in [Family -> Section] /\ observing[r].at \in 0..MaxNow
  BY MergedIsTyped DEF RunType
<1> SUFFICES ASSUME NEW f \in Family
             PROVE  /\ next[f].first = latest[f].first /\ next[f].since = latest[f].since
                    /\ next[f].mergedAt >= latest[f].mergedAt
  BY DEF Mirrors
<1>2. latest[f] \in Section /\ next[f] \in Section
  BY <1>1
<1>3. CASE next[f] = latest[f]
  BY <1>2, <1>3, LedgerAssumption DEF Section
<1>4. CASE next[f] # latest[f]
  <2> DEFINE prev == latest[f]
             feed == observing[r].feed[f]
             at == observing[r].at
             offline == observing[r].offline
             stays == [p \in Patch |-> CASE p \in feed /\ prev.first[p] = 0 -> at
                                         [] p \notin feed \union offline    -> 0
                                         [] OTHER                           -> prev.first[p]]
  <2>1. next[f] = Rebuilt(prev, feed, at, offline) /\ prev.mergedAt < at
    BY <1>4 DEF MergedInto, Merges
  <2>2. /\ prev.mergedAt # 0 /\ feed \subseteq Recorded(prev)
        /\ Cardinality(Recorded(next[f])) = Cardinality(Recorded(prev))
    BY <1>4 DEF Changes
  <2>3. next[f].since = prev.since /\ next[f].mergedAt = at /\ next[f].first = CappedLedger(stays)
    BY <2>1, <2>2 DEF Rebuilt
  <2>4. ASSUME NEW p \in Patch PROVE next[f].first[p] \in {0, prev.first[p]}
    <3>1. next[f].first[p] \in {0, stays[p]}
      BY <2>3, CapKeepsOrDrops
    <3>2. p \in feed => prev.first[p] # 0
      BY <2>2 DEF Recorded
    <3>3. stays[p] \in {0, prev.first[p]}
      BY <3>2
    <3> QED BY <3>1, <3>3
  <2>5. Recorded(next[f]) = Recorded(prev)
    <3>1. Recorded(next[f]) \in SUBSET Recorded(prev) /\ Recorded(prev) \in SUBSET Patch
      BY <2>4 DEF Recorded
    <3>2. IsFiniteSet(Recorded(prev))
      BY <3>1, LedgerAssumption, FS_Subset
    <3> QED BY <2>2, <3>1, <3>2, FS_Subset
  <2>6. ASSUME NEW p \in Patch PROVE next[f].first[p] = prev.first[p]
    <3>1. next[f].first[p] = 0 <=> prev.first[p] = 0
      BY <2>5 DEF Recorded
    <3> QED BY <2>4, <3>1
  <2>7. next[f].first \in [Patch -> 0..MaxNow] /\ prev.first \in [Patch -> 0..MaxNow]
        /\ prev.mergedAt \in 0..MaxNow /\ next[f].mergedAt \in 0..MaxNow
    BY <1>2 DEF Section
  <2>8. next[f].first = prev.first
    BY <2>7, <2>6
  <2>9. next[f].mergedAt > prev.mergedAt
    <3> HIDE DEF prev, at, feed, offline, stays
    <3> QED BY <2>1, <2>3, <2>7, LedgerAssumption
  <2>10. prev = latest[f]
    OBVIOUS
  <2> HIDE DEF prev, at, feed, offline, stays
  <2> QED BY <2>3, <2>7, <2>8, <2>9, <2>10, LedgerAssumption
<1> QED BY <1>3, <1>4

LEMMA CommitsMirrors ==
    ASSUME MirrorInv, NEW r \in Run, Commits(r)
    PROVE  MirrorInv'
<1> USE DEF MirrorInv
<1> DEFINE t == observing[r].tenant
           next == MergedInto(r, slot.ledger)
           pc == IF Changes(r, slot.ledger, next) THEN "saving" ELSE "publishing"
           y == [observing[r] EXCEPT !.held = next, !.pc = pc]
<1>1. /\ observing[r].pc = "stored" /\ committer = "none" /\ slot.tenant = t /\ t \in LedgerTenant
      /\ UNCHANGED <<slot, ledger, newest, now, appeared, owed>>
  BY DEF Commits, OneTenantAtATime, AtWork
<1>2. Latest(t) = slot.ledger /\ slot.ledger \in [Family -> Section]
  BY <1>1 DEF Latest, LedgerTyped, SlotType
<1>3. next \in [Family -> Section] /\ observing[r] \in RunType
  BY <1>2, MergedIsTyped DEF LedgerTyped
<1>4. \/ observing' = [observing EXCEPT ![r] = NoRun] /\ committer' = "none"
      \/ observing' = [observing EXCEPT ![r] = y] /\ committer' = r
  BY <1>2 DEF Commits
<1>5. Mirrors(slot.ledger, ledger[t])
  <2>1. \A s \in Run : observing[s].pc # "publishing"
    BY <1>1, LedgerAssumption DEF CommitsAlone
  <2>2. t # "none"
    BY <1>1, LedgerAssumption
  <2> QED BY <1>1, <2>1, <2>2 DEF Mirrored
<1>6. CASE observing' = [observing EXCEPT ![r] = NoRun] /\ committer' = "none"
  <2>1. \A s \in Run : committer' = s <=> observing'[s].pc \in {"saving", "publishing"}
    BY <1>1, <1>6, NoneAreTyped DEF CommitsAlone, LedgerTyped
  <2> QED BY <1>1, <1>6, <2>1, NoneAreTyped, OtherwiseMirrors DEF AtWork
<1>7. CASE observing' = [observing EXCEPT ![r] = y] /\ committer' = r
  <2>1. y \in RunType /\ y.pc = pc /\ y.tenant = t /\ y.held = next
    <3>1. pc \in {"saving", "publishing"}
      OBVIOUS
    <3> HIDE DEF next, pc
    <3> QED BY <1>3, <3>1 DEF RunType
  <2>2. y.pc = "publishing" => Mirrors(y.held, ledger[y.tenant])
    <3> SUFFICES ASSUME ~Changes(r, slot.ledger, next) PROVE Mirrors(next, ledger[t])
      BY <2>1
    <3>1. Mirrors(next, slot.ledger)
      BY <1>2, UnchangedMirrors DEF LedgerTyped
    <3>2. ledger[t] \in [Family -> Section]
      BY <1>1 DEF LedgerTyped
    <3> HIDE DEF next
    <3> QED BY <1>2, <1>3, <1>5, <3>1, <3>2, LedgerAssumption DEF Mirrors, Section
  <2>3. y.pc \in {"saving", "publishing"}
    BY <2>1
  <2> HIDE DEF y
  <2>4. \A s \in Run : committer' = s <=> observing'[s].pc \in {"saving", "publishing"}
    BY <1>1, <1>7, <2>3, LedgerAssumption DEF CommitsAlone, LedgerTyped
  <2> QED BY <1>1, <1>7, <2>1, <2>2, <2>3, <2>4, OtherwiseMirrors DEF AtWork
<1> QED BY <1>4, <1>6, <1>7

LEMMA SavesMirrors ==
    ASSUME MirrorInv, NEW r \in Run, Saves(r)
    PROVE  MirrorInv'
<1> USE DEF MirrorInv
<1> DEFINE t == observing[r].tenant
           x == [observing[r] EXCEPT !.pc = "publishing"]
<1>1. /\ observing[r].pc = "saving" /\ slot.tenant = t /\ t \in LedgerTenant /\ committer = r
      /\ observing[r] \in RunType /\ UNCHANGED <<slot, newest, now, appeared, owed>>
  BY DEF Saves, OneTenantAtATime, AtWork, CommitsAlone, LedgerTyped
<1>2. \A s \in Run \ {r} : observing[s].pc \notin {"saving", "publishing"}
  BY <1>1 DEF CommitsAlone
<1>3. CASE observing' = [observing EXCEPT ![r] = NoRun] /\ committer' = "none" /\ ledger' = ledger
  <2>1. \A s \in Run : committer' = s <=> observing'[s].pc \in {"saving", "publishing"}
    BY <1>2, <1>3, NoneAreTyped, LedgerAssumption DEF LedgerTyped
  <2> QED BY <1>1, <1>3, <2>1, NoneAreTyped, OtherwiseMirrors DEF AtWork
<1>4. CASE /\ ledger' = [ledger EXCEPT ![t] = observing[r].held]
           /\ observing' = [observing EXCEPT ![r] = x] /\ committer' = committer
  <2>1. x \in RunType /\ x.tenant = t /\ x.pc = "publishing" /\ x.held = observing[r].held
        /\ x.held \in [Family -> Section]
    BY <1>1 DEF RunType
  <2> HIDE DEF x
  <2>2. observing'[r] = x /\ \A s \in Run \ {r} : observing'[s] = observing[s]
    BY <1>4 DEF LedgerTyped
  <2>3. ledger'[t] = x.held
    BY <1>1, <1>4, <2>1 DEF LedgerTyped
  <2>4. LedgerTyped'
    BY <1>1, <1>4, <2>1 DEF LedgerTyped
  <2>5. OneTenantAtATime' /\ CommitsAlone'
    BY <1>1, <1>2, <1>4, <2>1, <2>2 DEF OneTenantAtATime, CommitsAlone, AtWork
  <2>6. ReadIsTheFile'
    BY <1>1, <2>1, <2>2 DEF ReadIsTheFile, OneTenantAtATime
  <2>7. Mirrors(x.held, ledger'[t])
    BY <2>1, <2>3, LedgerAssumption DEF Mirrors, Section
  <2>8. Mirrored'
    BY <1>2, <2>1, <2>2, <2>7 DEF Mirrored
  <2> QED BY <2>4, <2>5, <2>6, <2>8
<1> QED BY <1>1, <1>3, <1>4 DEF Saves

LEMMA PublishesMirrors ==
    ASSUME MirrorInv, NEW r \in Run, Publishes(r), owed' \in [LedgerTenant -> [Family -> [Patch -> 0..MaxNow]]]
    PROVE  MirrorInv'
<1> USE DEF MirrorInv
<1> DEFINE t == observing[r].tenant
<1>1. /\ observing[r].pc = "publishing" /\ slot.tenant = t /\ t \in LedgerTenant /\ committer = r
      /\ observing[r] \in RunType /\ UNCHANGED <<ledger, newest, now, appeared>>
      /\ slot' = [tenant |-> t, ledger |-> observing[r].held] /\ committer' = "none"
      /\ observing' = [observing EXCEPT ![r] = NoRun]
  BY DEF Publishes, OneTenantAtATime, AtWork, CommitsAlone, LedgerTyped
<1>2. \A s \in Run \ {r} : observing[s].pc \notin {"saving", "publishing"}
  BY <1>1 DEF CommitsAlone
<1>3. observing'[r] = NoRun /\ \A s \in Run \ {r} : observing'[s] = observing[s]
  BY <1>1 DEF LedgerTyped
<1>4. slot' \in SlotType
  BY <1>1 DEF SlotType, RunType
<1>5. LedgerTyped'
  BY <1>1, <1>4, NoneAreTyped DEF LedgerTyped
<1>6. OneTenantAtATime' /\ CommitsAlone' /\ ReadIsTheFile'
  BY <1>1, <1>2, <1>3, NoneAreTyped, LedgerAssumption DEF OneTenantAtATime, CommitsAlone, ReadIsTheFile, AtWork
<1>7. Mirrored'
  BY <1>1, <1>2, <1>3, NoneAreTyped DEF Mirrored, Mirrors
<1> QED BY <1>5, <1>6, <1>7

LEMMA RestMirrors ==
    ASSUME MirrorInv,
           \/ FleetChanges \/ Restarts \/ (\E t \in LedgerTenant : LosesFile(t)) \/ UNCHANGED ledgerVars
    PROVE  MirrorInv'
<1> USE DEF MirrorInv
<1>1. CASE FleetChanges
  <2>1. now \in Nat /\ now' = now + 1 /\ now' \in 1..MaxNow
    BY <1>1, LedgerAssumption DEF FleetChanges, LedgerTyped
  <2>2. PICK t \in LedgerTenant, f \in Family, left \in SUBSET Patch :
         /\ appeared' = [appeared EXCEPT ![t][f] = [p \in Patch |->
              IF p \notin left THEN 0 ELSE IF @[p] = 0 THEN now + 1 ELSE @[p]]]
         /\ owed' = [owed EXCEPT ![t][f] = [p \in Patch |-> IF p \in left THEN @[p] ELSE 0]]
    BY <1>1 DEF FleetChanges
  <2>3. UNCHANGED <<slot, ledger, observing, committer, newest>>
    BY <1>1 DEF FleetChanges
  <2>4. appeared' \in [LedgerTenant -> [Family -> [Patch -> 0..MaxNow]]]
    <3>1. [p \in Patch |-> IF p \notin left THEN 0 ELSE IF appeared[t][f][p] = 0 THEN now + 1
                                                    ELSE appeared[t][f][p]] \in [Patch -> 0..MaxNow]
      <4>1. appeared[t][f] \in [Patch -> 0..MaxNow]
        BY DEF LedgerTyped
      <4>2. 0 \in 0..MaxNow /\ now + 1 \in 0..MaxNow
        BY <2>1, LedgerAssumption
      <4> QED BY <4>1, <4>2
    <3> QED BY <2>2, <3>1 DEF LedgerTyped
  <2>5. owed' \in [LedgerTenant -> [Family -> [Patch -> 0..MaxNow]]]
    <3>1. [p \in Patch |-> IF p \in left THEN owed[t][f][p] ELSE 0] \in [Patch -> 0..MaxNow]
      BY LedgerAssumption DEF LedgerTyped
    <3> QED BY <2>2, <3>1 DEF LedgerTyped
  <2>6. LedgerTyped'
    BY <2>1, <2>3, <2>4, <2>5 DEF LedgerTyped
  <2> QED BY <2>3, <2>6 DEF OneTenantAtATime, CommitsAlone, ReadIsTheFile, Mirrored, Mirrors
<1>2. CASE Restarts
  <2>1. LedgerTyped'
    BY <1>2, NoneAreTyped DEF Restarts, LedgerTyped
  <2> QED BY <1>2, <2>1, NoneAreTyped, LedgerAssumption
          DEF Restarts, OneTenantAtATime, CommitsAlone, ReadIsTheFile, Mirrored, AtWork
<1>3. ASSUME NEW t \in LedgerTenant, LosesFile(t) PROVE MirrorInv'
  <2>1. /\ ledger' = [ledger EXCEPT ![t] = NoLedger] /\ slot.tenant # t
        /\ \A s \in Run : observing[s].pc # "idle" => observing[s].tenant # t
        /\ UNCHANGED <<slot, observing, committer, newest, now, appeared>>
    BY <1>3 DEF LosesFile, Open
  <2>2. owed' \in [LedgerTenant -> [Family -> [Patch -> 0..MaxNow]]]
    <3>1. [f \in Family |-> [p \in Patch |-> 0]] \in [Family -> [Patch -> 0..MaxNow]]
      BY LedgerAssumption
    <3> QED BY <1>3, <3>1 DEF LosesFile, LedgerTyped
  <2>3. LedgerTyped'
    BY <2>1, <2>2, NoneAreTyped DEF LedgerTyped
  <2>4. \A u \in LedgerTenant \ {t} : ledger'[u] = ledger[u]
    BY <2>1 DEF LedgerTyped
  <2>5. OneTenantAtATime' /\ CommitsAlone'
    BY <2>1 DEF OneTenantAtATime, CommitsAlone
  <2>6. ReadIsTheFile'
    BY <2>1, <2>4 DEF ReadIsTheFile, OneTenantAtATime
  <2>7. Mirrored'
    BY <2>1, <2>4 DEF Mirrored, Mirrors, OneTenantAtATime, LedgerTyped, SlotType
  <2> QED BY <2>3, <2>5, <2>6, <2>7
<1>4. CASE UNCHANGED ledgerVars
  BY <1>4 DEF ledgerVars, LedgerTyped, OneTenantAtATime, CommitsAlone, ReadIsTheFile, Mirrored, Mirrors
<1> QED BY <1>1, <1>2, <1>3, <1>4

LEMMA OwedIsTyped ==
    ASSUME MirrorInv, NEW r \in Run, Publishes(r)
    PROVE  owed' \in [LedgerTenant -> [Family -> [Patch -> 0..MaxNow]]]
<1> DEFINE t == observing[r].tenant
           new == [f \in Family |-> Owed(owed[t][f], appeared[t][f], Latest(t)[f],
                        observing[r].held[f], observing[r].feed[f], observing[r].at)]
<1>1. t \in LedgerTenant /\ observing[r].at \in 0..MaxNow
  BY DEF MirrorInv, Publishes, OneTenantAtATime, LedgerTyped, RunType
<1>2. ASSUME NEW f \in Family PROVE new[f] \in [Patch -> 0..MaxNow]
  <2>1. owed[t][f] \in [Patch -> 0..MaxNow] /\ 0 \in 0..MaxNow
    BY <1>1, LedgerAssumption DEF MirrorInv, LedgerTyped
  <2> QED BY <1>1, <2>1 DEF Owed
<1>3. owed' = [owed EXCEPT ![t] = new]
  BY <1>1 DEF Publishes, MirrorInv, LedgerTyped
<1>4. new \in [Family -> [Patch -> 0..MaxNow]]
  <2>1. new = [f \in Family |-> new[f]]
    OBVIOUS
  <2> HIDE DEF new
  <2> QED BY <1>2, <2>1
<1> HIDE DEF new
<1> QED BY <1>3, <1>4 DEF MirrorInv, LedgerTyped

LEMMA MirrorSteps == MirrorInv /\ ~SwitchesMidRun /\ [LedgerNext]_ledgerVars => MirrorInv'
<1> SUFFICES ASSUME MirrorInv, ~SwitchesMidRun, [LedgerNext]_ledgerVars PROVE MirrorInv'
  OBVIOUS
<1>1. ASSUME NEW r \in Run, NEW t \in LedgerTenant, Looks(r, t) PROVE MirrorInv'
  BY <1>1, LooksMirrors
<1>2. ASSUME NEW r \in Run, Keeps(r) PROVE MirrorInv'
  BY <1>2, KeepsMirrors
<1>3. ASSUME NEW r \in Run, Fetches(r) PROVE MirrorInv'
  BY <1>3, FetchesMirrors
<1>4. ASSUME NEW r \in Run, Commits(r) PROVE MirrorInv'
  BY <1>4, CommitsMirrors
<1>5. ASSUME NEW r \in Run, Saves(r) PROVE MirrorInv'
  BY <1>5, SavesMirrors
<1>6. ASSUME NEW r \in Run, Publishes(r) PROVE MirrorInv'
  BY <1>6, OwedIsTyped, PublishesMirrors
<1>7. CASE \/ FleetChanges \/ Restarts \/ (\E t \in LedgerTenant : LosesFile(t)) \/ UNCHANGED ledgerVars
  BY <1>7, RestMirrors
<1> QED BY <1>1, <1>2, <1>3, <1>4, <1>5, <1>6, <1>7 DEF LedgerNext, Commit

\* Where the queries of two tenants do not overlap, a restart loses no date, whatever
\* fails to be written: memory mirrors disk.
THEOREM LedgerMirrors == ~SwitchesMidRun => (LedgerSpec => []MemoryMirrorsDisk)
<1> SUFFICES ASSUME ~SwitchesMidRun PROVE LedgerSpec => []MemoryMirrorsDisk
  OBVIOUS
<1>1. MirrorInv /\ [LedgerNext]_ledgerVars => MirrorInv'
  BY MirrorSteps
<1>2. MirrorInv => MemoryMirrorsDisk
  BY LedgerAssumption DEF MirrorInv, MemoryMirrorsDisk, Mirrored, Mirrors, CommitsAlone
<1> QED BY MirrorInits, <1>1, <1>2, PTL DEF LedgerSpec

-----------------------------------------------------------------------------
(* The ledger's dates.                                                     *)

KeepsOwed(section, due) == \A p \in Patch : due[p] # 0 => section.first[p] \in 1..due[p]

\* What is owed is kept in memory and on disk, and in the record that a commit holds.
OwedIsKept ==
    /\ \A t \in LedgerTenant, f \in Family :
         /\ \A p \in Patch : owed[t][f][p] # 0 => appeared[t][f][p] \in 1..owed[t][f][p]
         /\ KeepsOwed(ledger[t][f], owed[t][f])
         /\ slot.tenant = t => KeepsOwed(slot.ledger[f], owed[t][f])
    /\ \A r \in Run, f \in Family :
         observing[r].pc \in {"saving", "publishing"}
           => KeepsOwed(observing[r].held[f], owed[observing[r].tenant][f])

\* What a query asked for and did not see, on a device that was there, was not pending
\* then; and if it is owed a date now, a later observation has been merged.
Unseen(r, f) == Patch \ (observing[r].feed[f] \union observing[r].offline)

SeenIsDated ==
    \A r \in Run : observing[r].pc \in {"stored", "saving", "publishing"} =>
        /\ observing[r].at <= now
        /\ \A f \in observing[r].asked : \A p \in Unseen(r, f) :
             LET a == appeared[observing[r].tenant][f][p]
             IN  a = 0 \/ a > observing[r].at

LateIsNotMerged ==
    \A r \in Run : observing[r].pc = "stored" =>
        \A f \in observing[r].asked : \A p \in Unseen(r, f) :
            owed[observing[r].tenant][f][p] # 0 => slot.ledger[f].mergedAt >= observing[r].at

\* No record has a date later than its last merge, or more entries than the cap.
SoundRecord(section) ==
    /\ \A p \in Patch : section.first[p] <= section.mergedAt
    /\ Cardinality(Recorded(section)) <= MaxEntries

RecordsAreSound ==
    /\ \A f \in Family : SoundRecord(slot.ledger[f])
    /\ \A t \in LedgerTenant, f \in Family : SoundRecord(ledger[t][f])
    /\ \A r \in Run, f \in Family : SoundRecord(observing[r].held[f])

\* Others have taken all the room, with dates no later than that.
Crowded(section, p, date) == Cardinality({q \in Patch \ {p} : section.first[q] \in 1..date}) = MaxEntries

\* The record a commit holds is no older than that in memory, and has what it merged as far
\* as there is room.
HeldIsMerged ==
    \A r \in Run, f \in Family : observing[r].pc \in {"saving", "publishing"} =>
        /\ observing[r].held[f].mergedAt >= slot.ledger[f].mergedAt
        /\ observing[r].held[f].mergedAt = observing[r].at /\ slot.ledger[f].mergedAt < observing[r].at
             => \A p \in observing[r].feed[f] : \/ observing[r].held[f].first[p] \in 1..observing[r].at
                                               \/ Crowded(observing[r].held[f], p, observing[r].at)

DateInv == OwedIsKept /\ SeenIsDated /\ LateIsNotMerged /\ RecordsAreSound /\ HeldIsMerged

\* The elements of a finite set that have fewer than n before them, in a strict order:
\* n of them, or all.
LEMMA FirstOfOrder ==
    ASSUME NEW S, IsFiniteSet(S), NEW L \in [S -> SUBSET S], NEW n \in Nat,
           \A p \in S : p \notin L[p],
           \A p, q \in S : p # q => p \in L[q] \/ q \in L[p],
           \A p, q \in S : q \in L[p] => L[q] \subseteq L[p]
    PROVE  LET first == {p \in S : Cardinality(L[p]) < n}
           IN  IsFiniteSet(first) /\ Cardinality(first) <= n /\ (first = S \/ Cardinality(first) = n)
<1> DEFINE N == Cardinality(S)
           R == [p \in S |-> Cardinality(L[p])]
           first == {p \in S : Cardinality(L[p]) < n}
           R0 == [p \in first |-> Cardinality(L[p])]
<1>1. N \in Nat
  BY FS_CardinalityType
<1>2. \A p \in S : IsFiniteSet(L[p]) /\ Cardinality(L[p]) \in 0..N-1
  <2> TAKE p \in S
  <2>1. IsFiniteSet(L[p]) /\ Cardinality(L[p]) <= N /\ (N = Cardinality(L[p]) => S = L[p])
    BY FS_Subset
  <2>2. Cardinality(L[p]) \in Nat /\ Cardinality(L[p]) # N
    BY <2>1, FS_CardinalityType
  <2> QED BY <1>1, <2>1, <2>2
<1>3. \A p, q \in S : q \in L[p] => Cardinality(L[q]) # Cardinality(L[p])
  <2> SUFFICES ASSUME NEW p \in S, NEW q \in S, q \in L[p] PROVE Cardinality(L[q]) # Cardinality(L[p])
    OBVIOUS
  <2>1. L[q] \in SUBSET L[p] /\ L[q] # L[p]
    OBVIOUS
  <2> QED BY <1>2, <2>1, FS_Subset
<1>4. \A p, q \in S : Cardinality(L[p]) = Cardinality(L[q]) => p = q
  BY <1>3
<1>5. R \in Injection(S, 0..N-1)
  BY <1>2, <1>4 DEF Injection, IsInjective
<1>6. IsFiniteSet(0..N-1) /\ Cardinality(0..N-1) = N
  BY ONLY <1>1, FS_Interval, SMTT(30)
<1>7. R \in Surjection(S, 0..N-1)
  BY <1>5, <1>6, FS_Injection
<1>8. first \in SUBSET S /\ IsFiniteSet(first)
  BY FS_Subset
<1>9. IsFiniteSet(0..n-1) /\ Cardinality(0..n-1) = n
  BY FS_Interval
<1>10. R0 \in Injection(first, 0..n-1)
  BY <1>2, <1>4 DEF Injection, IsInjective
<1>11. Cardinality(first) <= n /\ (Cardinality(first) = n <=> R0 \in Surjection(first, 0..n-1))
  BY <1>9, <1>10, FS_Injection
<1>12. ASSUME first # S PROVE R0 \in Surjection(first, 0..n-1)
  <2>1. PICK p \in S : ~(Cardinality(L[p]) < n)
    BY <1>12
  <2>2. n <= N
    BY <1>1, <1>2, <2>1
  <2>3. \A i \in 0..n-1 : i \in 0..N-1 /\ i < n
    BY <1>1, <2>2
  <2>4. \A i \in 0..N-1 : \E q \in S : R[q] = i
    <3> HIDE DEF R, N
    <3> QED BY <1>7 DEF Surjection
  <2>5. \A q \in S : R[q] = Cardinality(L[q])
    OBVIOUS
  <2>6. ASSUME NEW i \in 0..n-1 PROVE \E q \in first : R0[q] = i
    <3>1. PICK q \in S : R[q] = i
      BY <2>3, <2>4
    <3>2. Cardinality(L[q]) = i /\ i < n
      BY <2>3, <2>5, <3>1
    <3> QED BY <3>2
  <2> HIDE DEF R0, first
  <2> QED BY <1>10, <2>6 DEF Injection, Surjection
<1> QED BY <1>8, <1>11, <1>12

\* What the cap leaves is a record it does not reach, or a full one.
LEMMA CapFills ==
    ASSUME NEW first \in [Patch -> 0..MaxNow]
    PROVE  LET left == {p \in Patch : CappedLedger(first)[p] # 0}
           IN  /\ Cardinality(left) <= MaxEntries
               /\ Cardinality(left) = MaxEntries \/ \A p \in Patch : CappedLedger(first)[p] = first[p]
<1> DEFINE S == {p \in Patch : first[p] # 0}
           L == [p \in S |-> {q \in S : first[q] < first[p] \/ (first[q] = first[p] /\ q < p)}]
           Before(p) == {q \in Patch : first[q] # 0 /\ (first[q] < first[p] \/ (first[q] = first[p] /\ q < p))}
           left == {p \in Patch : CappedLedger(first)[p] # 0}
           old == {p \in S : Cardinality(L[p]) < MaxEntries}
<1>1. IsFiniteSet(S) /\ \A p \in Patch : p \in Nat /\ first[p] \in Nat
  BY LedgerAssumption, FS_Subset
<1>2. L \in [S -> SUBSET S] /\ \A p \in S : L[p] = Before(p)
  OBVIOUS
<1>3. \A p \in S : p \notin L[p]
  BY <1>1
<1>4. \A p, q \in S : p # q => p \in L[q] \/ q \in L[p]
  BY <1>1
<1>5. \A p, q \in S : q \in L[p] => L[q] \subseteq L[p]
  BY <1>1
<1>6. CappedLedger(first) = [p \in Patch |-> IF Cardinality(Before(p)) < MaxEntries THEN first[p] ELSE 0]
  BY DEF CappedLedger
<1>7. left = old
  <2> HIDE DEF L, Before
  <2>1. \A p \in Patch : CappedLedger(first)[p] = IF Cardinality(Before(p)) < MaxEntries THEN first[p] ELSE 0
    BY <1>6
  <2> QED BY <1>2, <2>1
<1> HIDE DEF L, Before, left
<1>8. Cardinality(old) <= MaxEntries /\ (old = S \/ Cardinality(old) = MaxEntries)
  <2>1. MaxEntries \in Nat
    BY LedgerAssumption
  <2> HIDE DEF S
  <2> QED BY <1>1, <1>2, <1>3, <1>4, <1>5, <2>1, FirstOfOrder
<1>9. left = S => \A p \in Patch : CappedLedger(first)[p] = first[p]
  BY <1>6 DEF left
<1> QED BY <1>7, <1>8, <1>9 DEF left

\* An entry among no more than the cap allows is not dropped.
LEMMA CapSpares ==
    ASSUME NEW first \in [Patch -> 0..MaxNow], NEW S \in SUBSET Patch, Cardinality(S) <= MaxEntries,
           NEW p \in S, \A q \in Patch : first[q] # 0 /\ first[q] <= first[p] => q \in S
    PROVE  CappedLedger(first)[p] = first[p]
<1> DEFINE before == {q \in Patch : first[q] # 0 /\ (first[q] < first[p] \/ (first[q] = first[p] /\ q < p))}
<1>1. \A q \in Patch : q \in Nat /\ first[q] \in Nat
  BY LedgerAssumption
<1>2. before \in SUBSET (S \ {p})
  BY <1>1
<1>3. IsFiniteSet(S)
  BY LedgerAssumption, FS_Subset
<1>4. IsFiniteSet(S \ {p}) /\ Cardinality(S \ {p}) = Cardinality(S) - 1
  BY <1>3, FS_RemoveElement
<1>5. CappedLedger(first)[p] = IF Cardinality(before) < MaxEntries THEN first[p] ELSE 0
  BY DEF CappedLedger
<1> HIDE DEF before
<1>6. Cardinality(before) <= Cardinality(S \ {p}) /\ IsFiniteSet(before)
  BY <1>2, <1>4, FS_Subset
<1>7. Cardinality(before) \in Nat /\ Cardinality(S) \in Nat /\ MaxEntries \in Nat
  BY <1>3, <1>6, FS_CardinalityType, LedgerAssumption
<1> QED BY <1>4, <1>5, <1>6, <1>7

\* A merge keeps the date of what was dated and is still there, and dates what is new as
\* far as there is room: what it adds is later than all that it has.
LEMMA RebuiltKeeps ==
    ASSUME NEW prev \in Section, SoundRecord(prev), NEW at \in 0..MaxNow, prev.mergedAt < at,
           NEW feed \in SUBSET Patch, NEW offline
    PROVE  LET next == Rebuilt(prev, feed, at, offline)
           IN  /\ SoundRecord(next)
               /\ \A p \in Patch : prev.first[p] # 0 /\ p \in feed \union offline => next.first[p] = prev.first[p]
               /\ \A p \in feed : next.first[p] \in 1..at \/ Crowded(next, p, at)
<1> DEFINE stays == [q \in Patch |-> CASE q \in feed /\ prev.first[q] = 0 -> at
                                      [] q \notin feed \union offline    -> 0
                                      [] OTHER                           -> prev.first[q]]
           next == Rebuilt(prev, feed, at, offline)
<1>1. /\ at \in Nat /\ prev.mergedAt \in Nat /\ at # 0
      /\ \A p \in Patch : prev.first[p] \in Nat /\ prev.first[p] <= prev.mergedAt
  BY LedgerAssumption DEF Section, SoundRecord
<1>2. stays \in [Patch -> 0..MaxNow] /\ \A p \in Patch : stays[p] \in 0..at
  BY <1>1, LedgerAssumption DEF Section
<1>3. \A p \in Patch : prev.first[p] # 0 /\ p \in feed \union offline => stays[p] = prev.first[p]
  OBVIOUS
<1>4. \A p \in feed : stays[p] \in 1..at
  BY <1>1
<1>5. \A p \in Patch : stays[p] # 0 /\ stays[p] < at => prev.first[p] # 0
  OBVIOUS
<1>6. next.first = CappedLedger(stays) /\ next.mergedAt = at
  BY DEF Rebuilt
<1> HIDE DEF stays, next
<1>7. \A p \in Patch : next.first[p] \in {0, stays[p]}
  BY <1>6, CapKeepsOrDrops
<1>8. PICK left : left = {p \in Patch : next.first[p] # 0}
  OBVIOUS
<1>9. Cardinality(left) <= MaxEntries /\ (Cardinality(left) = MaxEntries \/ \A p \in Patch : next.first[p] = stays[p])
  BY <1>2, <1>6, <1>8, CapFills
<1>10. SoundRecord(next)
  BY <1>2, <1>6, <1>7, <1>8, <1>9, <1>1 DEF SoundRecord, Recorded
<1>11. ASSUME NEW p \in Patch, prev.first[p] # 0, p \in feed \union offline PROVE next.first[p] = prev.first[p]
  <2>1. stays[p] = prev.first[p] /\ stays[p] < at
    BY <1>1, <1>3, <1>11
  <2>2. p \in Recorded(prev) /\ Recorded(prev) \in SUBSET Patch /\ Cardinality(Recorded(prev)) <= MaxEntries
    BY <1>11 DEF Recorded, SoundRecord
  <2>3. \A q \in Patch : stays[q] # 0 /\ stays[q] <= stays[p] => q \in Recorded(prev)
    BY <1>1, <1>2, <1>5, <2>1 DEF Recorded
  <2>4. CappedLedger(stays)[p] = stays[p]
    BY <1>2, <2>2, <2>3, CapSpares
  <2> QED BY <1>6, <2>1, <2>4
<1>12. ASSUME NEW p \in feed PROVE next.first[p] \in 1..at \/ Crowded(next, p, at)
  <2>1. CASE next.first[p] = stays[p]
    BY <1>4, <2>1
  <2>2. CASE next.first[p] # stays[p]
    <3>1. next.first[p] = 0 /\ Cardinality(left) = MaxEntries
      BY <1>7, <1>9, <2>2
    <3>2. left = {q \in Patch \ {p} : next.first[q] \in 1..at}
      BY <1>1, <1>2, <1>7, <1>8, <3>1
    <3> QED BY <3>1, <3>2 DEF Crowded
  <2> QED BY <2>1, <2>2
<1> QED BY <1>10, <1>11, <1>12 DEF next

LEMMA OwedIs ==
    ASSUME NEW was, NEW since, NEW prev, NEW section, NEW feed, NEW at, NEW p \in Patch
    PROVE  LET due == IF /\ was[p] = 0 /\ p \in feed
                         /\ prev.mergedAt < at /\ section.mergedAt = at
                         /\ since[p] \in 1..at
                      THEN at ELSE was[p]
           IN  Owed(was, since, prev, section, feed, at)[p] = IF Crowded(section, p, due) THEN 0 ELSE due
  BY DEF Owed, Crowded

LEMMA NoneAreDated == \A f \in Family : SoundRecord(NoLedger[f]) /\ SoundRecord(NoRun.held[f])
<1>1. Recorded(NoSection) = {} /\ \A p \in Patch : NoSection.first[p] = 0
  BY DEF NoSection, Recorded
<1>2. Cardinality(Recorded(NoSection)) <= MaxEntries
  BY <1>1, FS_EmptySet, LedgerAssumption
<1>3. SoundRecord(NoSection)
  BY <1>1, <1>2, LedgerAssumption DEF SoundRecord, NoSection
<1> QED BY <1>3 DEF NoLedger, NoRun

LEMMA DateInits == LedgerInit => DateInv
<1> SUFFICES ASSUME LedgerInit PROVE DateInv
  OBVIOUS
<1> USE NoneAreTyped, NoneAreDated DEF LedgerInit
<1>1. OwedIsKept
  BY DEF OwedIsKept, KeepsOwed
<1>2. SeenIsDated /\ LateIsNotMerged /\ HeldIsMerged
  BY DEF SeenIsDated, LateIsNotMerged, HeldIsMerged
<1>3. RecordsAreSound
  BY DEF RecordsAreSound, EmptySlot
<1> QED BY <1>1, <1>2, <1>3 DEF DateInv

\* A query that begins, goes on to fetch or ends without touching a record.
LEMMA OtherwiseDated ==
    ASSUME MirrorInv, DateInv, NEW r \in Run, NEW x \in RunType, observing' = [observing EXCEPT ![r] = x],
           UNCHANGED <<slot, ledger, now, appeared, owed>>, x.pc \in {"idle", "loading", "fetching"},
           \A f \in Family : SoundRecord(x.held[f])
    PROVE  DateInv'
<1> USE DEF DateInv
<1>1. observing'[r] = x /\ \A s \in Run \ {r} : observing'[s] = observing[s]
  BY DEF MirrorInv, LedgerTyped
<1>2. OwedIsKept'
  BY <1>1 DEF OwedIsKept, KeepsOwed
<1>3. SeenIsDated' /\ LateIsNotMerged'
  BY <1>1 DEF SeenIsDated, LateIsNotMerged, Unseen
<1>4. RecordsAreSound'
  BY <1>1 DEF RecordsAreSound, SoundRecord
<1>5. HeldIsMerged'
  BY <1>1 DEF HeldIsMerged
<1> QED BY <1>2, <1>3, <1>4, <1>5

LEMMA LooksDated ==
    ASSUME MirrorInv, DateInv, NEW r \in Run, NEW t \in LedgerTenant, Looks(r, t)
    PROVE  DateInv'
<1> USE NoneAreTyped
<1> DEFINE x == IF slot.tenant = t THEN [NoRun EXCEPT !.pc = "fetching", !.tenant = t]
                ELSE [NoRun EXCEPT !.pc = "loading", !.tenant = t, !.held = ledger[t]]
<1>1. x \in RunType /\ x.pc \in {"fetching", "loading"} /\ (x.held = NoLedger \/ x.held = ledger[t])
  BY DEF RunType, NoRun, MirrorInv, LedgerTyped
<1>2. observing' = [observing EXCEPT ![r] = x]
  BY DEF Looks
<1> HIDE DEF x
<1>3. \A f \in Family : SoundRecord(x.held[f])
  BY <1>1, NoneAreDated DEF DateInv, RecordsAreSound
<1> QED BY <1>1, <1>2, <1>3, OtherwiseDated DEF Looks

LEMMA KeepsDated ==
    ASSUME MirrorInv, DateInv, NEW r \in Run, Keeps(r)
    PROVE  DateInv'
<1> USE DEF DateInv
<1> DEFINE t == observing[r].tenant
           x == [observing[r] EXCEPT !.pc = "fetching", !.held = NoLedger]
<1>1. observing[r].pc = "loading" /\ t \in LedgerTenant
  BY DEF Keeps, MirrorInv, OneTenantAtATime
<1>2. x \in RunType /\ x.pc = "fetching" /\ x.held = NoLedger
  BY NoneAreTyped DEF RunType, MirrorInv, LedgerTyped
<1>3. observing' = [observing EXCEPT ![r] = x] /\ UNCHANGED <<ledger, now, appeared, owed>>
  BY DEF Keeps
<1> HIDE DEF x
<1>4. observing'[r] = x /\ \A s \in Run \ {r} : observing'[s] = observing[s]
  BY <1>3 DEF MirrorInv, LedgerTyped
<1>5. CASE slot' = slot
  BY <1>2, <1>3, <1>5, NoneAreDated, OtherwiseDated
<1>6. CASE slot.tenant # t /\ slot' = [tenant |-> t, ledger |-> ledger[t]]
  <2>1. \A s \in Run : observing'[s].pc \notin {"stored", "saving", "publishing"}
    BY <1>1, <1>2, <1>4, <1>6 DEF MirrorInv, OneTenantAtATime, AtWork
  <2>2. OwedIsKept'
    BY <1>3, <1>6, <2>1 DEF OwedIsKept, KeepsOwed
  <2>3. SeenIsDated' /\ LateIsNotMerged' /\ HeldIsMerged'
    BY <2>1 DEF SeenIsDated, LateIsNotMerged, HeldIsMerged
  <2>4. RecordsAreSound'
    BY <1>1, <1>2, <1>3, <1>4, <1>6, NoneAreDated DEF RecordsAreSound, SoundRecord
  <2> QED BY <2>2, <2>3, <2>4
<1>7. slot' = slot \/ (slot.tenant # t /\ slot' = [tenant |-> t, ledger |-> ledger[t]])
  BY <1>1 DEF Keeps, MirrorInv, ReadIsTheFile
<1> QED BY <1>5, <1>6, <1>7

LEMMA FetchesDated ==
    ASSUME MirrorInv, DateInv, NEW r \in Run, Fetches(r)
    PROVE  DateInv'
<1> USE DEF DateInv
<1>1. PICK asked \in (SUBSET Family) \ {{}}, offline \in SUBSET Patch :
        observing' = [observing EXCEPT ![r] =
           IF newest # r THEN NoRun
           ELSE [@ EXCEPT !.pc = "stored", !.at = now, !.asked = asked, !.offline = offline,
                          !.feed = [f \in Family |-> IF f \in asked
                                      THEN Pending(observing[r].tenant, f) \ offline ELSE {}]]]
  BY DEF Fetches
<1> DEFINE t == observing[r].tenant
           feed == [f \in Family |-> IF f \in asked THEN Pending(t, f) \ offline ELSE {}]
           y == [observing[r] EXCEPT !.pc = "stored", !.at = now, !.asked = asked,
                                     !.offline = offline, !.feed = feed]
<1>2. /\ observing[r].pc = "fetching" /\ observing[r] \in RunType /\ t \in LedgerTenant
      /\ UNCHANGED <<slot, ledger, now, appeared, owed>>
  BY DEF Fetches, MirrorInv, LedgerTyped, OneTenantAtATime
<1>3. CASE observing' = [observing EXCEPT ![r] = NoRun]
  BY <1>2, <1>3, NoneAreTyped, NoneAreDated, OtherwiseDated
<1>4. CASE observing' = [observing EXCEPT ![r] = y]
  <2>1. /\ y.pc = "stored" /\ y.at = now /\ y.asked = asked /\ y.offline = offline /\ y.feed = feed
        /\ y.tenant = t /\ y.held = observing[r].held
    <3> HIDE DEF feed
    <3> QED BY <1>2 DEF RunType
  <2>2. observing'[r] = y /\ \A s \in Run \ {r} : observing'[s] = observing[s]
    BY <1>4 DEF MirrorInv, LedgerTyped
  <2>3. now \in Nat /\ \A f \in asked : \A p \in Patch \ (feed[f] \union offline) : appeared[t][f][p] = 0
    BY <1>2 DEF Pending, MirrorInv, LedgerTyped
  <2> HIDE DEF y, feed
  <2>4. OwedIsKept'
    BY <1>2, <2>1, <2>2 DEF OwedIsKept, KeepsOwed
  <2>5. SeenIsDated'
    <3> SUFFICES ASSUME NEW s \in Run, observing'[s].pc \in {"stored", "saving", "publishing"}
                 PROVE  /\ observing'[s].at <= now
                        /\ \A f \in observing'[s].asked : \A p \in Unseen(s, f)' :
                              \/ appeared[observing'[s].tenant][f][p] = 0
                              \/ appeared[observing'[s].tenant][f][p] > observing'[s].at
      BY <1>2 DEF SeenIsDated
    <3>1. CASE s = r
      BY <2>1, <2>2, <2>3, <3>1 DEF Unseen
    <3>2. CASE s # r
      BY <2>2, <3>2 DEF SeenIsDated, Unseen
    <3> QED BY <3>1, <3>2
  <2>6. LateIsNotMerged'
    <3> SUFFICES ASSUME NEW s \in Run, observing'[s].pc = "stored",
                        NEW f \in observing'[s].asked, NEW p \in Unseen(s, f)',
                        owed[observing'[s].tenant][f][p] # 0
                 PROVE  slot.ledger[f].mergedAt >= observing'[s].at
      BY <1>2 DEF LateIsNotMerged
    <3>1. CASE s = r
      <4>1. f \in Family /\ p \in Patch /\ appeared[t][f][p] = 0 /\ owed[t][f][p] # 0
        BY <2>1, <2>2, <2>3, <3>1 DEF Unseen
      <4> QED BY <1>2, <4>1 DEF OwedIsKept, MirrorInv, LedgerTyped
    <3>2. CASE s # r
      BY <2>2, <3>2 DEF LateIsNotMerged, Unseen
    <3> QED BY <3>1, <3>2
  <2>7. RecordsAreSound'
    BY <1>2, <2>1, <2>2 DEF RecordsAreSound, SoundRecord
  <2>8. HeldIsMerged'
    BY <1>2, <2>1, <2>2 DEF HeldIsMerged
  <2> QED BY <2>4, <2>5, <2>6, <2>7, <2>8
<1> QED BY <1>1, <1>3, <1>4

\* What a merge does to each of the record's families.
LEMMA MergedIsDated ==
    ASSUME MirrorInv, DateInv, NEW r \in Run, observing[r].pc = "stored", NEW f \in Family
    PROVE  LET t    == observing[r].tenant
               next == MergedInto(r, slot.ledger)[f]
           IN  /\ KeepsOwed(next, owed[t][f]) /\ SoundRecord(next)
               /\ next.mergedAt >= slot.ledger[f].mergedAt
               /\ next.mergedAt = observing[r].at /\ slot.ledger[f].mergedAt < observing[r].at
                    => \A p \in observing[r].feed[f] : \/ next.first[p] \in 1..observing[r].at
                                                      \/ Crowded(next, p, observing[r].at)
<1> DEFINE t == observing[r].tenant
           prev == slot.ledger[f]
           feed == observing[r].feed[f]
           at == observing[r].at
           offline == observing[r].offline
           next == MergedInto(r, slot.ledger)[f]
<1>1. /\ slot.tenant = t /\ t \in LedgerTenant /\ prev \in Section /\ at \in 0..MaxNow
      /\ feed \subseteq Patch /\ owed[t][f] \in [Patch -> 0..MaxNow]
      /\ prev.mergedAt \in Nat /\ at \in Nat /\ \A p \in Patch : prev.first[p] \in Nat
  BY LedgerAssumption DEF MirrorInv, OneTenantAtATime, LedgerTyped, RunType, SlotType, AtWork, Section
<1>2. KeepsOwed(prev, owed[t][f]) /\ SoundRecord(prev)
  BY <1>1 DEF DateInv, OwedIsKept, RecordsAreSound
<1>3. CASE f \in observing[r].asked /\ Merges(prev, feed, at)
  <2>1. next = Rebuilt(prev, feed, at, offline) /\ prev.mergedAt < at
    BY <1>3 DEF MergedInto, Merges
  <2>2. next.mergedAt = at
    BY <2>1, <1>1, RebuiltIsTyped
  <2>3. /\ SoundRecord(next)
        /\ \A p \in Patch : prev.first[p] # 0 /\ p \in feed \union offline => next.first[p] = prev.first[p]
        /\ \A p \in feed : next.first[p] \in 1..at \/ Crowded(next, p, at)
    <3> HIDE DEF t, prev, feed, at, offline, next
    <3>1. prev.mergedAt < at /\ feed \in SUBSET Patch /\ prev \in Section /\ SoundRecord(prev) /\ at \in 0..MaxNow
      BY <1>1, <1>2, <2>1
    <3> QED BY <2>1, <3>1, RebuiltKeeps
  <2> HIDE DEF next
  <2>4. ASSUME NEW p \in Patch, owed[t][f][p] # 0 PROVE next.first[p] \in 1..owed[t][f][p]
    <3>1. prev.first[p] \in 1..owed[t][f][p]
      BY <1>2, <2>4 DEF KeepsOwed
    <3>2. p \in feed \union offline
      <4>1. CASE p \in Unseen(r, f)
        BY <1>1, <1>3, <2>1, <2>4, <4>1 DEF DateInv, LateIsNotMerged
      <4> QED BY <4>1 DEF Unseen
    <3> QED BY <1>1, <2>3, <3>1, <3>2
  <2> HIDE DEF t, prev, feed, at, offline
  <2>7. KeepsOwed(next, owed[t][f]) /\ SoundRecord(next) /\ next.mergedAt >= prev.mergedAt
    BY <1>1, <2>1, <2>2, <2>3, <2>4 DEF KeepsOwed
  <2> QED BY <2>3, <2>7 DEF t, prev, feed, at, offline, next
<1>4. CASE ~(f \in observing[r].asked /\ Merges(prev, feed, at))
  <2>1. next = prev
    BY <1>4 DEF MergedInto
  <2> HIDE DEF next
  <2>2. next.mergedAt >= prev.mergedAt /\ ~(next.mergedAt = at /\ prev.mergedAt < at)
    BY <1>1, <2>1
  <2> QED BY <1>2, <2>1, <2>2 DEF next
<1> QED BY <1>3, <1>4

LEMMA CommitsDated ==
    ASSUME MirrorInv, DateInv, NEW r \in Run, Commits(r)
    PROVE  DateInv'
<1> USE DEF DateInv
<1> DEFINE t == observing[r].tenant
           next == MergedInto(r, slot.ledger)
           pc == IF Changes(r, slot.ledger, next) THEN "saving" ELSE "publishing"
           y == [observing[r] EXCEPT !.held = next, !.pc = pc]
<1>1. /\ observing[r].pc = "stored" /\ slot.tenant = t /\ t \in LedgerTenant
      /\ UNCHANGED <<slot, ledger, newest, now, appeared, owed>> /\ observing[r] \in RunType
  BY DEF Commits, MirrorInv, OneTenantAtATime, AtWork, LedgerTyped
<1>2. Latest(t) = slot.ledger
  BY <1>1 DEF Latest
<1>3. CASE observing' = [observing EXCEPT ![r] = NoRun]
  BY <1>1, <1>3, NoneAreTyped, NoneAreDated, OtherwiseDated
<1>4. CASE observing' = [observing EXCEPT ![r] = y]
  <2>1. \A f \in Family :
          /\ KeepsOwed(next[f], owed[t][f]) /\ SoundRecord(next[f])
          /\ next[f].mergedAt >= slot.ledger[f].mergedAt
          /\ next[f].mergedAt = observing[r].at /\ slot.ledger[f].mergedAt < observing[r].at
               => \A p \in observing[r].feed[f] : \/ next[f].first[p] \in 1..observing[r].at
                                                 \/ Crowded(next[f], p, observing[r].at)
    <3> HIDE DEF next, DateInv
    <3> QED BY <1>1, MergedIsDated DEF next
  <2>2. /\ y.pc \in {"saving", "publishing"} /\ y.held = next /\ y.tenant = t
        /\ y.at = observing[r].at /\ y.feed = observing[r].feed
        /\ y.asked = observing[r].asked /\ y.offline = observing[r].offline
    <3>1. pc \in {"saving", "publishing"}
      OBVIOUS
    <3> HIDE DEF next, pc
    <3> QED BY <1>1, <3>1 DEF RunType
  <2>3. observing'[r] = y /\ \A s \in Run \ {r} : observing'[s] = observing[s]
    BY <1>4 DEF MirrorInv, LedgerTyped
  <2> HIDE DEF y, next
  <2>4. OwedIsKept'
    BY <1>1, <2>1, <2>2, <2>3, SMTT(30) DEF OwedIsKept, KeepsOwed
  <2>5. SeenIsDated' /\ LateIsNotMerged'
    BY <1>1, <2>2, <2>3 DEF SeenIsDated, LateIsNotMerged, Unseen
  <2>6. RecordsAreSound'
    BY <1>1, <2>1, <2>2, <2>3 DEF RecordsAreSound, SoundRecord
  <2>7. HeldIsMerged'
    BY <1>1, <2>1, <2>2, <2>3 DEF HeldIsMerged
  <2> QED BY <2>4, <2>5, <2>6, <2>7
<1> QED BY <1>2, <1>3, <1>4 DEF Commits

LEMMA SavesDated ==
    ASSUME MirrorInv, DateInv, NEW r \in Run, Saves(r)
    PROVE  DateInv'
<1> USE DEF DateInv
<1> DEFINE t == observing[r].tenant
           x == [observing[r] EXCEPT !.pc = "publishing"]
<1>1. /\ observing[r].pc = "saving" /\ t \in LedgerTenant /\ observing[r] \in RunType
      /\ UNCHANGED <<slot, newest, now, appeared, owed>>
  BY DEF Saves, MirrorInv, OneTenantAtATime, LedgerTyped
<1>2. CASE observing' = [observing EXCEPT ![r] = NoRun] /\ ledger' = ledger
  BY <1>1, <1>2, NoneAreTyped, NoneAreDated, OtherwiseDated
<1>3. CASE /\ ledger' = [ledger EXCEPT ![t] = observing[r].held]
           /\ observing' = [observing EXCEPT ![r] = x]
  <2>1. /\ x.tenant = t /\ x.pc = "publishing" /\ x.held = observing[r].held
        /\ x.at = observing[r].at /\ x.feed = observing[r].feed
        /\ x.asked = observing[r].asked /\ x.offline = observing[r].offline
    BY <1>1 DEF RunType
  <2> HIDE DEF x
  <2>2. observing'[r] = x /\ \A s \in Run \ {r} : observing'[s] = observing[s]
    BY <1>3 DEF MirrorInv, LedgerTyped
  <2>3. ledger'[t] = observing[r].held /\ \A u \in LedgerTenant \ {t} : ledger'[u] = ledger[u]
    BY <1>1, <1>3 DEF MirrorInv, LedgerTyped
  <2>4. OwedIsKept'
    BY <1>1, <2>1, <2>2, <2>3, SMTT(30) DEF OwedIsKept, KeepsOwed
  <2>5. SeenIsDated' /\ LateIsNotMerged'
    BY <1>1, <2>1, <2>2 DEF SeenIsDated, LateIsNotMerged, Unseen
  <2>6. RecordsAreSound'
    BY <1>1, <2>1, <2>2, <2>3 DEF RecordsAreSound, SoundRecord
  <2>7. HeldIsMerged'
    BY <1>1, <2>1, <2>2 DEF HeldIsMerged
  <2> QED BY <2>4, <2>5, <2>6, <2>7
<1> QED BY <1>1, <1>2, <1>3 DEF Saves

\* What is owed once the held record is in memory.
LEMMA OwedNext ==
    ASSUME MirrorInv, DateInv, NEW r \in Run, Publishes(r), NEW f \in Family, NEW p \in Patch
    PROVE  LET t == observing[r].tenant
               due == owed'[t][f][p]
           IN  /\ \A u \in LedgerTenant \ {t} : owed'[u] = owed[u]
               /\ \/ due \in {0, owed[t][f][p]}
                  \/ /\ due = observing[r].at /\ appeared[t][f][p] \in 1..due
                     /\ observing[r].held[f].mergedAt = due
                     /\ observing[r].held[f].first[p] \in 1..due
<1> DEFINE t == observing[r].tenant
           at == observing[r].at
           had == observing[r].held[f]
           feed == observing[r].feed[f]
           new == [g \in Family |-> Owed(owed[t][g], appeared[t][g], Latest(t)[g],
                        observing[r].held[g], observing[r].feed[g], observing[r].at)]
<1>1. /\ observing[r].pc = "publishing" /\ slot.tenant = t /\ t \in LedgerTenant
      /\ Latest(t) = slot.ledger
  BY DEF Publishes, MirrorInv, OneTenantAtATime, AtWork, Latest
<1>2. owed' = [owed EXCEPT ![t] = new]
  BY <1>1 DEF Publishes, MirrorInv, LedgerTyped
<1>3. owed'[t][f] = Owed(owed[t][f], appeared[t][f], slot.ledger[f], had, feed, at)
  BY <1>1, <1>2 DEF MirrorInv, LedgerTyped
<1>4. \A u \in LedgerTenant \ {t} : owed'[u] = owed[u]
  <2> HIDE DEF new
  <2> QED BY <1>2 DEF MirrorInv, LedgerTyped
<1> HIDE DEF new
<1>5. LET due == IF /\ owed[t][f][p] = 0 /\ p \in feed
                    /\ slot.ledger[f].mergedAt < at /\ had.mergedAt = at
                    /\ appeared[t][f][p] \in 1..at
                 THEN at ELSE owed[t][f][p]
      IN  owed'[t][f][p] = IF Crowded(had, p, due) THEN 0 ELSE due
  BY <1>3, OwedIs
<1>6. had.mergedAt = at /\ slot.ledger[f].mergedAt < at /\ p \in feed
        => had.first[p] \in 1..at \/ Crowded(had, p, at)
  BY <1>1 DEF DateInv, HeldIsMerged
<1> QED BY <1>4, <1>5, <1>6

LEMMA PublishesDated ==
    ASSUME MirrorInv, DateInv, NEW r \in Run, Publishes(r)
    PROVE  DateInv'
<1> DEFINE t == observing[r].tenant
           at == observing[r].at
           had == observing[r].held
<1>1. /\ observing[r].pc = "publishing" /\ slot.tenant = t /\ t \in LedgerTenant
      /\ observing[r] \in RunType /\ UNCHANGED <<ledger, newest, now, appeared>>
      /\ slot' = [tenant |-> t, ledger |-> had]
      /\ observing' = [observing EXCEPT ![r] = NoRun]
  BY DEF Publishes, MirrorInv, OneTenantAtATime, AtWork, LedgerTyped
<1>2. \A s \in Run \ {r} : observing[s].pc \notin {"saving", "publishing"}
  BY <1>1 DEF MirrorInv, CommitsAlone
<1>3. observing'[r] = NoRun /\ \A s \in Run \ {r} : observing'[s] = observing[s]
  BY <1>1 DEF MirrorInv, LedgerTyped
<1>4. \A f \in Family, p \in Patch :
         LET due == owed'[t][f][p]
         IN  /\ \A u \in LedgerTenant \ {t} : owed'[u] = owed[u]
             /\ \/ due \in {0, owed[t][f][p]}
                \/ /\ due = at /\ appeared[t][f][p] \in 1..due
                   /\ had[f].mergedAt = due /\ had[f].first[p] \in 1..due
  BY OwedNext
<1>5. \A f \in Family : had[f].first = ledger[t][f].first
  BY <1>1 DEF MirrorInv, Mirrored, Mirrors
<1>6. \A f \in Family : KeepsOwed(had[f], owed[t][f]) /\ had[f].mergedAt >= slot.ledger[f].mergedAt
  BY <1>1 DEF DateInv, OwedIsKept, HeldIsMerged
<1>7. \A f \in Family : KeepsOwed(had[f], owed'[t][f]) /\ KeepsOwed(ledger[t][f], owed'[t][f])
  BY <1>4, <1>5, <1>6 DEF KeepsOwed
<1>8. OwedIsKept'
  <2>1. ASSUME NEW u \in LedgerTenant, NEW f \in Family
        PROVE  /\ \A p \in Patch : owed'[u][f][p] # 0 => appeared[u][f][p] \in 1..owed'[u][f][p]
               /\ KeepsOwed(ledger[u][f], owed'[u][f])
               /\ slot'.tenant = u => KeepsOwed(slot'.ledger[f], owed'[u][f])
    <3>1. CASE u = t
      <4>1. \A p \in Patch : owed'[t][f][p] # 0 => appeared[t][f][p] \in 1..owed'[t][f][p]
        BY <1>1, <1>4 DEF DateInv, OwedIsKept
      <4> QED BY <1>1, <1>7, <3>1, <4>1
    <3>2. CASE u # t
      <4>1. ASSUME NEW p \in Patch PROVE owed'[u] = owed[u]
        BY <1>4, <3>2
      <4>2. \A p \in Patch : owed[u][f][p] # 0 =>
               appeared[u][f][p] \in 1..owed[u][f][p] /\ ledger[u][f].first[p] \in 1..owed[u][f][p]
        BY DEF DateInv, OwedIsKept, KeepsOwed
      <4> QED BY <1>1, <3>2, <4>1, <4>2 DEF KeepsOwed
    <3> QED BY <3>1, <3>2
  <2>2. \A s \in Run : observing'[s].pc \notin {"saving", "publishing"}
    BY <1>2, <1>3, NoneAreTyped
  <2> QED BY <1>1, <2>1, <2>2 DEF OwedIsKept, KeepsOwed
<1>9. SeenIsDated'
  BY <1>1, <1>3, NoneAreTyped DEF DateInv, SeenIsDated, Unseen
<1>10. LateIsNotMerged'
  <2> SUFFICES ASSUME NEW s \in Run, observing'[s].pc = "stored",
                      NEW f \in observing'[s].asked, NEW p \in Unseen(s, f)',
                      owed'[observing'[s].tenant][f][p] # 0
               PROVE  slot'.ledger[f].mergedAt >= observing'[s].at
    BY DEF LateIsNotMerged
  <2>1. /\ s # r /\ observing'[s] = observing[s] /\ observing[s].pc = "stored"
        /\ p \in Unseen(s, f) /\ f \in observing[s].asked
    BY <1>3, NoneAreTyped DEF Unseen
  <2>2. /\ observing[s].tenant = t /\ f \in Family /\ p \in Patch
        /\ observing[s].at \in Nat /\ slot.ledger[f].mergedAt \in Nat /\ had[f].mergedAt \in Nat
        /\ appeared[t][f][p] \in Nat
    <3>1. observing[s].tenant = t
      BY <1>1, <2>1 DEF MirrorInv, OneTenantAtATime
    <3>2. observing[s] \in RunType /\ 0..MaxNow \subseteq Nat
      BY LedgerAssumption DEF MirrorInv, LedgerTyped
    <3>3. f \in Family /\ p \in Patch /\ observing[s].at \in Nat
      BY <2>1, <3>2 DEF RunType, Unseen
    <3>4. slot.ledger[f] \in Section /\ had[f] \in Section
      BY <1>1, <3>3 DEF MirrorInv, LedgerTyped, RunType, SlotType
    <3>5. appeared[t][f][p] \in Nat
      BY <1>1, <3>2, <3>3 DEF MirrorInv, LedgerTyped
    <3> QED BY <3>1, <3>2, <3>3, <3>4, <3>5 DEF Section
  <2>3. had[f].mergedAt >= slot.ledger[f].mergedAt /\ slot'.ledger[f] = had[f]
    BY <1>1, <1>6, <2>2
  <2>4. CASE owed'[t][f][p] = owed[t][f][p]
    <3>1. slot.ledger[f].mergedAt >= observing[s].at
      BY <2>1, <2>2, <2>4 DEF DateInv, LateIsNotMerged
    <3> QED BY <2>1, <2>2, <2>3, <3>1
  <2>5. CASE /\ owed'[t][f][p] = at /\ appeared[t][f][p] \in 1..owed'[t][f][p]
             /\ had[f].mergedAt = owed'[t][f][p]
    <3>1. appeared[t][f][p] = 0 \/ appeared[t][f][p] > observing[s].at
      BY <2>1, <2>2 DEF DateInv, SeenIsDated
    <3>2. at \in Nat
      BY <1>1, LedgerAssumption DEF RunType
    <3> QED BY <2>1, <2>2, <2>3, <2>5, <3>1, <3>2
  <2>6. owed'[t][f][p] # 0
    BY <2>1, <2>2
  <2> QED BY <1>4, <2>2, <2>4, <2>5, <2>6
<1>11. RecordsAreSound'
  BY <1>1, <1>3, NoneAreDated DEF DateInv, RecordsAreSound, SoundRecord
<1>12. HeldIsMerged'
  BY <1>2, <1>3, NoneAreTyped DEF HeldIsMerged
<1> QED BY <1>8, <1>9, <1>10, <1>11, <1>12 DEF DateInv

LEMMA FleetChangesDated ==
    ASSUME MirrorInv, DateInv, FleetChanges
    PROVE  DateInv'
<1> USE DEF DateInv
<1>1. now \in Nat /\ now' = now + 1 /\ UNCHANGED <<slot, ledger, observing, committer, newest>>
  BY LedgerAssumption DEF FleetChanges, MirrorInv, LedgerTyped
<1>2. PICK t \in LedgerTenant, f \in Family, left \in SUBSET Patch :
         /\ appeared' = [appeared EXCEPT ![t][f] = [p \in Patch |->
              IF p \notin left THEN 0 ELSE IF @[p] = 0 THEN now + 1 ELSE @[p]]]
         /\ owed' = [owed EXCEPT ![t][f] = [p \in Patch |-> IF p \in left THEN @[p] ELSE 0]]
  BY DEF FleetChanges
<1>3. \A u \in LedgerTenant, g \in Family, p \in Patch :
         /\ \/ appeared'[u][g][p] = appeared[u][g][p]
            \/ appeared'[u][g][p] = 0 /\ owed'[u][g][p] = 0
            \/ appeared[u][g][p] = 0 /\ appeared'[u][g][p] = now + 1
         /\ owed'[u][g][p] \in {0, owed[u][g][p]}
         /\ appeared[u][g][p] \in Nat /\ owed[u][g][p] \in Nat
  BY <1>2, LedgerAssumption DEF MirrorInv, LedgerTyped
<1>4. OwedIsKept'
  <2>1. ASSUME NEW u \in LedgerTenant, NEW g \in Family, NEW p \in Patch, owed'[u][g][p] # 0
        PROVE  /\ appeared'[u][g][p] \in 1..owed'[u][g][p] /\ owed'[u][g][p] = owed[u][g][p]
               /\ ledger[u][g].first[p] \in 1..owed[u][g][p]
               /\ slot.tenant = u => slot.ledger[g].first[p] \in 1..owed[u][g][p]
    <3>1. owed'[u][g][p] = owed[u][g][p]
      BY <1>3, <2>1
    <3>2. /\ appeared[u][g][p] \in 1..owed[u][g][p] /\ ledger[u][g].first[p] \in 1..owed[u][g][p]
          /\ slot.tenant = u => slot.ledger[g].first[p] \in 1..owed[u][g][p]
      BY <2>1, <3>1 DEF OwedIsKept, KeepsOwed
    <3> QED BY <1>3, <2>1, <3>1, <3>2
  <2>2. ASSUME NEW r \in Run, NEW g \in Family, observing[r].pc \in {"saving", "publishing"},
               NEW p \in Patch, owed'[observing[r].tenant][g][p] # 0
        PROVE  observing[r].held[g].first[p] \in 1..owed'[observing[r].tenant][g][p]
    <3>1. observing[r].tenant \in LedgerTenant
      BY <2>2 DEF MirrorInv, OneTenantAtATime
    <3>2. owed'[observing[r].tenant][g][p] = owed[observing[r].tenant][g][p]
      BY <1>3, <2>2, <3>1
    <3> QED BY <2>2, <3>2 DEF OwedIsKept, KeepsOwed
  <2> QED BY <1>1, <2>1, <2>2 DEF OwedIsKept, KeepsOwed
<1>5. SeenIsDated' /\ LateIsNotMerged'
  <2> SUFFICES ASSUME NEW r \in Run, observing[r].pc \in {"stored", "saving", "publishing"}
               PROVE  /\ observing[r].at <= now + 1
                      /\ \A g \in observing[r].asked : \A p \in Unseen(r, g) :
                           /\ \/ appeared'[observing[r].tenant][g][p] = 0
                              \/ appeared'[observing[r].tenant][g][p] > observing[r].at
                           /\ observing[r].pc = "stored" /\ owed'[observing[r].tenant][g][p] # 0
                                => slot.ledger[g].mergedAt >= observing[r].at
    BY <1>1 DEF SeenIsDated, LateIsNotMerged, Unseen
  <2>1. /\ observing[r].tenant \in LedgerTenant /\ observing[r].at \in Nat
        /\ observing[r].asked \subseteq Family /\ observing[r].at <= now
    BY LedgerAssumption DEF MirrorInv, OneTenantAtATime, LedgerTyped, RunType, SeenIsDated
  <2>2. ASSUME NEW g \in observing[r].asked, NEW p \in Unseen(r, g)
        PROVE  /\ \/ appeared'[observing[r].tenant][g][p] = 0
                  \/ appeared'[observing[r].tenant][g][p] > observing[r].at
               /\ observing[r].pc = "stored" /\ owed'[observing[r].tenant][g][p] # 0
                    => slot.ledger[g].mergedAt >= observing[r].at
    <3>1. g \in Family /\ p \in Patch
      BY <2>1 DEF Unseen
    <3>2. \/ appeared[observing[r].tenant][g][p] = 0
          \/ appeared[observing[r].tenant][g][p] > observing[r].at
      BY <2>2 DEF SeenIsDated
    <3>3. observing[r].pc = "stored" /\ owed[observing[r].tenant][g][p] # 0
            => slot.ledger[g].mergedAt >= observing[r].at
      BY <2>2 DEF LateIsNotMerged
    <3> QED BY <1>1, <1>3, <2>1, <3>1, <3>2, <3>3
  <2> QED BY <1>1, <2>1, <2>2
<1>6. RecordsAreSound' /\ HeldIsMerged'
  BY <1>1 DEF RecordsAreSound, HeldIsMerged, SoundRecord
<1> QED BY <1>4, <1>5, <1>6

LEMMA RestDated ==
    ASSUME MirrorInv, DateInv,
           \/ Restarts \/ (\E t \in LedgerTenant : LosesFile(t)) \/ UNCHANGED ledgerVars
    PROVE  DateInv'
<1> USE DEF DateInv
<1>1. CASE Restarts
  <2>1. \A r \in Run : observing'[r] = NoRun
    BY <1>1 DEF Restarts
  <2>2. slot' = EmptySlot /\ slot'.tenant = "none" /\ slot'.ledger = NoLedger
        /\ UNCHANGED <<ledger, now, appeared, owed>>
    BY <1>1, NoneAreTyped DEF Restarts, EmptySlot
  <2>3. OwedIsKept'
    BY <2>1, <2>2, NoneAreTyped, LedgerAssumption DEF OwedIsKept, KeepsOwed
  <2>4. SeenIsDated' /\ LateIsNotMerged' /\ HeldIsMerged'
    BY <2>1, NoneAreTyped DEF SeenIsDated, LateIsNotMerged, HeldIsMerged
  <2>5. RecordsAreSound'
    BY <2>1, <2>2, NoneAreDated DEF RecordsAreSound, SoundRecord
  <2> QED BY <2>3, <2>4, <2>5
<1>2. ASSUME NEW t \in LedgerTenant, LosesFile(t) PROVE DateInv'
  <2>1. /\ ledger'[t] = NoLedger /\ \A u \in LedgerTenant \ {t} : ledger'[u] = ledger[u] /\ owed'[u] = owed[u]
        /\ \A f \in Family, p \in Patch : owed'[t][f][p] = 0
        /\ slot.tenant # t /\ \A r \in Run : observing[r].pc # "idle" => observing[r].tenant # t
        /\ UNCHANGED <<slot, observing, committer, newest, now, appeared>>
    BY <1>2 DEF LosesFile, Open, MirrorInv, LedgerTyped
  <2>2. \A r \in Run : observing[r].pc # "idle" => observing[r].tenant \in LedgerTenant \ {t}
    BY <2>1 DEF MirrorInv, OneTenantAtATime
  <2>3. OwedIsKept'
    <3>1. ASSUME NEW u \in LedgerTenant, NEW f \in Family
          PROVE  /\ \A p \in Patch : owed'[u][f][p] # 0 => appeared[u][f][p] \in 1..owed'[u][f][p]
                 /\ KeepsOwed(ledger'[u][f], owed'[u][f])
                 /\ slot.tenant = u => KeepsOwed(slot.ledger[f], owed'[u][f])
      <4>1. CASE u = t
        BY <2>1, <4>1 DEF KeepsOwed
      <4>2. CASE u # t
        BY <2>1, <4>2 DEF OwedIsKept
      <4> QED BY <4>1, <4>2
    <3>2. ASSUME NEW r \in Run, NEW f \in Family, observing[r].pc \in {"saving", "publishing"}
          PROVE  KeepsOwed(observing[r].held[f], owed'[observing[r].tenant][f])
      BY <2>1, <2>2, <3>2 DEF OwedIsKept
    <3> QED BY <2>1, <3>1, <3>2 DEF OwedIsKept, KeepsOwed
  <2>4. SeenIsDated' /\ LateIsNotMerged'
    BY <2>1, <2>2 DEF SeenIsDated, LateIsNotMerged, Unseen
  <2>5. RecordsAreSound' /\ HeldIsMerged'
    BY <2>1, NoneAreDated DEF RecordsAreSound, SoundRecord, HeldIsMerged
  <2> QED BY <2>3, <2>4, <2>5
<1>3. CASE UNCHANGED ledgerVars
  BY <1>3 DEF ledgerVars, OwedIsKept, KeepsOwed, SeenIsDated, LateIsNotMerged, Unseen,
              RecordsAreSound, SoundRecord, HeldIsMerged
<1> QED BY <1>1, <1>2, <1>3

LEMMA DateSteps ==
    MirrorInv /\ DateInv /\ [LedgerNext]_ledgerVars => DateInv'
<1> SUFFICES ASSUME MirrorInv, DateInv, [LedgerNext]_ledgerVars PROVE DateInv'
  OBVIOUS
<1>1. ASSUME NEW r \in Run, NEW t \in LedgerTenant, Looks(r, t) PROVE DateInv'
  BY <1>1, LooksDated
<1>2. ASSUME NEW r \in Run, Keeps(r) PROVE DateInv'
  BY <1>2, KeepsDated
<1>3. ASSUME NEW r \in Run, Fetches(r) PROVE DateInv'
  BY <1>3, FetchesDated
<1>4. ASSUME NEW r \in Run, Commits(r) PROVE DateInv'
  BY <1>4, CommitsDated
<1>5. ASSUME NEW r \in Run, Saves(r) PROVE DateInv'
  BY <1>5, SavesDated
<1>6. ASSUME NEW r \in Run, Publishes(r) PROVE DateInv'
  BY <1>6, PublishesDated
<1>7. CASE FleetChanges
  BY <1>7, FleetChangesDated
<1>8. CASE Restarts \/ (\E t \in LedgerTenant : LosesFile(t)) \/ UNCHANGED ledgerVars
  BY <1>8, RestDated
<1> QED BY <1>1, <1>2, <1>3, <1>4, <1>5, <1>6, <1>7, <1>8 DEF LedgerNext, Commit

\* A patch pending since it was first merged keeps that date, in every run of the
\* program in which queries of two tenants do not overlap, until the cap has taken all its
\* room for patches seen no later.
THEOREM TheDatesStand == ~SwitchesMidRun => (LedgerSpec => []DatesStand)
<1> SUFFICES ASSUME ~SwitchesMidRun PROVE LedgerSpec => []DatesStand
  OBVIOUS
<1> DEFINE Inv == MirrorInv /\ DateInv
<1>1. LedgerInit => Inv
  BY MirrorInits, DateInits
<1>2. Inv /\ [LedgerNext]_ledgerVars => Inv'
  BY MirrorSteps, DateSteps
<1>3. Inv => DatesStand
  BY DEF DateInv, OwedIsKept, KeepsOwed, DatesStand, Latest
<1> HIDE DEF Inv
<1> QED BY <1>1, <1>2, <1>3, PTL DEF LedgerSpec

-----------------------------------------------------------------------------
(* The settings.                                                           *)

\* A save that is asked for, is being written or was answered.
IsSave(c) ==
    /\ c.kind \in {"save", "preset", "delete"}
    /\ c.at \in {"waiting", "writing", "written", "done", "failed"}
    /\ {"kind", "args", "at"} \subseteq DOMAIN c
    /\ c.at \in {"writing", "written"} => "next" \in DOMAIN c
    /\ c.kind = "save" => SaveAccepts(c.args) /\ IsUrl(c.args.url)

\* What memory holds can be loaded again as it is.
Loadable(s) == IsSettings(s) /\ ~IsCleartextRemote(s.url)

\* The writer lock: one call writes at a time, what it writes is its edit of the settings in
\* memory, and the file holds that or those.
OneWriterAtATime ==
    /\ \A i, j \in Writing : i = j
    /\ \A i \in Writing : calls[i].next = EditBy(calls[i], inUse)

\* A file that this launch did without is not yet written over.
IsLeft == <<launches, file>> \in passedBy
FileFollows ==
    IF \E i \in Writing : calls[i].at = "written"
    THEN \E i \in Writing : calls[i].at = "written" /\ LoadedFrom(file) = calls[i].next
    ELSE LoadedFrom(file) = inUse \/ (IsLeft /\ inUse = DefaultSettings)

\* A number of the panel that a save would refuse is one that the settings hold.
IsForm(f) ==
    /\ f = [url |-> f.url, sla |-> f.sla, band |-> f.band, days |-> f.days,
            start |-> f.start, end |-> f.end, required |-> f.required]
    /\ IsUrl(f.url)
PanelNumbers ==
    /\ IsForm(panel)
    /\ InRange(panel.sla) \/ panel.sla = inUse.sla
    /\ panel.band = Blank \/ InRange(panel.band) \/ panel.band = inUse.band

\* While it runs, and while nothing does.
Running ==
    /\ Loadable(inUse) /\ inUse = kept /\ PanelNumbers
    /\ OneWriterAtATime /\ FileFollows
    /\ file.is = "spoilt" => IsLeft

\* The files that were spoilt: aside, in place, or left in place by a launch before.
SpoiltAreKnown ==
    /\ aside \union InPlace \subseteq spoilt
    /\ spoilt \ (aside \union InPlace) \subseteq SpoiltAndLeft

SettingsInv ==
    /\ \E S : calls \in Seq(S)
    /\ \A i \in DOMAIN calls : IsSave(calls[i])
    /\ launches \in 1..MaxLaunches
    /\ file.is \in {"absent", "whole", "spoilt"}
    /\ file.is = "whole" => IsSettings(file.value)
    /\ SpoiltAreKnown
    /\ IF inUse = NotRunning THEN calls = <<>> ELSE Running

LEMMA SettingsRun == ASSUME NEW s, IsSettings(s) PROVE s # NotRunning
<1> SUFFICES ASSUME s = NotRunning PROVE FALSE
  OBVIOUS
<1>1. DOMAIN s = {"url", "sla", "band", "days", "start", "end", "required", "presets"}
  BY DEF IsSettings
<1>2. DOMAIN s = {"running"}
  BY DEF NotRunning
<1> QED BY <1>1, <1>2

LEMMA DefaultsLoad == Loadable(DefaultSettings) /\ IsForm(FormOf(DefaultSettings))
  BY DEF DefaultSettings, Loadable, IsSettings, IsUrl, IsCleartextRemote, FormOf, IsForm

\* Whatever is in the file, what is loaded from it loads again as it is.
LEMMA LoadingSettles ==
    ASSUME NEW f, f.is = "whole" => IsSettings(f.value)
    PROVE  Loadable(LoadedFrom(f))
<1>1. CASE f.is = "whole"
  <2>1. CASE IsCleartextRemote(f.value.url)
    <3> DEFINE s == f.value
    <3>1. IsSettings(s) /\ LoadedFrom(f) = [s EXCEPT !.url.scheme = "https"]
      BY <1>1, <2>1 DEF LoadedFrom, Parsed
    <3>2. LoadedFrom(f) = [url |-> [scheme |-> "https", host |-> s.url.host], sla |-> s.sla, band |-> s.band,
                           days |-> s.days, start |-> s.start, end |-> s.end,
                           required |-> s.required, presets |-> s.presets]
      BY <3>1 DEF IsSettings, IsUrl
    <3> HIDE DEF s
    <3> QED BY <3>2 DEF Loadable, IsSettings, IsUrl, IsCleartextRemote
  <2>2. CASE ~IsCleartextRemote(f.value.url)
    BY <1>1, <2>2 DEF LoadedFrom, Parsed, Loadable
  <2> QED BY <2>1, <2>2
<1>2. CASE f.is # "whole"
  BY <1>2, DefaultsLoad DEF LoadedFrom
<1> QED BY <1>1, <1>2

\* What a call writes loads as it is; only a Save touches the numbers.
LEMMA EditsLoad ==
    ASSUME NEW c, NEW s, IsSave(c), Loadable(s)
    PROVE  /\ Loadable(EditBy(c, s))
           /\ c.kind # "save" => EditBy(c, s).sla = s.sla /\ EditBy(c, s).band = s.band
<1>1. CASE c.kind = "save"
  <2>0. SaveAccepts(c.args) /\ IsUrl(c.args.url)
    BY <1>1 DEF IsSave
  <2> DEFINE days == SortedDays(ToSet(c.args.days))
  <2>1. EditBy(c, s) = [url |-> c.args.url, sla |-> c.args.sla, band |-> c.args.band, days |-> days,
                        start |-> c.args.start, end |-> c.args.end, required |-> c.args.required,
                        presets |-> s.presets]
    BY <1>1 DEF EditBy, Loadable, IsSettings
  <2> HIDE DEF days
  <2> QED BY <1>1, <2>0, <2>1 DEF Loadable, IsSettings, SaveAccepts
<1>2. CASE c.kind # "save"
  <2>1. PICK presets : EditBy(c, s) = [s EXCEPT !.presets = presets]
    BY <1>2 DEF IsSave, EditBy
  <2>2. EditBy(c, s) = [url |-> s.url, sla |-> s.sla, band |-> s.band, days |-> s.days, start |-> s.start,
                        end |-> s.end, required |-> s.required, presets |-> presets]
    BY <2>1 DEF Loadable, IsSettings
  <2> QED BY <1>2, <2>2 DEF Loadable, IsSettings
<1> QED BY <1>1, <1>2

LEMMA FormOfSettings ==
    ASSUME NEW s, Loadable(s)
    PROVE  IsForm(FormOf(s)) /\ FormOf(s).sla = s.sla /\ FormOf(s).band = s.band
  BY DEF Loadable, IsSettings, FormOf, IsForm

LEMMA SavesStart == SettingsInit => SettingsInv
<1> SUFFICES ASSUME SettingsInit PROVE SettingsInv
  OBVIOUS
<1> USE SettingsAssumption DEF SettingsInit
<1>1. calls \in Seq({}) /\ DOMAIN calls = {}
  OBVIOUS
<1>2. file.is = "absent" /\ launches \in 1..MaxLaunches
  BY DEF Absent
<1>3. Running
  <2>1. Writing = {}
    BY <1>1 DEF Writing
  <2>2. LoadedFrom(file) = inUse
    BY <1>2 DEF LoadedFrom
  <2> QED BY <1>2, <2>1, <2>2, DefaultsLoad, FormOfSettings
        DEF Running, PanelNumbers, OneWriterAtATime, FileFollows
<1>4. inUse # NotRunning
  BY DefaultsLoad, SettingsRun DEF Loadable
<1>5. SpoiltAreKnown
  BY <1>2 DEF SpoiltAreKnown, InPlace
<1> QED BY <1>1, <1>2, <1>3, <1>4, <1>5 DEF SettingsInv

\* What one control makes of the panel keeps its numbers sendable.
LEMMA ControlsKeepNumbers ==
    ASSUME NEW f, NEW g, IsForm(f), g \in Edited(f)
    PROVE  /\ IsForm(g)
           /\ InRange(g.sla) \/ g.sla = f.sla
           /\ g.band = Blank \/ InRange(g.band) \/ g.band = f.band
<1> USE SettingsAssumption
<1>0. \A n \in Int : InRange(ClampTo(n, 1, MaxWindowDays))
  BY DEF InRange, ClampTo
<1>1. CASE \E u \in Urls : g = [f EXCEPT !.url = u]
  BY <1>1 DEF IsForm
<1>2. CASE \E n \in TypedNumbers : g = [f EXCEPT !.sla = ParseClamped(n, @)]
  <2>1. PICK n \in TypedNumbers : g = [f EXCEPT !.sla = ParseClamped(n, f.sla)]
    BY <1>2
  <2>2. g.sla = ParseClamped(n, f.sla) /\ IsForm(g) /\ g.band = f.band
    BY <2>1 DEF IsForm
  <2>3. n \in Int
    OBVIOUS
  <2> QED BY <1>0, <2>2, <2>3 DEF ParseClamped
<1>3. CASE \E n \in TypedNumbers : g = [f EXCEPT !.band = ParseOptionalDays(n, @)]
  <2>1. PICK n \in TypedNumbers : g = [f EXCEPT !.band = ParseOptionalDays(n, f.band)]
    BY <1>3
  <2>2. g.band = ParseOptionalDays(n, f.band) /\ IsForm(g) /\ g.sla = f.sla
    BY <2>1 DEF IsForm
  <2>3. n \in Int
    OBVIOUS
  <2> QED BY <1>0, <2>2, <2>3 DEF ParseOptionalDays
<1>4. CASE \E x : g = [f EXCEPT !.days = x] \/ g = [f EXCEPT !.start = x] \/ g = [f EXCEPT !.end = x]
                  \/ g = [f EXCEPT !.required = x]
  BY <1>4 DEF IsForm
<1> QED BY <1>1, <1>2, <1>3, <1>4 DEF Edited

\* A call that is added, and a call that goes on.
LEMMA CallAdded ==
    ASSUME SettingsInv, NEW c, IsSave(c), c.at = "waiting", calls' = Append(calls, c)
    PROVE  /\ \E S : calls' \in Seq(S)
           /\ \A i \in DOMAIN calls' : IsSave(calls'[i])
           /\ Writing' = Writing
           /\ \A i \in Writing : calls'[i] = calls[i]
<1>1. PICK S : calls \in Seq(S)
  BY DEF SettingsInv
<1>2. calls \in Seq(S \union {c}) /\ calls' \in Seq(S \union {c})
  BY <1>1
<1>3. /\ DOMAIN calls' = DOMAIN calls \union {Len(calls) + 1}
      /\ calls'[Len(calls) + 1] = c
      /\ \A i \in DOMAIN calls : calls'[i] = calls[i] /\ i # Len(calls) + 1
  BY <1>1, <1>2
<1> QED BY <1>2, <1>3 DEF SettingsInv, Writing

LEMMA CallChanged ==
    ASSUME SettingsInv, NEW i \in DOMAIN calls, NEW c, IsSave(c), calls' = [calls EXCEPT ![i] = c]
    PROVE  /\ \E S : calls' \in Seq(S)
           /\ DOMAIN calls' = DOMAIN calls /\ calls'[i] = c
           /\ \A j \in DOMAIN calls : j # i => calls'[j] = calls[j]
           /\ \A j \in DOMAIN calls' : IsSave(calls'[j])
<1>1. PICK S : calls \in Seq(S)
  BY DEF SettingsInv
<1>2. calls \in Seq(S \union {c}) /\ calls' \in Seq(S \union {c})
  BY <1>1
<1>3. calls'[i] = c /\ \A j \in DOMAIN calls : j # i => calls'[j] = calls[j]
  BY <1>1
<1> QED BY <1>1, <1>2, <1>3 DEF SettingsInv

LEMMA RunsOrNot ==
    ASSUME SettingsInv
    PROVE  inUse # NotRunning <=> Running
<1>1. Running => inUse # NotRunning
  BY SettingsRun DEF Running, Loadable
<1> QED BY <1>1 DEF SettingsInv

LEMMA SpoiltStay ==
    ASSUME SettingsInv, UNCHANGED <<file, aside, spoilt, passedBy>>
    PROVE  SpoiltAreKnown'
  BY DEF SettingsInv, SpoiltAreKnown, InPlace, SpoiltAndLeft

LEMMA ControlSaves ==
    ASSUME SettingsInv, EditsForm
    PROVE  SettingsInv'
<1>1. Running /\ UNCHANGED <<file, aside, inUse, calls, launches, spoilt, passedBy, kept>> /\ panel' \in Edited(panel)
  BY RunsOrNot DEF EditsForm
<1>2. PanelNumbers'
  BY <1>1, ControlsKeepNumbers DEF Running, PanelNumbers
<1>3. OneWriterAtATime' /\ FileFollows' /\ Loadable(inUse)'
  BY <1>1 DEF Running, OneWriterAtATime, FileFollows, IsLeft, Writing, Loadable
<1> QED BY <1>1, <1>2, <1>3, SpoiltStay DEF SettingsInv, Running, IsLeft, EditsForm

LEMMA AskSaves ==
    ASSUME SettingsInv, Asks
    PROVE  SettingsInv'
<1>1. Running /\ UNCHANGED <<file, aside, inUse, panel, edits, launches, spoilt, passedBy, kept>>
  BY RunsOrNot DEF Asks
<1>2. \E kind, args : /\ IsSave(Call(kind, args))
                      /\ calls' = Append(calls, Call(kind, args))
  <2>1. CASE SaveAccepts(panel) /\ calls' = Append(calls, Call("save", panel))
    <3>1. IsSave(Call("save", panel))
      BY <1>1, <2>1 DEF IsSave, Call, Running, PanelNumbers, IsForm
    <3> QED BY <2>1, <3>1
  <2>2. \A args : IsSave(Call("preset", args)) /\ IsSave(Call("delete", args))
    BY DEF IsSave, Call
  <2> QED BY <2>1, <2>2 DEF Asks
<1>3. PICK kind, args : IsSave(Call(kind, args)) /\ calls' = Append(calls, Call(kind, args))
  BY <1>2
<1>4. Call(kind, args).at = "waiting"
  BY DEF Call
<1>5. /\ \E S : calls' \in Seq(S)
      /\ \A i \in DOMAIN calls' : IsSave(calls'[i])
      /\ Writing' = Writing
      /\ \A i \in Writing : calls'[i] = calls[i]
  BY <1>3, <1>4, CallAdded
<1>6. OneWriterAtATime' /\ FileFollows' /\ PanelNumbers' /\ Loadable(inUse)'
  BY <1>1, <1>5 DEF Running, OneWriterAtATime, FileFollows, IsLeft, Loadable, PanelNumbers
<1> QED BY <1>1, <1>5, <1>6, SpoiltStay DEF SettingsInv, Running, IsLeft, Asks

LEMMA LockSaves ==
    ASSUME SettingsInv, NEW i \in DOMAIN calls, WriteStarts(i)
    PROVE  SettingsInv'
<1> DEFINE c == [kind |-> calls[i].kind, args |-> calls[i].args, at |-> "writing",
                 next |-> EditBy(calls[i], inUse)]
<1>1. Running /\ UNCHANGED <<file, aside, inUse, panel, edits, launches, spoilt, passedBy, kept>>
  BY RunsOrNot DEF WriteStarts
<1>2. calls' = [calls EXCEPT ![i] = c] /\ Writing = {} /\ IsSave(calls[i])
  BY DEF WriteStarts, SettingsInv
<1>3. IsSave(c) /\ c.at = "writing" /\ c.next = EditBy(calls[i], inUse)
  BY <1>2 DEF IsSave
<1>4. EditBy(c, inUse) = EditBy(calls[i], inUse)
  BY DEF EditBy
<1> HIDE DEF c
<1>5. /\ \E S : calls' \in Seq(S)
      /\ DOMAIN calls' = DOMAIN calls /\ calls'[i] = c
      /\ \A j \in DOMAIN calls : j # i => calls'[j] = calls[j]
      /\ \A j \in DOMAIN calls' : IsSave(calls'[j])
  BY <1>2, <1>3, CallChanged
<1>6. Writing' = {i}
  BY <1>2, <1>3, <1>5 DEF Writing
<1>7. OneWriterAtATime'
  BY <1>1, <1>3, <1>4, <1>5, <1>6 DEF OneWriterAtATime
<1>8. FileFollows'
  <2>1. LoadedFrom(file) = inUse \/ (IsLeft /\ inUse = DefaultSettings)
    BY <1>1, <1>2 DEF Running, FileFollows
  <2> QED BY <2>1, <1>1, <1>3, <1>5, <1>6 DEF FileFollows, IsLeft
<1> QED BY <1>1, <1>5, <1>7, <1>8, SpoiltStay
    DEF SettingsInv, Running, IsLeft, Loadable, PanelNumbers, WriteStarts

LEMMA WriteSaves ==
    ASSUME SettingsInv, NEW i \in DOMAIN calls, WritesFile(i)
    PROVE  SettingsInv'
<1>1. Running /\ UNCHANGED <<aside, inUse, panel, edits, launches, spoilt, passedBy, kept>>
  BY RunsOrNot DEF WritesFile
<1>2. IsSave(calls[i]) /\ calls[i].at = "writing" /\ i \in Writing /\ Writing = {i}
  BY <1>1 DEF WritesFile, SettingsInv, Running, OneWriterAtATime, Writing
<1>3. /\ LoadedFrom(file) = inUse \/ (IsLeft /\ inUse = DefaultSettings)
      /\ calls[i].next = EditBy(calls[i], inUse)
  BY <1>1, <1>2 DEF Running, FileFollows, OneWriterAtATime
<1>4. PICK at \in {"written", "failed"} :
        /\ calls' = [calls EXCEPT ![i] = [calls[i] EXCEPT !.at = at]]
        /\ at = "written" => file' = [is |-> "whole", value |-> calls[i].next]
        /\ at = "failed" => file' = file
  BY DEF WritesFile
<1> DEFINE c == [calls[i] EXCEPT !.at = at]
<1>5. /\ IsSave(c) /\ c.at = at /\ c.kind = calls[i].kind /\ c.args = calls[i].args
      /\ c.next = calls[i].next
  BY <1>2 DEF IsSave
<1>6. EditBy(c, inUse) = EditBy(calls[i], inUse)
  BY <1>5 DEF EditBy
<1> HIDE DEF c
<1>7. /\ \E S : calls' \in Seq(S)
      /\ DOMAIN calls' = DOMAIN calls /\ calls'[i] = c
      /\ \A j \in DOMAIN calls : j # i => calls'[j] = calls[j]
      /\ \A j \in DOMAIN calls' : IsSave(calls'[j])
  BY <1>4, <1>5, CallChanged DEF c
<1>8. Writing' = IF at = "written" THEN {i} ELSE {}
  BY <1>2, <1>5, <1>7 DEF Writing
<1>9. OneWriterAtATime'
  BY <1>1, <1>3, <1>5, <1>6, <1>7, <1>8 DEF OneWriterAtATime
<1>10. Loadable(calls[i].next)
  BY <1>1, <1>2, <1>3, EditsLoad DEF Running
<1>11. /\ FileFollows' /\ file'.is \in {"absent", "whole", "spoilt"} /\ (file'.is = "spoilt" => IsLeft')
       /\ file'.is = "whole" => IsSettings(file'.value)
  <2>1. CASE at = "written"
    <3>1. LoadedFrom(file') = calls[i].next /\ file'.is = "whole" /\ file'.value = calls[i].next
      BY <1>4, <1>10, <2>1 DEF LoadedFrom, Parsed, Loadable
    <3>2. LoadedFrom(file)' = calls[i].next
      BY <3>1 DEF LoadedFrom
    <3> QED BY <1>5, <1>7, <1>8, <1>10, <2>1, <3>1, <3>2 DEF FileFollows, Loadable
  <2>2. CASE at = "failed"
    <3>1. file' = file /\ Writing' = {}
      BY <1>4, <1>8, <2>2
    <3>2. LoadedFrom(file)' = LoadedFrom(file)
      BY <3>1 DEF LoadedFrom
    <3> QED BY <1>1, <1>3, <3>1, <3>2 DEF FileFollows, IsLeft, Running, SettingsInv
  <2> QED BY <2>1, <2>2
<1>12. Running'
  BY <1>1, <1>9, <1>11 DEF Running, Loadable, PanelNumbers
<1>13. launches' = launches /\ inUse' # NotRunning
  BY <1>1, RunsOrNot
<1>14. SpoiltAreKnown'
  <2>1. CASE at = "written"
    <3>1. InPlace \subseteq SpoiltAndLeft
      BY <1>1 DEF InPlace, SpoiltAndLeft, Running, IsLeft
    <3>2. InPlace' = {} /\ SpoiltAndLeft' = SpoiltAndLeft
      BY <1>1, <1>4, <2>1 DEF InPlace, SpoiltAndLeft
    <3> QED BY <1>1, <3>1, <3>2 DEF SettingsInv, SpoiltAreKnown
  <2>2. CASE at = "failed"
    BY <1>1, <1>4, <2>2, SpoiltStay
  <2> QED BY <2>1, <2>2
<1> QED BY <1>7, <1>11, <1>12, <1>13, <1>14 DEF SettingsInv

LEMMA PublishSaves ==
    ASSUME SettingsInv, NEW i \in DOMAIN calls, PublishesSave(i)
    PROVE  SettingsInv'
<1>1. Running /\ UNCHANGED <<file, aside, edits, launches, spoilt, passedBy>>
  BY RunsOrNot DEF PublishesSave
<1>2. IsSave(calls[i]) /\ calls[i].at = "written" /\ i \in Writing /\ Writing = {i}
  BY <1>1 DEF PublishesSave, SettingsInv, Running, OneWriterAtATime, Writing
<1>3. LoadedFrom(file) = calls[i].next /\ calls[i].next = EditBy(calls[i], inUse)
  BY <1>1, <1>2 DEF Running, FileFollows, OneWriterAtATime
<1>4. inUse' = EditBy(calls[i], inUse) /\ kept' = inUse' /\ LoadedFrom(file) = inUse'
  BY <1>1, <1>3 DEF PublishesSave, Running
<1>5. /\ Loadable(EditBy(calls[i], inUse))
      /\ calls[i].kind # "save" => /\ EditBy(calls[i], inUse).sla = inUse.sla
                                   /\ EditBy(calls[i], inUse).band = inUse.band
  BY <1>1, <1>2, EditsLoad DEF Running
<1> DEFINE c == [calls[i] EXCEPT !.at = "done"]
<1>6. IsSave(c) /\ c.at = "done" /\ calls' = [calls EXCEPT ![i] = c]
  BY <1>2 DEF IsSave, PublishesSave
<1> HIDE DEF c
<1>7. /\ \E S : calls' \in Seq(S)
      /\ DOMAIN calls' = DOMAIN calls /\ calls'[i] = c
      /\ \A j \in DOMAIN calls : j # i => calls'[j] = calls[j]
      /\ \A j \in DOMAIN calls' : IsSave(calls'[j])
  BY <1>6, CallChanged
<1>8. Writing' = {}
  BY <1>2, <1>6, <1>7 DEF Writing
<1>9. OneWriterAtATime'
  BY <1>8 DEF OneWriterAtATime
<1>10. FileFollows'
  <2>1. LoadedFrom(file)' = LoadedFrom(file)
    BY <1>1 DEF LoadedFrom
  <2> QED BY <2>1, <1>4, <1>8 DEF FileFollows
<1>11. PanelNumbers'
  <2>1. CASE calls[i].kind = "save"
    <3>1. panel' = FormOf(inUse') /\ Loadable(inUse')
      BY <1>3, <1>4, <1>5, <2>1 DEF PublishesSave
    <3>2. IsForm(panel') /\ panel'.sla = inUse'.sla /\ panel'.band = inUse'.band
      BY <3>1, FormOfSettings
    <3> QED BY <3>2 DEF PanelNumbers
  <2>2. CASE calls[i].kind # "save"
    <3>1. panel' = panel /\ inUse'.sla = inUse.sla /\ inUse'.band = inUse.band
      BY <1>4, <1>5, <2>2 DEF PublishesSave
    <3> QED BY <1>1, <3>1 DEF PanelNumbers, Running
  <2> QED BY <2>1, <2>2
<1>12. Loadable(inUse)'
  BY <1>4, <1>5 DEF Loadable
<1>13. Running'
  BY <1>1, <1>4, <1>9, <1>10, <1>11, <1>12 DEF Running, IsLeft
<1>14. inUse' # NotRunning
  BY <1>12, SettingsRun DEF Loadable
<1>15. /\ SpoiltAreKnown'
       /\ launches' \in 1..MaxLaunches /\ file'.is \in {"absent", "whole", "spoilt"}
       /\ file'.is = "whole" => IsSettings(file'.value)
  BY <1>1, SpoiltStay DEF SettingsInv
<1> QED BY <1>7, <1>13, <1>14, <1>15 DEF SettingsInv

LEMMA EndSaves ==
    ASSUME SettingsInv, Ends
    PROVE  SettingsInv'
<1>1. calls' \in Seq({}) /\ DOMAIN calls' = {}
  BY DEF Ends
<1>2. SpoiltAreKnown'
  BY SpoiltStay DEF Ends
<1> QED BY <1>1, <1>2 DEF Ends, SettingsInv

LEMMA SpoilSaves ==
    ASSUME SettingsInv, Spoils
    PROVE  SettingsInv'
<1>1. inUse = NotRunning /\ UNCHANGED <<aside, inUse, calls, launches, passedBy>> /\ InPlace = {}
  BY DEF Spoils, InPlace
<1>2. CASE \E s \in HandEdits : file' = [is |-> "whole", value |-> s] /\ UNCHANGED spoilt
  <2>1. SpoiltAreKnown'
    BY <1>1, <1>2 DEF SettingsInv, SpoiltAreKnown, InPlace, SpoiltAndLeft
  <2> QED BY <1>1, <1>2, <2>1, SettingsAssumption DEF SettingsInv
<1>3. CASE file' = [is |-> "spoilt", id |-> launches] /\ spoilt' = spoilt \union {launches}
  <2>1. InPlace' = {launches} /\ SpoiltAndLeft' = SpoiltAndLeft
    BY <1>1, <1>3 DEF InPlace, SpoiltAndLeft
  <2>2. SpoiltAreKnown'
    BY <1>1, <1>3, <2>1 DEF SettingsInv, SpoiltAreKnown
  <2> QED BY <1>1, <1>3, <2>2 DEF SettingsInv
<1> QED BY <1>2, <1>3 DEF Spoils

\* A launch: the file was read, or done without.
LEMMA LaunchReads ==
    ASSUME SettingsInv, Launches, ReadsFile
    PROVE  /\ Loadable(inUse') /\ LoadedFrom(file)' = inUse'
           /\ file'.is \in {"absent", "whole"}
           /\ file'.is = "whole" => IsSettings(file'.value)
           /\ SpoiltAreKnown'
<1>1. Loadable(LoadedFrom(file))
  BY LoadingSettles DEF SettingsInv
<1>2. LoadedFrom(file)' = LoadedFrom(file')
  BY DEF LoadedFrom
<1>3. spoilt' = spoilt /\ passedBy' = passedBy
  BY DEF Launches, ReadsFile
<1>4. CASE file.is = "spoilt"
  <2>1. aside' = aside \union {file.id} /\ file' = Absent
    BY <1>4 DEF ReadsFile
  <2>2. SpoiltAreKnown'
    BY <1>3, <1>4, <2>1 DEF SettingsInv, SpoiltAreKnown, InPlace, SpoiltAndLeft, Absent
  <2> QED BY <1>1, <1>2, <1>4, <2>1, <2>2 DEF ReadsFile, Absent, LoadedFrom
<1>5. CASE file.is # "spoilt"
  <2>1. UNCHANGED <<file, aside>>
    BY <1>5 DEF ReadsFile
  <2>2. SpoiltAreKnown'
    BY <1>3, <2>1, SpoiltStay
  <2> QED BY <1>1, <1>2, <1>5, <2>1, <2>2 DEF ReadsFile, SettingsInv
<1> QED BY <1>4, <1>5

LEMMA LaunchLeaves ==
    ASSUME SettingsInv, Launches, LeavesFile
    PROVE  /\ Loadable(inUse') /\ IsLeft' /\ inUse' = DefaultSettings /\ file' = file
           /\ SpoiltAreKnown'
<1>1. IsLeft' /\ inUse' = DefaultSettings /\ file' = file /\ aside' = aside /\ spoilt' = spoilt
  BY DEF IsLeft, LeavesFile, Launches
<1>2. InPlace' = InPlace /\ SpoiltAndLeft \subseteq SpoiltAndLeft'
  BY <1>1 DEF InPlace, SpoiltAndLeft, LeavesFile
<1>3. SpoiltAreKnown'
  BY <1>1, <1>2 DEF SettingsInv, SpoiltAreKnown
<1> QED BY <1>1, <1>3, DefaultsLoad

LEMMA LaunchSaves ==
    ASSUME SettingsInv, Launches
    PROVE  SettingsInv'
<1>1. calls' = <<>> /\ calls' \in Seq({}) /\ DOMAIN calls' = {} /\ Writing' = {}
  BY DEF Launches, SettingsInv, Writing
<1>2. /\ Loadable(inUse') /\ SpoiltAreKnown'
      /\ file'.is \in {"absent", "whole", "spoilt"} /\ (file'.is = "spoilt" => IsLeft')
      /\ file'.is = "whole" => IsSettings(file'.value)
      /\ LoadedFrom(file)' = inUse' \/ (IsLeft' /\ inUse' = DefaultSettings)
  <2>1. CASE ReadsFile
    BY <2>1, LaunchReads
  <2>2. CASE LeavesFile
    BY <2>2, LaunchLeaves DEF SettingsInv
  <2> QED BY <2>1, <2>2 DEF Launches
<1>3. kept' = inUse' /\ panel' = FormOf(inUse')
  BY DEF Launches
<1>4. PanelNumbers'
  BY <1>2, <1>3, FormOfSettings DEF PanelNumbers
<1>5. OneWriterAtATime' /\ FileFollows'
  BY <1>1, <1>2 DEF OneWriterAtATime, FileFollows
<1>6. Running' /\ inUse' # NotRunning
  BY <1>2, <1>3, <1>4, <1>5, SettingsRun DEF Running, Loadable
<1>7. launches' \in 1..MaxLaunches
  BY SettingsAssumption DEF Launches, SettingsInv
<1> QED BY <1>1, <1>2, <1>6, <1>7 DEF SettingsInv

\* Every step of the settings keeps the writer lock's promise and the file's.
LEMMA SavesKept == SettingsInv /\ [SettingsNext]_settingsVars => SettingsInv'
<1> SUFFICES ASSUME SettingsInv, [SettingsNext]_settingsVars PROVE SettingsInv'
  OBVIOUS
<1>1. CASE \E i \in DOMAIN calls : WriteStarts(i) \/ WritesFile(i) \/ PublishesSave(i)
  BY <1>1, LockSaves, WriteSaves, PublishSaves
<1>2. CASE UNCHANGED settingsVars
  BY <1>2 DEF settingsVars, SettingsInv, Running, Loadable, PanelNumbers, OneWriterAtATime,
     FileFollows, IsLeft, SpoiltAreKnown, InPlace, SpoiltAndLeft, Writing, LoadedFrom
<1> QED BY <1>1, <1>2, ControlSaves, AskSaves, EndSaves, SpoilSaves, LaunchSaves DEF SettingsNext

LEMMA SettingsAlways == SettingsSpec => []SettingsInv
  BY SavesStart, SavesKept, PTL DEF SettingsSpec

\* Whatever the saves of the panel and of the presets do to each other, and wherever the
\* process ends, the file is spoilt or cannot be read: memory holds what the launch began
\* with and every save answered since, and the file that or what is being written, or
\* else what the launch left there and no save has replaced. A file that could not be
\* parsed is lost only if a launch could not read it or not move it (state.rs
\* write_settings, settings.rs load_or_recover).
THEOREM SavesSurvive == SettingsSpec => []AnsweredSavesSurvive
<1>1. SettingsInv => AnsweredSavesSurvive
  <2> SUFFICES ASSUME SettingsInv PROVE AnsweredSavesSurvive
    OBVIOUS
  <2>1. ASSUME inUse # NotRunning
        PROVE  /\ inUse = kept
               /\ \/ LoadedFrom(file) \in {kept} \union {EditBy(calls[i], kept) : i \in Writing}
                  \/ <<launches, file>> \in passedBy /\ kept = DefaultSettings
    BY <2>1, RunsOrNot DEF Running, FileFollows, OneWriterAtATime, IsLeft
  <2> QED BY <2>1 DEF AnsweredSavesSurvive, SettingsInv, SpoiltAreKnown
<1> QED BY <1>1, SettingsAlways, PTL

\* Whatever was typed, saved and loaded, the panel says beforehand what a save of it would
\* refuse, but for a URL and for a number of the file that nobody touched (guardrails.rs
\* window_settings_problem, util parse_clamped, commands/settings.rs).
THEOREM PanelSays == SettingsSpec => []PanelSaysWhatIsRefused
<1>1. SettingsInv => PanelSaysWhatIsRefused
  BY RunsOrNot DEF Running, PanelNumbers, PanelSaysWhatIsRefused, SaveAccepts, WindowProblem
<1> QED BY <1>1, SettingsAlways, PTL

\* The settings keep their types.
THEOREM SettingsTyped == SettingsSpec => []SettingsTypeOK
<1>1. SettingsInv => SettingsTypeOK
  BY DEF SettingsInv, SettingsTypeOK, IsSave, SpoiltAreKnown
<1> QED BY <1>1, SettingsAlways, PTL

-----------------------------------------------------------------------------
(* The table.                                                              *)

ViewRow == [device : Nat, patch : Nat]
IsTable(v) ==
    /\ v = [result |-> v.result, page |-> v.page, sort |-> v.sort, sortNext |-> v.sortNext,
            group |-> v.group, rows |-> v.rows, heads |-> v.heads, total |-> v.total,
            open |-> v.open, members |-> v.members, error |-> v.error]
    /\ v.result \in Seq(ViewRow) /\ v.page \in Nat /\ v.total \in Nat
IsRead(r) ==
    /\ r = [what |-> r.what, page |-> r.page, sort |-> r.sort, group |-> r.group, key |-> r.key,
            reopen |-> r.reopen, newest |-> r.newest, answered |-> r.answered, saw |-> r.saw]
    /\ r.what \in OfView \union OfGroup \union {"device"}
    /\ r.newest \in BOOLEAN /\ r.answered \in BOOLEAN /\ r.saw \in Seq(ViewRow) /\ r.page \in Nat
IsDialog(d) == d = [device |-> d.device, load |-> d.load, rows |-> d.rows]
IsRun(q) ==
    /\ q = [at |-> q.at, silent |-> q.silent, found |-> q.found, queued |-> q.queued]
    /\ q.at \in {"idle", "asked", "stored"} /\ q.found \in Seq(ViewRow)

\* The reads whose stamp is still the newest.
NewestOf(rs, whats) == {r \in rs : r.newest /\ r.what \in whats}

\* They are of the page, the order and the grouping that is on screen; of the groups
\* of that grouping; and of the device whose dialog is open.
OfThisTable(rs, v) ==
    \A r \in NewestOf(rs, OfView) :
        IF r.what = "rows" THEN v.group = "none" /\ r.page = v.page /\ r.sort = v.sort
        ELSE v.group # "none" /\ r.group = v.group /\ r.page = v.page
OfThisGrouping(rs, v) == \A r \in NewestOf(rs, OfGroup) : r.group = v.group
OfThisDialog(rs, d) ==
    /\ \A r \in NewestOf(rs, {"device"}) : d.load # "closed" /\ d.device = r.key
    /\ d.load = "loading" => NewestOf(rs, {"device"}) # {}

\* An open group has its members, or they are being read.
OpenHeld(rs, v) ==
    \A key \in v.open : \/ \E m \in v.members : m.key = key
                        \/ \E r \in NewestOf(rs, {"open"}) : r.key = key /\ r.group = v.group

\* What was answered is of the result on screen.
SawThis(rs, v) == \A r \in rs : r.newest /\ r.answered => r.saw = v.result

TableFit(rs, v) ==
    NewestOf(rs, OfView) # {}
    \/ IF v.group = "none" THEN v.rows = RowsOfPage(Sorted(v.result, v.sort), v.page)
       ELSE /\ v.total = Len(Heads(v.result, v.group)) /\ v.page < PageCount(v.total)
            /\ v.heads = RowsOfPage(Heads(v.result, v.group), v.page)
MembersFit(v) == \A m \in v.members : m.rows \in {<<>>, InGroup(v.result, v.group, m.key)}
DialogFit(rs, v, d) ==
    d.load \in {"ready", "gone"} /\ NewestOf(rs, {"device"}) = {} => d.rows = OfDevice(v.result, d.device)

\* The shape of it all, at every moment.
Shaped(h, q, v, d, rs) ==
    /\ IsTable(v) /\ IsDialog(d) /\ IsRun(q) /\ h \in Seq(ViewRow) /\ \A r \in rs : IsRead(r)
    /\ v.group \in Groupings

\* What the reads are of, at every moment.
Stamped(v, d, rs, lost) ==
    /\ ~lost => OfThisTable(rs, v)
    /\ OfThisGrouping(rs, v) /\ OpenHeld(rs, v) /\ OfThisDialog(rs, d)

\* What is on screen, unless a run has stored its result and not landed yet.
OnScreen(h, v, d, rs, lost) ==
    /\ h = v.result
    /\ SawThis(rs, v) /\ MembersFit(v) /\ DialogFit(rs, v, d)
    /\ ~lost => TableFit(rs, v)

ViewInvOf(h, q, v, d, rs, lost) ==
    /\ Shaped(h, q, v, d, rs) /\ Stamped(v, d, rs, lost)
    /\ IF q.at = "stored" THEN h = q.found ELSE OnScreen(h, v, d, rs, lost)

ViewInv == ViewInvOf(held, run, view, drill, reads, astray)

\* The pager's arithmetic.
LEMMA PagesExist ==
    /\ \A total \in Nat : PageCount(total) \in Nat \ {0}
    /\ \A page \in Nat, total \in Nat :
          ClampPage(page, total) \in Nat /\ ClampPage(page, total) < PageCount(total)
<1>1. \A x, y \in Int : Max({x, y}) = IF x >= y THEN x ELSE y
  <2> SUFFICES ASSUME NEW x \in Int, NEW y \in Int
               PROVE  Max({x, y}) = IF x >= y THEN x ELSE y
    OBVIOUS
  <2> DEFINE m == IF x >= y THEN x ELSE y
  <2>1. m \in {x, y} /\ \A z \in {x, y} : m >= z
    OBVIOUS
  <2>2. \A n \in {x, y} : (\A z \in {x, y} : n >= z) => n = m
    OBVIOUS
  <2> QED BY <2>1, <2>2 DEF Max
<1>2. \A x, y \in Int : Min({x, y}) = IF x <= y THEN x ELSE y
  <2> SUFFICES ASSUME NEW x \in Int, NEW y \in Int
               PROVE  Min({x, y}) = IF x <= y THEN x ELSE y
    OBVIOUS
  <2> DEFINE m == IF x <= y THEN x ELSE y
  <2>1. m \in {x, y} /\ \A z \in {x, y} : m =< z
    OBVIOUS
  <2>2. \A n \in {x, y} : (\A z \in {x, y} : n =< z) => n = m
    OBVIOUS
  <2> QED BY <2>1, <2>2 DEF Min
<1>3. ASSUME NEW total \in Nat PROVE PageCount(total) \in Nat \ {0}
  <2>1. (total + ViewPage - 1) \div ViewPage \in Int
    BY ViewAssumption
  <2> QED BY <1>1, <2>1 DEF PageCount
<1>4. ASSUME NEW page \in Nat, NEW total \in Nat
      PROVE  ClampPage(page, total) \in Nat /\ ClampPage(page, total) < PageCount(total)
  <2>1. PageCount(total) \in Nat /\ PageCount(total) - 1 \in Nat
    BY <1>3
  <2>2. Min({page, PageCount(total) - 1}) = IF page <= PageCount(total) - 1 THEN page ELSE PageCount(total) - 1
    BY <1>2, <2>1
  <2> QED BY <2>1, <2>2 DEF ClampPage
<1> QED BY <1>3, <1>4

LEMMA HeadsAreListed ==
    /\ \A rows \in Seq(ViewRow) : \A by : Len(Heads(rows, by)) \in Nat
    /\ \A by : Heads(<<>>, by) = <<>>
    /\ RowsOfPage(<<>>, 0) = <<>>
<1>1. ASSUME NEW rows \in Seq(ViewRow), NEW by PROVE Len(Heads(rows, by)) \in Nat
  <2> DEFINE keys == {KeyOf(rows[i], by) : i \in DOMAIN rows}
  <2>1. IsFiniteSet(DOMAIN rows)
    <3>1. DOMAIN rows = 1..Len(rows) /\ Len(rows) \in Nat
      OBVIOUS
    <3> QED BY <3>1, FS_Interval
  <2>2. IsFiniteSet(keys)
    <3> DEFINE g == [i \in DOMAIN rows |-> KeyOf(rows[i], by)]
    <3>1. g \in Surjection(DOMAIN rows, keys)
      BY DEF Surjection
    <3> QED BY <2>1, <3>1, FS_Surjection
  <2>3. Cardinality(keys) \in Nat
    BY <2>2, FS_CardinalityType
  <2> DEFINE F(n) == CHOOSE k \in keys : Cardinality({m \in keys : m < k}) = n - 1
  <2>4. Heads(rows, by) = [n \in 1..Cardinality(keys) |-> F(n)]
    BY DEF Heads
  <2> HIDE DEF keys, F
  <2>5. Heads(rows, by) \in Seq({F(n) : n \in 1..Cardinality(keys)})
    BY <2>3, <2>4
  <2> QED BY <2>5
<1>2. ASSUME NEW by PROVE Heads(<<>>, by) = <<>>
  <2>1. {KeyOf((<<>>)[i], by) : i \in DOMAIN <<>>} = {}
    OBVIOUS
  <2>2. Cardinality({}) = 0
    BY FS_EmptySet
  <2> DEFINE F(n) == CHOOSE k \in {} : Cardinality({m \in {} : m < k}) = n - 1
  <2>3. Heads(<<>>, by) = [n \in 1..Cardinality({}) |-> F(n)]
    BY <2>1 DEF Heads
  <2> HIDE DEF F
  <2>4. Heads(<<>>, by) = [n \in {} |-> F(n)]
    BY <2>2, <2>3
  <2> QED BY <2>4
<1>3. RowsOfPage(<<>>, 0) = <<>>
  <2>1. Min({0, ViewPage}) = 0
    <3>1. \A n \in {0, ViewPage} : (\A z \in {0, ViewPage} : n =< z) => n = 0
      BY ViewAssumption
    <3>2. 0 \in {0, ViewPage} /\ \A z \in {0, ViewPage} : 0 =< z
      BY ViewAssumption
    <3> QED BY <3>1, <3>2 DEF Min
  <2>2. RowsOfPage(<<>>, 0) = SubSeq(<<>>, 1, 0)
    <3>1. (0 + 1) * ViewPage = ViewPage /\ 0 * ViewPage + 1 = 1 /\ Len(<<>>) = 0
      BY ViewAssumption
    <3> QED BY <2>1, <3>1 DEF RowsOfPage
  <2> QED BY <2>2
<1> QED BY <1>1, <1>2, <1>3

\* What stamping and asking do to the reads: those of the kinds whats are retired, the
\* others are as they were, and what is asked is new.
Renews(rs, next, whats, new) ==
    /\ \A r \in next : IsRead(r)
    /\ \A r \in next : r.newest => (r \in rs /\ r.what \notin whats) \/ r \in new
    /\ \A r \in rs : r.newest /\ r.what \notin whats => r \in next
    /\ new \subseteq next

LEMMA RetiringRenews ==
    ASSUME NEW rs, NEW whats, \A r \in rs : IsRead(r)
    PROVE  Renews(rs, Retired(rs, whats), whats, {})
<1>1. ASSUME NEW q \in Retired(rs, whats)
      PROVE  IsRead(q) /\ (q.newest => q \in rs /\ q.what \notin whats)
  <2>1. PICK r \in rs : q = [r EXCEPT !.newest = r.newest /\ r.what \notin whats]
    BY DEF Retired
  <2>2. PICK b \in BOOLEAN : b = (r.newest /\ r.what \notin whats)
    OBVIOUS
  <2>3. IsRead(r)
    OBVIOUS
  <2>4. q = [what |-> r.what, page |-> r.page, sort |-> r.sort, group |-> r.group, key |-> r.key,
             reopen |-> r.reopen, newest |-> b, answered |-> r.answered, saw |-> r.saw]
    BY <2>1, <2>2, <2>3 DEF IsRead
  <2>5. IsRead(q)
    BY <2>3, <2>4 DEF IsRead
  <2>6. ASSUME q.newest PROVE q = r
    <3>1. r.newest = TRUE /\ b = TRUE
      BY <2>2, <2>3, <2>4, <2>6 DEF IsRead
    <3> QED BY <2>3, <2>4, <3>1 DEF IsRead
  <2> QED BY <2>2, <2>4, <2>5, <2>6
<1>2. ASSUME NEW r \in rs, r.newest, r.what \notin whats
      PROVE  r \in Retired(rs, whats)
  <2>1. IsRead(r) /\ r.newest = TRUE /\ (r.newest /\ r.what \notin whats) = TRUE
    BY <1>2 DEF IsRead
  <2>2. [r EXCEPT !.newest = r.newest /\ r.what \notin whats] = [r EXCEPT !.newest = TRUE]
    BY <2>1
  <2>3. r = [r EXCEPT !.newest = TRUE]
    BY <2>1 DEF IsRead
  <2> QED BY <2>2, <2>3 DEF Retired
<1> QED BY <1>1, <1>2 DEF Renews

LEMMA AskingIsARead ==
    ASSUME NEW what \in OfView \union OfGroup \union {"device"}, NEW v, NEW page \in Nat, NEW key, NEW reopen
    PROVE  LET r == Read(what, v, page, key, reopen)
           IN  /\ IsRead(r) /\ r.newest /\ ~r.answered /\ r.what = what /\ r.page = page
               /\ r.sort = v.sort /\ r.group = v.group /\ r.key = key
<1>1. <<>> \in Seq(ViewRow)
  OBVIOUS
<1> QED BY <1>1 DEF Read, IsRead

LEMMA RenewsAgain ==
    ASSUME NEW a, NEW b, NEW c, NEW k, NEW l, NEW m, NEW n,
           Renews(a, b, k, m), Renews(b, c, l, n), \A r \in m : r.newest /\ r.what \notin l
    PROVE  Renews(a, c, k \union l, m \union n)
  BY DEF Renews

LEMMA AddingRenews ==
    ASSUME NEW rs, NEW new, \A r \in rs : IsRead(r), \A r \in new : IsRead(r)
    PROVE  Renews(rs, rs \union new, {}, new)
  BY DEF Renews

LEMMA OneRenews ==
    ASSUME NEW rs, NEW whats, NEW new, \A r \in rs : IsRead(r), IsRead(new)
    PROVE  Renews(rs, Retired(rs, whats) \union {new}, whats, {new})
<1>1. Renews(rs, Retired(rs, whats), whats, {})
  BY RetiringRenews
<1>2. Renews(Retired(rs, whats), Retired(rs, whats) \union {new}, {}, {new})
  BY <1>1, AddingRenews DEF Renews
<1> QED BY <1>1, <1>2 DEF Renews

LEMMA PageRenews ==
    ASSUME NEW v, NEW rs, NEW page \in Nat, \A r \in rs : IsRead(r)
    PROVE  Renews(rs, FetchPage(v, rs, page), OfView, {Read("rows", v, page, 0, {})})
  BY OneRenews, AskingIsARead DEF OfView, FetchPage

LEMMA HeadsRenew ==
    ASSUME NEW v, NEW rs, NEW page \in Nat, NEW reopen, \A r \in rs : IsRead(r), v.group # "none"
    PROVE  Renews(rs, FetchHeads(v, rs, page, reopen), OfView, {Read("heads", v, page, 0, reopen)})
  BY OneRenews, AskingIsARead DEF OfView, FetchHeads

LEMMA DeviceRenews ==
    ASSUME NEW v, NEW rs, NEW key, \A r \in rs : IsRead(r)
    PROVE  Renews(rs, FetchDevice(v, rs, key), {"device"}, {Read("device", v, 0, key, {})})
  BY OneRenews, AskingIsARead DEF FetchDevice

\* The whole of the invariant after a step, from its parts.
LEMMA ViewPrimed ==
    ASSUME ViewInvOf(held', run', view', drill', reads', astray')
    PROVE  ViewInv'
  BY DEF ViewInv, ViewInvOf, Shaped, Stamped, OnScreen, IsTable, IsDialog, IsRun, IsRead, NewestOf,
     OfThisTable, OfThisGrouping, OfThisDialog, OpenHeld, SawThis, TableFit, MembersFit, DialogFit

\* The table is read anew: what is on screen may be out of date, what is read is not.
AsksFor(r, w) ==
    /\ IsRead(r) /\ r.newest /\ ~r.answered /\ r.page = w.page /\ r.sort = w.sort /\ r.group = w.group
    /\ r.what = IF w.group = "none" THEN "rows" ELSE "heads"

LEMMA TableIsAsked ==
    ASSUME NEW w, IsTable(w)
    PROVE  /\ w.group = "none" => AsksFor(Read("rows", w, w.page, 0, {}), w)
           /\ w.group # "none" => \A reopen : AsksFor(Read("heads", w, w.page, 0, reopen), w)
<1>1. w.page \in Nat
  BY DEF IsTable
<1> QED BY <1>1, AskingIsARead DEF AsksFor, OfView

LEMMA TableIsRead ==
    ASSUME NEW rs, NEW next, NEW w, NEW new, AsksFor(new, w), Renews(rs, next, OfView, {new})
    PROVE  /\ OfThisTable(next, w) /\ TableFit(next, w) /\ (SawThis(rs, w) => SawThis(next, w))
           /\ new.newest /\ ~new.answered /\ new.what \in OfView
<1>1. OfThisTable(next, w)
  BY DEF OfThisTable, NewestOf, Renews, OfView, AsksFor
<1>2. NewestOf(next, OfView) # {}
  BY DEF NewestOf, Renews, OfView, AsksFor
<1>3. SawThis(rs, w) => SawThis(next, w)
  BY DEF SawThis, Renews, AsksFor
<1>4. new.newest /\ ~new.answered /\ new.what \in OfView
  BY DEF OfView, AsksFor
<1> QED BY <1>1, <1>2, <1>3, <1>4 DEF TableFit

\* What it leaves of the groups' and the dialog's reads.
LEMMA OthersStay ==
    ASSUME NEW rs, NEW next, NEW new, NEW v, NEW d, Renews(rs, next, OfView, new),
           \A r \in new : r.newest /\ r.what \in OfView
    PROVE  /\ OfThisGrouping(rs, v) => OfThisGrouping(next, v)
           /\ OfThisDialog(rs, d) => OfThisDialog(next, d)
           /\ OpenHeld(rs, v) => OpenHeld(next, v)
           /\ DialogFit(rs, v, d) => DialogFit(next, v, d)
<1>1. NewestOf(next, {"device"}) = NewestOf(rs, {"device"}) /\ NewestOf(next, OfGroup) = NewestOf(rs, OfGroup)
  BY DEF NewestOf, Renews, OfView, OfGroup
<1>2. NewestOf(next, {"open"}) = NewestOf(rs, {"open"})
  BY DEF NewestOf, Renews, OfView
<1> QED BY <1>1, <1>2 DEF OfThisGrouping, OfThisDialog, OpenHeld, DialogFit

\* What the table is drawn from is as it was.
LEMMA TableAside ==
    ASSUME NEW h, NEW q, NEW v, NEW w, NEW d, NEW rs, NEW lost, ViewInvOf(h, q, v, d, rs, lost), IsTable(w),
           w.result = v.result, w.page = v.page, w.sort = v.sort, w.group = v.group, w.rows = v.rows,
           w.heads = v.heads, w.total = v.total, w.open = v.open, w.members = v.members
    PROVE  ViewInvOf(h, q, w, d, rs, lost)
  BY DEF ViewInvOf, Shaped, Stamped, OnScreen, OfThisTable, OfThisGrouping, OfThisDialog, OpenHeld,
     SawThis, TableFit, MembersFit, DialogFit

LEMMA AskedRuns ==
    /\ \A silent : IsRun(Asked(silent)) /\ Asked(silent).at = "asked"
    /\ IsRun(Idle) /\ Idle.at = "idle"
<1>1. <<>> \in Seq(ViewRow)
  OBVIOUS
<1>2. IsRun(Idle) /\ Idle.at = "idle" /\ Idle.found \in Seq(ViewRow)
  BY <1>1 DEF IsRun, Idle
<1>3. ASSUME NEW b PROVE IsRun(Asked(b)) /\ Asked(b).at = "asked"
  <2> DEFINE a == [Idle EXCEPT !.at = "asked"]
  <2>1. IsRun(a) /\ a.at = "asked"
    BY <1>2 DEF IsRun
  <2>2. Asked(b) = [a EXCEPT !.silent = b]
    BY DEF Asked
  <2> HIDE DEF a
  <2>3. Asked(b) = [at |-> a.at, silent |-> b, found |-> a.found, queued |-> a.queued]
    BY <2>1, <2>2 DEF IsRun
  <2> QED BY <2>1, <2>3 DEF IsRun
<1> QED BY <1>2, <1>3

LEMMA QueryAsked ==
    ASSUME NEW h, NEW v, NEW d, NEW rs, NEW lost, ViewInvOf(h, run, v, d, rs, lost),
           RunsQuery \/ (run.at = "idle" /\ run' = Asked(TRUE))
    PROVE  ViewInvOf(h, run', v, d, rs, lost)
<1>0. IsRun(run)
  BY DEF ViewInvOf, Shaped
<1>1. IsRun(run') /\ (run'.at = "stored" <=> run.at = "stored") /\ (run.at = "stored" => run'.found = run.found)
  <2>1. CASE run.at = "idle" /\ (run' = Asked(FALSE) \/ run' = Asked(TRUE))
    BY <2>1, AskedRuns
  <2>2. CASE run' = [run EXCEPT !.queued = TRUE]
    BY <1>0, <2>2 DEF IsRun
  <2>3. CASE run' = run
    BY <1>0, <2>3
  <2> QED BY <2>1, <2>2, <2>3 DEF RunsQuery
<1> QED BY <1>1 DEF ViewInvOf, Shaped

LEMMA ViewStarts == ResultViewInit => ViewInv
<1> SUFFICES ASSUME ResultViewInit PROVE ViewInv
  OBVIOUS
<1> USE DEF ResultViewInit
<1>1. <<>> \in Seq(ViewRow)
  OBVIOUS
<1>2. Shaped(held, run, view, drill, reads)
  BY <1>1 DEF Shaped, IsTable, EmptyView, IsDialog, NoDialog, IsRun, Idle, Groupings
<1>3. Stamped(view, drill, reads, astray)
  BY DEF Stamped, OfThisTable, OfThisGrouping, OfThisDialog, OpenHeld, NewestOf, EmptyView, NoDialog
<1>4. TableFit(reads, view)
  BY HeadsAreListed DEF TableFit, EmptyView, Sorted
<1>5. OnScreen(held, view, drill, reads, astray)
  BY <1>4 DEF OnScreen, SawThis, MembersFit, DialogFit, EmptyView, NoDialog
<1> QED BY <1>2, <1>3, <1>5 DEF ViewInv, ViewInvOf, Idle

LEMMA RunsOfView ==
    ASSUME ViewInv, RunsByHand \/ RunsByClock
    PROVE  ViewInv'
<1>1. /\ UNCHANGED <<held, view, drill, reads, astray>>
      /\ RunsQuery \/ (run.at = "idle" /\ run' = Asked(TRUE))
  BY DEF RunsByHand, RunsByClock
<1>2. ViewInvOf(held, run', view, drill, reads, astray)
  BY <1>1, QueryAsked DEF ViewInv
<1> QED BY <1>1, <1>2, ViewPrimed

LEMMA StoresOfView ==
    ASSUME ViewInv, Stores
    PROVE  ViewInv'
<1>0. UNCHANGED <<view, drill, reads, astray>>
  BY DEF Stores
<1>1. PICK found \in Results : held' = found /\ run' = [run EXCEPT !.at = "stored", !.found = found]
  BY DEF Stores
<1>2. found \in Seq(ViewRow)
  BY ViewAssumption DEF ViewRow
<1>3. IsRun(run') /\ run'.at = "stored" /\ run'.found = found
  BY <1>1, <1>2 DEF ViewInv, ViewInvOf, Shaped, IsRun
<1>4. ViewInvOf(held', run', view', drill', reads', astray')
  BY <1>0, <1>1, <1>2, <1>3 DEF ViewInv, ViewInvOf, Shaped
<1> QED BY <1>4, ViewPrimed

LEMMA SettlingEnds ==
    ASSUME RunSettles
    PROVE  IsRun(run') /\ run'.at # "stored"
  BY AskedRuns DEF RunSettles

LEMMA FailsOfView ==
    ASSUME ViewInv, RunFails
    PROVE  ViewInv'
<1>1. UNCHANGED <<held, drill, reads, astray>> /\ view' = [view EXCEPT !.error = TRUE] /\ run.at # "stored"
  BY DEF RunFails
<1>2. IsRun(run') /\ run'.at # "stored"
  BY SettlingEnds DEF RunFails
<1>3. ViewInvOf(held, run', view, drill, reads, astray)
  BY <1>1, <1>2 DEF ViewInv, ViewInvOf, Shaped
<1>4. ViewInvOf(held', run', view', drill', reads', astray')
  <2>1. IsTable(view)
    BY DEF ViewInv, ViewInvOf, Shaped
  <2>2. /\ IsTable(view') /\ view'.result = view.result /\ view'.page = view.page /\ view'.sort = view.sort
        /\ view'.group = view.group /\ view'.rows = view.rows /\ view'.heads = view.heads
        /\ view'.total = view.total /\ view'.open = view.open /\ view'.members = view.members
    BY <1>1, <2>1 DEF IsTable
  <2> QED BY <1>1, <1>3, <2>2, TableAside
<1> QED BY <1>4, ViewPrimed

LEMMA DismissOfView ==
    ASSUME ViewInv, DismissesError
    PROVE  ViewInv'
<1>1. UNCHANGED <<held, run, drill, reads, astray>> /\ view' = [view EXCEPT !.error = FALSE]
  BY DEF DismissesError
<1>2. ViewInvOf(held', run', view', drill', reads', astray')
  <2>1. IsTable(view)
    BY DEF ViewInv, ViewInvOf, Shaped
  <2>2. /\ IsTable(view') /\ view'.result = view.result /\ view'.page = view.page /\ view'.sort = view.sort
        /\ view'.group = view.group /\ view'.rows = view.rows /\ view'.heads = view.heads
        /\ view'.total = view.total /\ view'.open = view.open /\ view'.members = view.members
    BY <1>1, <2>1 DEF IsTable
  <2> QED BY <1>1, <2>2, TableAside DEF ViewInv
<1> QED BY <1>2, ViewPrimed

\* A new page, another order: the rows are fetched, the rest is as it was.
LEMMA FetchedOfView ==
    ASSUME ViewInv, UNCHANGED <<held, run, drill>>, ~astray', IsTable(view'), reads' = FetchShown(view', reads, view'.page),
           view'.result = view.result, view'.group = view.group, view'.open = view.open,
           view'.members = view.members
    PROVE  ViewInv'
<1> DEFINE new == IF view'.group = "none" THEN Read("rows", view', view'.page, 0, {})
                  ELSE Read("heads", view', view'.page, 0, {})
<1>1. Renews(reads, reads', OfView, {new})
  BY PageRenews, HeadsRenew DEF FetchShown, IsTable, ViewInv, ViewInvOf, Shaped
<1>2. AsksFor(new, view')
  BY TableIsAsked
<1> HIDE DEF new
<1>3. /\ OfThisTable(reads', view') /\ TableFit(reads', view') /\ (SawThis(reads, view') => SawThis(reads', view'))
      /\ new.newest /\ ~new.answered /\ new.what \in OfView
  BY <1>1, <1>2, TableIsRead
<1>4. /\ OfThisGrouping(reads, view') => OfThisGrouping(reads', view')
      /\ OfThisDialog(reads, drill) => OfThisDialog(reads', drill)
      /\ OpenHeld(reads, view') => OpenHeld(reads', view')
      /\ DialogFit(reads, view', drill) => DialogFit(reads', view', drill)
  BY <1>1, <1>3, OthersStay
<1>5. /\ OfThisGrouping(reads, view) => OfThisGrouping(reads, view')
      /\ OpenHeld(reads, view) => OpenHeld(reads, view')
      /\ DialogFit(reads, view, drill) => DialogFit(reads, view', drill)
      /\ SawThis(reads, view) => SawThis(reads, view')
      /\ MembersFit(view) => MembersFit(view')
  BY DEF OfThisGrouping, OpenHeld, DialogFit, SawThis, MembersFit
<1>6. Shaped(held', run', view', drill', reads')
  BY <1>1 DEF Shaped, ViewInv, ViewInvOf, Renews
<1>7. Stamped(view', drill', reads', astray')
  BY <1>3, <1>4, <1>5 DEF Stamped, ViewInv, ViewInvOf
<1>8. OnScreen(held, view, drill, reads, astray) => OnScreen(held', view', drill', reads', astray')
  BY <1>3, <1>4, <1>5 DEF OnScreen
<1>9. ViewInvOf(held', run', view', drill', reads', astray')
  BY <1>6, <1>7, <1>8 DEF ViewInv, ViewInvOf
<1> QED BY <1>9, ViewPrimed

LEMMA TurnsOfView ==
    ASSUME ViewInv, TurnsPage
    PROVE  ViewInv'
<1>0. IsTable(view)
  BY DEF ViewInv, ViewInvOf, Shaped
<1>1. PICK page \in 0..(PageCount(IF view.group = "none" THEN Len(view.result) ELSE view.total) - 1) :
         view' = [view EXCEPT !.page = page] /\ reads' = FetchShown(view, reads, page)
  BY DEF TurnsPage
<1>2. page \in Nat
  <2>1. (IF view.group = "none" THEN Len(view.result) ELSE view.total) \in Nat
    BY <1>0 DEF IsTable
  <2> QED BY <2>1, PagesExist
<1>3. /\ IsTable(view') /\ view'.page = page /\ view'.result = view.result /\ view'.group = view.group
      /\ view'.open = view.open /\ view'.members = view.members /\ view'.sort = view.sort
  BY <1>0, <1>1, <1>2 DEF IsTable
<1>4. FetchShown(view', reads, page) = FetchShown(view, reads, page)
  BY <1>3 DEF FetchShown, FetchPage, FetchHeads, Read
<1> QED BY <1>1, <1>3, <1>4, FetchedOfView DEF TurnsPage, KeepsResult

LEMMA SortsOfView ==
    ASSUME ViewInv, CyclesSort
    PROVE  ViewInv'
<1>0. IsTable(view)
  BY DEF ViewInv, ViewInvOf, Shaped
<1>1. /\ view' = [view EXCEPT !.sort = NextSort(view.sort), !.page = 0] /\ view.group = "none"
      /\ reads' = FetchPage(view', reads, 0)
  BY DEF CyclesSort
<1>2. /\ IsTable(view') /\ view'.page = 0 /\ view'.result = view.result /\ view'.group = view.group
      /\ view'.open = view.open /\ view'.members = view.members
  BY <1>0, <1>1 DEF IsTable
<1> QED BY <1>1, <1>2, FetchedOfView DEF CyclesSort, KeepsResult, FetchShown

LEMMA LostMore ==
    ASSUME NEW h, NEW q, NEW v, NEW d, NEW rs, NEW lost, NEW more, ViewInvOf(h, q, v, d, rs, lost),
           ~more => ~lost
    PROVE  ViewInvOf(h, q, v, d, rs, more)
  BY DEF ViewInvOf, Stamped, OnScreen

\* Another grouping forgets the groups, and their reads are retired.
LEMMA GroupsForgotten ==
    ASSUME NEW rs, NEW next, NEW v, NEW w, NEW d, Renews(rs, next, OfGroup, {}),
           w.result = v.result, w.open = {}, w.members = {}
    PROVE  /\ OfThisGrouping(next, w) /\ OpenHeld(next, w) /\ MembersFit(w)
           /\ OfThisDialog(rs, d) => OfThisDialog(next, d)
           /\ DialogFit(rs, v, d) => DialogFit(next, w, d)
           /\ SawThis(rs, v) => SawThis(next, w)
<1>1. NewestOf(next, OfGroup) = {} /\ NewestOf(next, {"device"}) = NewestOf(rs, {"device"})
  BY DEF NewestOf, Renews, OfGroup
<1>2. SawThis(rs, v) => SawThis(next, w)
  BY DEF SawThis, Renews
<1> QED BY <1>1, <1>2 DEF OfThisGrouping, OpenHeld, MembersFit, OfThisDialog, DialogFit

\* Another grouping, that shows its first page.
LEMMA GroupedAnew ==
    ASSUME NEW h, NEW q, NEW v, NEW w, NEW d, NEW rs, NEW lost, NEW more, ViewInvOf(h, q, v, d, rs, lost),
           IsTable(w), w.group \in Groupings, w.result = v.result, w.page = 0, w.open = {}, w.members = {}
    PROVE  ViewInvOf(h, q, w, d, FetchShown(w, Retired(rs, OfGroup), 0), more)
<1> DEFINE mid == Retired(rs, OfGroup)
           next == FetchShown(w, mid, 0)
           new == IF w.group = "none" THEN Read("rows", w, w.page, 0, {}) ELSE Read("heads", w, w.page, 0, {})
<1>1. \A r \in rs : IsRead(r)
  BY DEF ViewInvOf, Shaped
<1>2. Renews(rs, mid, OfGroup, {})
  BY <1>1, RetiringRenews
<1>3. Renews(mid, next, OfView, {new})
  <2>1. \A r \in mid : IsRead(r)
    BY <1>2 DEF Renews
  <2> QED BY <2>1, PageRenews, HeadsRenew DEF FetchShown
<1>4. AsksFor(new, w)
  BY TableIsAsked
<1> HIDE DEF mid, next, new
<1>5. /\ OfThisTable(next, w) /\ TableFit(next, w) /\ (SawThis(mid, w) => SawThis(next, w))
      /\ new.newest /\ ~new.answered /\ new.what \in OfView
  BY <1>3, <1>4, TableIsRead
<1>6. /\ OfThisGrouping(mid, w) => OfThisGrouping(next, w)
      /\ OfThisDialog(mid, d) => OfThisDialog(next, d)
      /\ OpenHeld(mid, w) => OpenHeld(next, w)
      /\ DialogFit(mid, w, d) => DialogFit(next, w, d)
  BY <1>3, <1>5, OthersStay
<1>7. /\ OfThisGrouping(mid, w) /\ OpenHeld(mid, w) /\ MembersFit(w)
      /\ OfThisDialog(rs, d) => OfThisDialog(mid, d)
      /\ DialogFit(rs, v, d) => DialogFit(mid, w, d)
      /\ SawThis(rs, v) => SawThis(mid, w)
  BY <1>2, GroupsForgotten
<1>8. Shaped(h, q, w, d, next)
  BY <1>3 DEF Shaped, ViewInvOf, Renews
<1>9. Stamped(w, d, next, more)
  BY <1>5, <1>6, <1>7 DEF Stamped, ViewInvOf
<1>10. OnScreen(h, v, d, rs, lost) => OnScreen(h, w, d, next, more)
  BY <1>5, <1>6, <1>7 DEF OnScreen
<1>11. ViewInvOf(h, q, w, d, next, more)
  BY <1>8, <1>9, <1>10 DEF ViewInvOf
<1> QED BY <1>11 DEF mid, next

Forgotten(v, by) == [Regrouped(v, by) EXCEPT !.open = {}, !.members = {}]

LEMMA RegroupedTable ==
    ASSUME NEW v, NEW by, NEW w, IsTable(v), w = Forgotten(v, by)
    PROVE  /\ IsTable(w) /\ w.group = by /\ w.result = v.result /\ w.page = v.page
           /\ w.open = {} /\ w.members = {}
<1>1. PICK a : a = [v EXCEPT !.group = by]
  OBVIOUS
<1>2. PICK b : b = [a EXCEPT !.heads = <<>>, !.total = 0]
  OBVIOUS
<1>3. w = [b EXCEPT !.open = {}, !.members = {}]
  BY <1>1, <1>2 DEF Forgotten, Regrouped, ClearHeads
<1>4. IsTable(a) /\ a.group = by /\ a.result = v.result /\ a.page = v.page
  BY <1>1 DEF IsTable
<1>5. IsTable(b) /\ b.group = by /\ b.result = v.result /\ b.page = v.page
  BY <1>2, <1>4 DEF IsTable
<1> QED BY <1>3, <1>5 DEF IsTable

LEMMA SettingGroups ==
    ASSUME ViewInv, NEW by \in Groupings \ {view.group}, SetsGroupBy(by), NEW more
    PROVE  ViewInvOf(held, run, view', drill, reads', more)
<1> DEFINE w == [Regrouped([view EXCEPT !.page = 0], by) EXCEPT !.open = {}, !.members = {}]
<1>1. view' = w /\ reads' = FetchShown(w, Retired(reads, OfGroup), 0)
  BY DEF SetsGroupBy, ResetMembers
<1>2. IsTable(view)
  BY DEF ViewInv, ViewInvOf, Shaped
<1>3. PICK a : a = [view EXCEPT !.page = 0]
  OBVIOUS
<1>4. IsTable(a) /\ a.page = 0 /\ a.result = view.result
  BY <1>2, <1>3 DEF IsTable
<1>6. PICK x : x = Forgotten(a, by)
  OBVIOUS
<1>7. /\ IsTable(x) /\ x.group = by /\ x.result = a.result /\ x.page = a.page
      /\ x.open = {} /\ x.members = {}
  BY <1>4, <1>6, RegroupedTable
<1>8. w = x
  BY <1>3, <1>6 DEF Forgotten
<1> HIDE DEF w
<1>5. ViewInvOf(held, run, w, drill, FetchShown(w, Retired(reads, OfGroup), 0), more)
  BY <1>4, <1>7, <1>8, GroupedAnew DEF ViewInv
<1> QED BY <1>1, <1>5

LEMMA GroupsOfView ==
    ASSUME ViewInv, GroupsBy
    PROVE  ViewInv'
<1>1. PICK by \in Groupings \ {view.group} : SetsGroupBy(by)
  BY DEF GroupsBy
<1>2. UNCHANGED <<held, run, drill>>
  BY DEF GroupsBy, KeepsResult
<1>3. \A more : ViewInvOf(held, run, view', drill, reads', more)
  BY <1>1, SettingGroups
<1> QED BY <1>2, <1>3, ViewPrimed

LEMMA DrillsOfView ==
    ASSUME ViewInv, DrillsToRows
    PROVE  ViewInv'
<1>0. RunsQuery /\ UNCHANGED <<held, drill>> /\ IsTable(view)
  BY DEF DrillsToRows, ViewInv, ViewInvOf, Shaped
<1>1. ViewInvOf(held, run, view', drill, reads', astray')
  <2>1. CASE view.group = "none"
    <3>1. view' = [view EXCEPT !.page = 0] /\ reads' = reads
      BY <2>1 DEF DrillsToRows
    <3>2. CASE astray'
      <4>1. ViewInvOf(held, run, view, drill, reads, astray')
        BY <3>2, LostMore DEF ViewInv
      <4>2. /\ IsTable(view') /\ view'.result = view.result /\ view'.group = view.group
            /\ view'.open = view.open /\ view'.members = view.members
        BY <1>0, <3>1 DEF IsTable
      <4> QED BY <3>1, <3>2, <4>1, <4>2 DEF ViewInvOf, Shaped, Stamped, OnScreen, OfThisGrouping,
            OfThisDialog, OpenHeld, SawThis, MembersFit, DialogFit
    <3>3. CASE ~astray'
      <4>1. ~astray /\ view.page = 0
        BY <2>1, <3>3 DEF DrillsToRows
      <4>2. view' = view
        BY <1>0, <3>1, <4>1 DEF IsTable
      <4> QED BY <3>1, <4>1, <4>2, LostMore DEF ViewInv
    <3> QED BY <3>2, <3>3
  <2>2. CASE view.group # "none"
    <3>1. SetsGroupBy("none") /\ "none" \in Groupings \ {view.group}
      BY <2>2 DEF DrillsToRows, Groupings
    <3> QED BY <3>1, SettingGroups
  <2> QED BY <2>1, <2>2
<1>2. ViewInvOf(held, run', view', drill, reads', astray')
  BY <1>0, <1>1, QueryAsked
<1> QED BY <1>0, <1>2, ViewPrimed

LEMMA LinksOfView ==
    ASSUME ViewInv, AppliesLink
    PROVE  ViewInv'
<1>0. RunsQuery /\ UNCHANGED <<held, drill>> /\ IsTable(view)
  BY DEF AppliesLink, ViewInv, ViewInvOf, Shaped
<1> DEFINE w(by) == [Regrouped(view, by) EXCEPT !.open = {}, !.members = {}]
<1>1. PICK by \in Groupings, order \in Orders :
         /\ view' = [(IF by = view.group THEN view ELSE w(by)) EXCEPT !.sortNext = order]
         /\ reads' = IF by = view.group THEN reads ELSE Retired(reads, OfGroup)
         /\ astray' = (astray \/ by # view.group)
  BY DEF AppliesLink, ResetMembers
<1>2. ViewInvOf(held, run, view', drill, reads', astray')
  <2>1. CASE by = view.group
    <3>1. view' = [view EXCEPT !.sortNext = order] /\ reads' = reads /\ (~astray' => ~astray)
      BY <1>1, <2>1
    <3>2. ViewInvOf(held, run, view, drill, reads, astray')
      BY <3>1, LostMore DEF ViewInv
    <3>3. /\ IsTable(view') /\ view'.result = view.result /\ view'.page = view.page /\ view'.sort = view.sort
          /\ view'.group = view.group /\ view'.rows = view.rows /\ view'.heads = view.heads
          /\ view'.total = view.total /\ view'.open = view.open /\ view'.members = view.members
      BY <1>0, <3>1 DEF IsTable
    <3> QED BY <3>1, <3>2, <3>3, TableAside
  <2>2. CASE by # view.group
    <3>0. PICK x : x = Forgotten(view, by)
      OBVIOUS
    <3>1. /\ IsTable(x) /\ x.group = by /\ x.result = view.result
          /\ x.open = {} /\ x.members = {}
      BY <1>0, <3>0, RegroupedTable
    <3>2. view' = [x EXCEPT !.sortNext = order] /\ reads' = Retired(reads, OfGroup) /\ astray'
      BY <1>1, <2>2, <3>0 DEF Forgotten
    <3> HIDE DEF w
    <3>3. /\ IsTable(view') /\ view'.result = view.result /\ view'.group = by
          /\ view'.open = {} /\ view'.members = {}
      BY <1>0, <3>1, <3>2 DEF IsTable
    <3>4. Renews(reads, reads', OfGroup, {})
      BY <3>2, RetiringRenews DEF ViewInv, ViewInvOf, Shaped
    <3>5. /\ OfThisGrouping(reads', view') /\ OpenHeld(reads', view') /\ MembersFit(view')
          /\ OfThisDialog(reads, drill) => OfThisDialog(reads', drill)
          /\ DialogFit(reads, view, drill) => DialogFit(reads', view', drill)
          /\ SawThis(reads, view) => SawThis(reads', view')
      BY <3>3, <3>4, GroupsForgotten
    <3> QED BY <3>2, <3>3, <3>4, <3>5 DEF ViewInv, ViewInvOf, Shaped, Stamped, OnScreen, Renews
  <2> QED BY <2>1, <2>2
<1>3. ViewInvOf(held, run', view', drill, reads', astray')
  BY <1>0, <1>2, QueryAsked
<1> QED BY <1>0, <1>3, ViewPrimed

\* Groups that open are on screen, or are read.
LEMMA OpeningFits ==
    ASSUME NEW h, NEW q, NEW v, NEW w, NEW d, NEW rs, NEW next, NEW keys, NEW lost, NEW o,
           ViewInvOf(h, q, v, d, rs, lost), o = OpenAll(v, rs, keys), w = o.view, next = o.reads
    PROVE  ViewInvOf(h, q, w, d, next, lost)
<1>1. /\ w = [v EXCEPT !.open = v.open \union keys]
      /\ next = rs \union {Read("open", v, 0, k, {}) : k \in {k \in keys : ~Loaded(v, k)}}
  BY DEF OpenAll
<1>2. IsTable(v) /\ v.group \in Groupings /\ \A r \in rs : IsRead(r)
  BY DEF ViewInvOf, Shaped
<1>3. /\ IsTable(w) /\ w.result = v.result /\ w.page = v.page /\ w.sort = v.sort /\ w.group = v.group
      /\ w.rows = v.rows /\ w.heads = v.heads /\ w.total = v.total /\ w.members = v.members
      /\ w.open = v.open \union keys
  BY <1>1, <1>2 DEF IsTable
<1>4. \A k : /\ IsRead(Read("open", v, 0, k, {})) /\ Read("open", v, 0, k, {}).newest
             /\ ~Read("open", v, 0, k, {}).answered
             /\ Read("open", v, 0, k, {}).what = "open" /\ Read("open", v, 0, k, {}).group = v.group
             /\ Read("open", v, 0, k, {}).key = k
  <2> TAKE k
  <2>1. PICK what, none : what = "open" /\ none = {}
    OBVIOUS
  <2>2. what \in OfView \union OfGroup \union {"device"} /\ 0 \in Nat
    BY <2>1 DEF OfGroup
  <2>3. PICK r : r = Read(what, v, 0, k, none)
    OBVIOUS
  <2>4. IsRead(r) /\ r.newest /\ ~r.answered /\ r.what = what /\ r.group = v.group /\ r.key = k
    BY <2>2, <2>3, AskingIsARead
  <2> QED BY <2>1, <2>3, <2>4
<1>5. /\ \A r \in next : IsRead(r) /\ (r \in rs \/ (r.what = "open" /\ r.group = v.group /\ ~r.answered))
      /\ rs \subseteq next
  <2>1. ASSUME NEW r \in next
        PROVE  IsRead(r) /\ (r \in rs \/ (r.what = "open" /\ r.group = v.group /\ ~r.answered))
    <3>1. CASE r \in rs
      BY <1>2, <3>1
    <3>2. CASE \E k \in keys : r = Read("open", v, 0, k, {})
      BY <1>4, <3>2
    <3> QED BY <1>1, <3>1, <3>2
  <2>2. rs \subseteq next
    BY <1>1
  <2> QED BY <2>1, <2>2
<1>6. NewestOf(next, OfView) = NewestOf(rs, OfView) /\ NewestOf(next, {"device"}) = NewestOf(rs, {"device"})
  <2>1. "open" \notin OfView /\ "open" \notin {"device"}
    BY DEF OfView
  <2>2. \A r \in next : r.what \in OfView \/ r.what \in {"device"} => r \in rs
    BY <1>5, <2>1
  <2> QED BY <1>5, <2>2 DEF NewestOf
<1>7. OpenHeld(rs, v) => OpenHeld(next, w)
  <2> SUFFICES ASSUME OpenHeld(rs, v), NEW k \in w.open
               PROVE  (\E m \in w.members : m.key = k)
                      \/ \E r \in NewestOf(next, {"open"}) : r.key = k /\ r.group = w.group
    BY DEF OpenHeld
  <2>1. CASE k \in v.open
    BY <1>3, <1>5, <2>1 DEF OpenHeld, NewestOf
  <2>2. CASE k \in keys /\ Loaded(v, k)
    BY <1>3, <2>2 DEF Loaded
  <2>3. CASE k \in keys /\ ~Loaded(v, k)
    <3>1. Read("open", v, 0, k, {}) \in NewestOf(next, {"open"})
      BY <1>1, <1>4, <2>3 DEF NewestOf
    <3> QED BY <1>3, <1>4, <3>1
  <2> QED BY <1>3, <2>1, <2>2, <2>3
<1>8. OfThisGrouping(rs, v) => OfThisGrouping(next, w)
  BY <1>3, <1>5 DEF OfThisGrouping, NewestOf
<1>9. /\ OfThisTable(rs, v) => OfThisTable(next, w)
      /\ OfThisDialog(rs, d) => OfThisDialog(next, d)
      /\ DialogFit(rs, v, d) => DialogFit(next, w, d)
      /\ TableFit(rs, v) => TableFit(next, w)
      /\ MembersFit(v) => MembersFit(w)
  BY <1>3, <1>6 DEF OfThisTable, OfThisDialog, DialogFit, TableFit, MembersFit
<1>10. SawThis(rs, v) => SawThis(next, w)
  BY <1>3, <1>5 DEF SawThis
<1> QED BY <1>2, <1>3, <1>5, <1>7, <1>8, <1>9, <1>10 DEF ViewInvOf, Shaped, Stamped, OnScreen

LEMMA TogglesOfView ==
    ASSUME ViewInv, TogglesGroup
    PROVE  ViewInv'
<1>0. UNCHANGED <<held, run, drill, astray>> /\ IsTable(view)
  BY DEF TogglesGroup, KeepsResult, ViewInv, ViewInvOf, Shaped
<1>1. PICK key : IF key \in view.open
                 THEN view' = [view EXCEPT !.open = @ \ {key}] /\ UNCHANGED reads
                 ELSE LET opened == OpenAll(view, reads, {key})
                      IN  view' = opened.view /\ reads' = opened.reads
  BY DEF TogglesGroup
<1>2. CASE key \in view.open
  <2>1. view' = [view EXCEPT !.open = view.open \ {key}] /\ reads' = reads
    BY <1>1, <1>2
  <2>2. /\ IsTable(view') /\ view'.result = view.result /\ view'.page = view.page /\ view'.sort = view.sort
        /\ view'.group = view.group /\ view'.rows = view.rows /\ view'.heads = view.heads
        /\ view'.total = view.total /\ view'.open = view.open \ {key} /\ view'.members = view.members
    BY <1>0, <2>1 DEF IsTable
  <2>3. ViewInvOf(held', run', view', drill', reads', astray')
    BY <1>0, <2>1, <2>2 DEF ViewInv, ViewInvOf, Shaped, Stamped, OnScreen, OfThisTable, OfThisGrouping,
       OfThisDialog, OpenHeld, SawThis, TableFit, MembersFit, DialogFit
  <2> QED BY <2>3, ViewPrimed
<1>3. CASE key \notin view.open
  <2>1. PICK o : o = OpenAll(view, reads, {key})
    OBVIOUS
  <2>2. view' = o.view /\ reads' = o.reads
    BY <1>1, <1>3, <2>1
  <2>3. ViewInvOf(held, run, view', drill, reads', astray)
    BY <2>1, <2>2, OpeningFits DEF ViewInv
  <2> QED BY <1>0, <2>3, ViewPrimed
<1> QED BY <1>2, <1>3

LEMMA TicksOfView ==
    ASSUME ViewInv, TicksGroup
    PROVE  ViewInv'
<1>0. UNCHANGED <<held, run, view, drill, astray>> /\ IsTable(view) /\ \A r \in reads : IsRead(r)
  BY DEF TicksGroup, KeepsResult, ViewInv, ViewInvOf, Shaped
<1>1. PICK key : reads' = reads \union {Read("tick", view, 0, key, {})}
  BY DEF TicksGroup
<1>2. PICK new : new = Read("tick", view, 0, key, {})
  OBVIOUS
<1>3. IsRead(new) /\ new.newest /\ ~new.answered /\ new.what = "tick" /\ new.group = view.group
  BY <1>2, AskingIsARead DEF OfGroup, OfView
<1>4. reads' = reads \union {new}
  BY <1>1, <1>2
<1>5. /\ NewestOf(reads', OfView) = NewestOf(reads, OfView)
      /\ NewestOf(reads', {"device"}) = NewestOf(reads, {"device"})
      /\ NewestOf(reads', {"open"}) = NewestOf(reads, {"open"})
      /\ NewestOf(reads', OfGroup) = NewestOf(reads, OfGroup) \union {new}
  BY <1>3, <1>4 DEF NewestOf, OfView, OfGroup
<1>6. ViewInvOf(held, run, view, drill, reads', astray)
  BY <1>0, <1>3, <1>4, <1>5 DEF ViewInv, ViewInvOf, Shaped, Stamped, OnScreen, OfThisTable, OfThisGrouping,
     OfThisDialog, OpenHeld, SawThis, TableFit, MembersFit, DialogFit
<1> QED BY <1>0, <1>6, ViewPrimed

\* The dialog's reads are renewed.
LEMMA DialogAsked ==
    ASSUME NEW h, NEW q, NEW v, NEW d, NEW e, NEW rs, NEW next, NEW new, NEW lost,
           ViewInvOf(h, q, v, d, rs, lost), Renews(rs, next, {"device"}, new), IsDialog(e),
           \A r \in new : /\ r.newest /\ r.what = "device" /\ ~r.answered
                          /\ e.load # "closed" /\ e.device = r.key,
           new = {} => e.load = "closed"
    PROVE  ViewInvOf(h, q, v, e, next, lost)
<1>1. /\ NewestOf(next, OfView) = NewestOf(rs, OfView) /\ NewestOf(next, OfGroup) = NewestOf(rs, OfGroup)
      /\ NewestOf(next, {"open"}) = NewestOf(rs, {"open"})
      /\ NewestOf(next, {"device"}) = new
  BY DEF NewestOf, Renews, OfView, OfGroup
<1>2. OfThisDialog(next, e) /\ DialogFit(next, v, e)
  BY <1>1 DEF OfThisDialog, DialogFit
<1>3. SawThis(rs, v) => SawThis(next, v)
  BY DEF SawThis, Renews
<1>4. \A r \in next : IsRead(r)
  BY DEF Renews
<1> QED BY <1>1, <1>2, <1>3, <1>4 DEF ViewInvOf, Shaped, Stamped, OnScreen, OfThisTable, OfThisGrouping,
      OpenHeld, TableFit

LEMMA OpensOfView ==
    ASSUME ViewInv, OpensDevice
    PROVE  ViewInv'
<1>0. UNCHANGED <<held, run, view, astray>> /\ \A r \in reads : IsRead(r)
  BY DEF OpensDevice, KeepsResult, ViewInv, ViewInvOf, Shaped
<1>1. PICK key : /\ drill' = [NoDialog EXCEPT !.device = key, !.load = "loading"]
                 /\ reads' = FetchDevice(view, reads, key)
  BY DEF OpensDevice
<1>2. IsDialog(drill') /\ drill'.device = key /\ drill'.load = "loading"
  BY <1>1 DEF NoDialog, IsDialog
<1>3. PICK new : new = Read("device", view, 0, key, {})
  OBVIOUS
<1>4. new.newest /\ new.what = "device" /\ ~new.answered /\ new.key = key
  BY <1>3, AskingIsARead
<1>5. Renews(reads, reads', {"device"}, {new})
  BY <1>0, <1>1, <1>3, DeviceRenews
<1>6. ViewInvOf(held, run, view, drill', reads', astray)
  BY <1>2, <1>4, <1>5, DialogAsked DEF ViewInv
<1> QED BY <1>0, <1>6, ViewPrimed

LEMMA ClosesOfView ==
    ASSUME ViewInv, ClosesDevice
    PROVE  ViewInv'
<1>0. UNCHANGED <<held, run, view, astray>> /\ \A r \in reads : IsRead(r)
  BY DEF ClosesDevice, KeepsResult, ViewInv, ViewInvOf, Shaped
<1>1. drill' = NoDialog /\ reads' = Retired(reads, {"device"})
  BY DEF ClosesDevice
<1>2. IsDialog(NoDialog) /\ NoDialog.load = "closed"
  BY DEF NoDialog, IsDialog
<1>3. Renews(reads, reads', {"device"}, {})
  BY <1>0, <1>1, RetiringRenews
<1>4. ViewInvOf(held, run, view, drill', reads', astray)
  BY <1>1, <1>2, <1>3, DialogAsked DEF ViewInv
<1> QED BY <1>0, <1>4, ViewPrimed

LEMMA ClearsOfView ==
    ASSUME ViewInv, ClearsResults
    PROVE  ViewInv'
<1> DEFINE all == OfView \union OfGroup \union {"device"}
<1>0. /\ run' = run /\ held' = <<>> /\ drill' = NoDialog /\ view' = [EmptyView EXCEPT !.group = view.group]
      /\ reads' = Retired(reads, all) /\ view.group \in Groupings /\ IsRun(run) /\ \A r \in reads : IsRead(r)
      /\ run.at # "stored"
  BY DEF ClearsResults, ViewInv, ViewInvOf, Shaped
<1>1. Renews(reads, reads', all, {})
  BY <1>0, RetiringRenews
<1>2. \A r \in reads' : IsRead(r) /\ ~r.newest
  BY <1>0, <1>1 DEF Renews, IsRead
<1>3. \A whats : NewestOf(reads', whats) = {}
  BY <1>2 DEF NewestOf
<1>4. <<>> \in Seq(ViewRow)
  OBVIOUS
<1>5. view' = [result |-> <<>>, page |-> 0, sort |-> "canonical", sortNext |-> "canonical",
              group |-> view.group, rows |-> <<>>, heads |-> <<>>, total |-> 0,
              open |-> {}, members |-> {}, error |-> FALSE]
  BY <1>0 DEF EmptyView
<1>6. IsTable(view') /\ view'.group \in Groupings
  <2>1. view'.result \in Seq(ViewRow) /\ view'.page \in Nat /\ view'.total \in Nat
    BY <1>4, <1>5
  <2> QED BY <1>0, <1>5, <2>1 DEF IsTable
<1>7. IsDialog(drill') /\ drill'.load = "closed"
  BY <1>0 DEF IsDialog, NoDialog
<1>8. TableFit(reads', view')
  <2>1. view'.group = "none" => view'.rows = RowsOfPage(Sorted(view'.result, view'.sort), view'.page)
    BY <1>5, HeadsAreListed DEF Sorted
  <2>2. 0 \in Nat /\ Len(<<>>) = 0 /\ 0 < PageCount(0)
    BY PagesExist
  <2>3. view'.group # "none" => /\ view'.total = Len(Heads(view'.result, view'.group))
                                /\ view'.page < PageCount(view'.total)
                                /\ view'.heads = RowsOfPage(Heads(view'.result, view'.group), view'.page)
    <3>1. Heads(view'.result, view'.group) = <<>>
      BY <1>5, HeadsAreListed
    <3>2. view'.total = 0 /\ view'.page = 0 /\ view'.heads = <<>>
      BY <1>5
    <3> QED BY <2>2, <3>1, <3>2, HeadsAreListed
  <2> QED BY <2>1, <2>3 DEF TableFit
<1>9. Stamped(view', drill', reads', astray')
  <2>1. view'.open = {}
    BY <1>5
  <2> QED BY <2>1, <1>3, <1>7 DEF Stamped, OfThisTable, OfThisGrouping, OfThisDialog, OpenHeld
<1>10. OnScreen(held', view', drill', reads', astray')
  <2>1. view'.result = <<>> /\ view'.members = {}
    BY <1>5
  <2> QED BY <1>0, <1>2, <1>7, <1>8, <2>1 DEF OnScreen, SawThis, MembersFit, DialogFit
<1>11. ViewInvOf(held', run', view', drill', reads', astray')
  BY <1>0, <1>2, <1>4, <1>6, <1>7, <1>9, <1>10 DEF ViewInvOf, Shaped
<1> QED BY <1>11, ViewPrimed

AnswerTo(r, yes, saw) == [r EXCEPT !.answered = yes, !.saw = saw]

LEMMA AnsweringIsARead ==
    ASSUME NEW r, NEW b, NEW yes \in BOOLEAN, NEW saw \in Seq(ViewRow), IsRead(r),
           b = AnswerTo(r, yes, saw)
    PROVE  /\ IsRead(b) /\ b.newest = r.newest /\ b.what = r.what /\ b.page = r.page /\ b.sort = r.sort
           /\ b.group = r.group /\ b.key = r.key /\ b.saw = saw
<1>1. b = [what |-> r.what, page |-> r.page, sort |-> r.sort, group |-> r.group, key |-> r.key,
           reopen |-> r.reopen, newest |-> r.newest, answered |-> yes, saw |-> saw]
  BY DEF IsRead, AnswerTo
<1> QED BY <1>1 DEF IsRead

LEMMA ServesOfView ==
    ASSUME ViewInv, ServesRead
    PROVE  ViewInv'
<1>0. UNCHANGED <<held, run, view, drill, astray>> /\ \A r \in reads : IsRead(r)
  BY DEF ServesRead, ViewInv, ViewInvOf, Shaped
<1>1. PICK r \in reads : reads' = (reads \ {r}) \union {[r EXCEPT !.answered = TRUE, !.saw = held]}
  BY DEF ServesRead
<1>2. PICK b : b = [r EXCEPT !.answered = TRUE, !.saw = held]
  OBVIOUS
<1>3. PICK yes \in BOOLEAN : yes = TRUE
  OBVIOUS
<1>4. /\ IsRead(b) /\ b.newest = r.newest /\ b.what = r.what /\ b.page = r.page /\ b.sort = r.sort
      /\ b.group = r.group /\ b.key = r.key /\ b.saw = held
  <2>1. held \in Seq(ViewRow)
    BY DEF ViewInv, ViewInvOf, Shaped
  <2>2. b = AnswerTo(r, yes, held)
    BY <1>2, <1>3 DEF AnswerTo
  <2> QED BY <1>0, <2>1, <2>2, AnsweringIsARead
<1>5. reads' = (reads \ {r}) \union {b}
  BY <1>1, <1>2
<1>6. \A whats : NewestOf(reads', whats) = {} <=> NewestOf(reads, whats) = {}
  BY <1>4, <1>5 DEF NewestOf
<1>7. OfThisTable(reads, view) => OfThisTable(reads', view)
  BY <1>4, <1>5 DEF OfThisTable, NewestOf
<1>8. OfThisGrouping(reads, view) => OfThisGrouping(reads', view)
  BY <1>4, <1>5 DEF OfThisGrouping, NewestOf
<1>9. OfThisDialog(reads, drill) => OfThisDialog(reads', drill)
  BY <1>4, <1>5, <1>6 DEF OfThisDialog, NewestOf
<1>10. OpenHeld(reads, view) => OpenHeld(reads', view)
  BY <1>4, <1>5 DEF OpenHeld, NewestOf
<1>11. held = view.result /\ SawThis(reads, view) => SawThis(reads', view)
  BY <1>4, <1>5 DEF SawThis
<1>12. (TableFit(reads, view) => TableFit(reads', view)) /\ (DialogFit(reads, view, drill) => DialogFit(reads', view, drill))
  BY <1>6 DEF TableFit, DialogFit
<1>13. \A x \in reads' : IsRead(x)
  BY <1>0, <1>4, <1>5
<1>14. ViewInvOf(held, run, view, drill, reads', astray)
  BY <1>7, <1>8, <1>9, <1>10, <1>11, <1>12, <1>13 DEF ViewInv, ViewInvOf, Shaped, Stamped, OnScreen
<1> QED BY <1>0, <1>14, ViewPrimed

\* A read that has landed is gone; the others are as they were.
LEMMA ReadGone ==
    ASSUME NEW rs, NEW next, NEW r \in rs, NEW v, NEW d, next = rs \ {r}
    PROVE  /\ OfThisTable(rs, v) => OfThisTable(next, v)
           /\ OfThisGrouping(rs, v) => OfThisGrouping(next, v)
           /\ SawThis(rs, v) => SawThis(next, v)
           /\ (\A x \in rs : IsRead(x)) => \A x \in next : IsRead(x)
           /\ r.what # "device" \/ ~r.newest =>
                /\ OfThisDialog(rs, d) => OfThisDialog(next, d)
                /\ DialogFit(rs, v, d) => DialogFit(next, v, d)
           /\ r.what # "open" \/ ~r.newest => (OpenHeld(rs, v) => OpenHeld(next, v))
           /\ r.what \notin OfView \/ ~r.newest => (TableFit(rs, v) => TableFit(next, v))
<1>1. OfThisTable(rs, v) => OfThisTable(next, v)
  BY DEF OfThisTable, NewestOf
<1>2. OfThisGrouping(rs, v) => OfThisGrouping(next, v)
  BY DEF OfThisGrouping, NewestOf
<1>3. SawThis(rs, v) => SawThis(next, v)
  BY DEF SawThis
<1>4. ASSUME r.what # "device" \/ ~r.newest
      PROVE  NewestOf(next, {"device"}) = NewestOf(rs, {"device"})
  BY <1>4 DEF NewestOf
<1>5. ASSUME r.what # "open" \/ ~r.newest
      PROVE  NewestOf(next, {"open"}) = NewestOf(rs, {"open"})
  BY <1>5 DEF NewestOf
<1>6. ASSUME r.what \notin OfView \/ ~r.newest
      PROVE  NewestOf(next, OfView) = NewestOf(rs, OfView)
  BY <1>6 DEF NewestOf
<1> QED BY <1>1, <1>2, <1>3, <1>4, <1>5, <1>6 DEF OfThisDialog, DialogFit, OpenHeld, TableFit

\* A table of the same grouping of the same result, and of the same page and order.
LEMMA SamePage ==
    ASSUME NEW rs, NEW v, NEW w, NEW d, w.result = v.result, w.group = v.group
    PROVE  /\ w.page = v.page /\ w.sort = v.sort => (OfThisTable(rs, v) => OfThisTable(rs, w))
           /\ OfThisGrouping(rs, v) => OfThisGrouping(rs, w)
           /\ DialogFit(rs, v, d) => DialogFit(rs, w, d)
           /\ SawThis(rs, v) => SawThis(rs, w)
           /\ w.page = v.page /\ w.sort = v.sort /\ w.rows = v.rows /\ w.heads = v.heads /\ w.total = v.total
                => (TableFit(rs, v) => TableFit(rs, w))
           /\ w.open = v.open /\ w.members = v.members => (OpenHeld(rs, v) => OpenHeld(rs, w))
           /\ w.members = v.members => (MembersFit(v) => MembersFit(w))
<1>1. w.page = v.page /\ w.sort = v.sort => (OfThisTable(rs, v) => OfThisTable(rs, w))
  BY DEF OfThisTable
<1>2. OfThisGrouping(rs, v) => OfThisGrouping(rs, w)
  BY DEF OfThisGrouping
<1>3. (DialogFit(rs, v, d) => DialogFit(rs, w, d)) /\ (SawThis(rs, v) => SawThis(rs, w))
  BY DEF DialogFit, SawThis
<1>4. w.page = v.page /\ w.sort = v.sort /\ w.rows = v.rows /\ w.heads = v.heads /\ w.total = v.total
        => (TableFit(rs, v) => TableFit(rs, w))
  BY DEF TableFit
<1>5. w.open = v.open /\ w.members = v.members => (OpenHeld(rs, v) => OpenHeld(rs, w))
  BY DEF OpenHeld
<1>6. w.members = v.members => (MembersFit(v) => MembersFit(w))
  BY DEF MembersFit
<1> QED BY <1>1, <1>2, <1>3, <1>4, <1>5, <1>6

LEMMA DropsOfView ==
    ASSUME ViewInv, NEW r \in reads, DropsRead(r), UNCHANGED <<held, run>>
    PROVE  ViewInv'
<1>1. reads' = reads \ {r} /\ ~r.newest /\ UNCHANGED <<view, drill, astray>>
  BY DEF DropsRead
<1>2. ViewInvOf(held, run, view, drill, reads', astray)
  BY <1>1, ReadGone DEF ViewInv, ViewInvOf, Shaped, Stamped, OnScreen
<1> QED BY <1>1, <1>2, ViewPrimed

LEMMA RowsOfView ==
    ASSUME ViewInv, NEW r \in reads, r.answered, ShowsRows(r), UNCHANGED <<held, run>>
    PROVE  ViewInv'
<1>1. /\ r.what = "rows" /\ r.newest /\ reads' = reads \ {r} /\ UNCHANGED <<drill, astray>>
      /\ view' = [view EXCEPT !.rows = RowsOfPage(Sorted(r.saw, r.sort), r.page), !.error = FALSE]
      /\ r \in NewestOf(reads, OfView)
  BY DEF ShowsRows, NewestOf, OfView
<1>2. PICK rows : rows = RowsOfPage(Sorted(r.saw, r.sort), r.page)
  OBVIOUS
<1>3. view' = [view EXCEPT !.rows = rows, !.error = FALSE] /\ IsTable(view)
  BY <1>1, <1>2 DEF ViewInv, ViewInvOf, Shaped
<1>4. /\ IsTable(view') /\ view'.result = view.result /\ view'.page = view.page /\ view'.sort = view.sort
      /\ view'.group = view.group /\ view'.open = view.open /\ view'.members = view.members
      /\ view'.rows = rows
  BY <1>3 DEF IsTable
<1>5. OfThisTable(reads, view) /\ SawThis(reads, view) => TableFit(reads', view')
  BY <1>1, <1>2, <1>4 DEF OfThisTable, SawThis, TableFit
<1>6. /\ OfThisTable(reads, view) => OfThisTable(reads', view')
      /\ OfThisGrouping(reads, view) => OfThisGrouping(reads', view')
      /\ OpenHeld(reads, view) => OpenHeld(reads', view')
      /\ DialogFit(reads, view, drill) => DialogFit(reads', view', drill)
      /\ OfThisDialog(reads, drill) => OfThisDialog(reads', drill)
      /\ SawThis(reads, view) => SawThis(reads', view')
      /\ MembersFit(view) => MembersFit(view')
      /\ (\A x \in reads : IsRead(x)) => \A x \in reads' : IsRead(x)
  <2>1. r.what # "device" /\ r.what # "open"
    BY <1>1
  <2>2. /\ OfThisTable(reads, view) => OfThisTable(reads', view)
        /\ OfThisGrouping(reads, view) => OfThisGrouping(reads', view)
        /\ OpenHeld(reads, view) => OpenHeld(reads', view)
        /\ DialogFit(reads, view, drill) => DialogFit(reads', view, drill)
        /\ OfThisDialog(reads, drill) => OfThisDialog(reads', drill)
        /\ SawThis(reads, view) => SawThis(reads', view)
        /\ (\A x \in reads : IsRead(x)) => \A x \in reads' : IsRead(x)
    BY <1>1, <2>1, ReadGone
  <2> QED BY <1>4, <2>2, SamePage
<1>7. ViewInvOf(held, run, view', drill, reads', astray)
  BY <1>4, <1>5, <1>6 DEF ViewInv, ViewInvOf, Shaped, Stamped, OnScreen
<1> QED BY <1>1, <1>7, ViewPrimed

LEMMA MembersOfView ==
    ASSUME ViewInv, NEW r \in reads, r.answered, ShowsMembers(r), UNCHANGED <<held, run>>
    PROVE  ViewInv'
<1> DEFINE shown == [key |-> r.key, rows |-> InGroup(r.saw, r.group, r.key)]
           members == {m \in view.members : m.key # r.key} \union {shown}
<1>1. /\ r.what \in OfGroup /\ r.newest /\ reads' = reads \ {r} /\ UNCHANGED <<drill, astray>>
      /\ r \in NewestOf(reads, OfGroup)
  BY DEF ShowsMembers, NewestOf
<1>2. r.group = view.group
  BY <1>1 DEF ViewInv, ViewInvOf, Stamped, OfThisGrouping
<1>3. IsTable(view)
  BY DEF ViewInv, ViewInvOf, Shaped
<1>4. shown.key = r.key /\ shown.rows = InGroup(r.saw, r.group, r.key)
  OBVIOUS
<1>5. PICK v : v = [view EXCEPT !.members = members]
  OBVIOUS
<1>6. view' = IF r.what = "tick" THEN [v EXCEPT !.open = v.open \union {r.key}] ELSE v
  BY <1>2, <1>5 DEF ShowsMembers, WithMembers
<1> HIDE DEF shown
<1>7. /\ IsTable(v) /\ v.result = view.result /\ v.page = view.page /\ v.sort = view.sort
      /\ v.group = view.group /\ v.rows = view.rows /\ v.heads = view.heads
      /\ v.total = view.total /\ v.open = view.open /\ v.members = members
  BY <1>3, <1>5 DEF IsTable
<1>8. /\ IsTable(view') /\ view'.result = view.result /\ view'.page = view.page /\ view'.sort = view.sort
      /\ view'.group = view.group /\ view'.rows = view.rows /\ view'.heads = view.heads
      /\ view'.total = view.total /\ view'.members = members
      /\ \A k \in view'.open : k \in view.open \/ k = r.key
  BY <1>6, <1>7 DEF IsTable
<1>9. OpenHeld(reads, view) => OpenHeld(reads', view')
  <2> SUFFICES ASSUME OpenHeld(reads, view), NEW k \in view'.open
               PROVE  (\E m \in view'.members : m.key = k)
                      \/ \E x \in NewestOf(reads', {"open"}) : x.key = k /\ x.group = view'.group
    BY DEF OpenHeld
  <2>1. CASE k = r.key
    BY <1>4, <1>8, <2>1
  <2>2. CASE k \in view.open /\ k # r.key
    <3>1. (\E m \in view.members : m.key = k)
          \/ \E x \in NewestOf(reads, {"open"}) : x.key = k /\ x.group = view.group
      BY <2>2 DEF OpenHeld
    <3> QED BY <1>1, <1>8, <2>2, <3>1 DEF NewestOf
  <2> QED BY <1>8, <2>1, <2>2
<1>10. SawThis(reads, view) /\ MembersFit(view) => MembersFit(view')
  BY <1>1, <1>2, <1>4, <1>8 DEF SawThis, MembersFit
<1> HIDE DEF members
<1>11. r.what # "device" /\ r.what \notin OfView
  BY <1>1 DEF OfGroup, OfView
<1>12. /\ OfThisTable(reads, view) => OfThisTable(reads', view')
       /\ OfThisGrouping(reads, view) => OfThisGrouping(reads', view')
       /\ DialogFit(reads, view, drill) => DialogFit(reads', view', drill)
       /\ OfThisDialog(reads, drill) => OfThisDialog(reads', drill)
       /\ SawThis(reads, view) => SawThis(reads', view')
       /\ TableFit(reads, view) => TableFit(reads', view')
       /\ (\A x \in reads : IsRead(x)) => \A x \in reads' : IsRead(x)
  <2>1. /\ OfThisTable(reads, view) => OfThisTable(reads', view)
        /\ OfThisGrouping(reads, view) => OfThisGrouping(reads', view)
        /\ DialogFit(reads, view, drill) => DialogFit(reads', view, drill)
        /\ OfThisDialog(reads, drill) => OfThisDialog(reads', drill)
        /\ SawThis(reads, view) => SawThis(reads', view)
        /\ TableFit(reads, view) => TableFit(reads', view)
        /\ (\A x \in reads : IsRead(x)) => \A x \in reads' : IsRead(x)
    BY <1>1, <1>11, ReadGone
  <2> QED BY <1>8, <2>1, SamePage
<1>13. ViewInvOf(held, run, view', drill, reads', astray)
  BY <1>8, <1>9, <1>10, <1>12 DEF ViewInv, ViewInvOf, Shaped, Stamped, OnScreen
<1> QED BY <1>1, <1>13, ViewPrimed

LEMMA DevicesOfView ==
    ASSUME ViewInv, NEW r \in reads, r.answered, ShowsDevice(r), UNCHANGED <<held, run>>
    PROVE  ViewInv'
<1>1. /\ r.what = "device" /\ r.newest /\ reads' = reads \ {r} /\ UNCHANGED <<view, astray>>
      /\ r \in NewestOf(reads, {"device"})
  BY DEF ShowsDevice, NewestOf
<1>2. drill.load # "closed" /\ drill.device = r.key /\ IsDialog(drill)
  BY <1>1 DEF ViewInv, ViewInvOf, Shaped, Stamped, OfThisDialog
<1>3. PICK rows, load : /\ drill' = [drill EXCEPT !.rows = rows, !.load = load]
                        /\ rows = OfDevice(r.saw, r.key) /\ load \in {"gone", "ready"}
  BY <1>2 DEF ShowsDevice
<1>4. IsDialog(drill') /\ drill'.device = r.key /\ drill'.rows = rows /\ drill'.load = load
  BY <1>2, <1>3 DEF IsDialog
<1>5. OfThisDialog(reads, drill) => OfThisDialog(reads', drill')
  BY <1>1, <1>2, <1>3, <1>4 DEF OfThisDialog, NewestOf
<1>6. SawThis(reads, view) => DialogFit(reads', view, drill')
  BY <1>1, <1>3, <1>4 DEF DialogFit, SawThis
<1>7. r.what # "open" /\ r.what \notin OfView
  BY <1>1 DEF OfView
<1>8. /\ OfThisTable(reads, view) => OfThisTable(reads', view)
      /\ OfThisGrouping(reads, view) => OfThisGrouping(reads', view)
      /\ OpenHeld(reads, view) => OpenHeld(reads', view)
      /\ SawThis(reads, view) => SawThis(reads', view)
      /\ TableFit(reads, view) => TableFit(reads', view)
      /\ (\A x \in reads : IsRead(x)) => \A x \in reads' : IsRead(x)
  BY <1>1, <1>7, ReadGone
<1>9. ViewInvOf(held, run, view, drill', reads', astray)
  BY <1>4, <1>5, <1>6, <1>8 DEF ViewInv, ViewInvOf, Shaped, Stamped, OnScreen
<1> QED BY <1>1, <1>9, ViewPrimed

LEMMA FailedOfView ==
    ASSUME ViewInv, NEW r \in reads, FailsRead(r), UNCHANGED <<held, run>>
    PROVE  ViewInv'
<1>0. /\ IsRead(r) /\ r.newest /\ reads' = reads \ {r} /\ IsTable(view) /\ IsDialog(drill)
      /\ astray' = (astray \/ r.what \in OfView)
  BY DEF FailsRead, ViewInv, ViewInvOf, Shaped
<1>1. CASE r.what \in OfView
  <2>1. /\ view' = [view EXCEPT !.error = TRUE] /\ drill' = drill /\ astray'
        /\ r.what # "device" /\ r.what # "open"
    BY <1>0, <1>1 DEF FailsRead, OfView
  <2>2. /\ IsTable(view') /\ view'.result = view.result /\ view'.page = view.page /\ view'.sort = view.sort
        /\ view'.group = view.group /\ view'.rows = view.rows /\ view'.heads = view.heads
        /\ view'.total = view.total /\ view'.open = view.open /\ view'.members = view.members
    BY <1>0, <2>1 DEF IsTable
  <2>3. ViewInvOf(held, run, view, drill, reads', astray')
    BY <1>0, <2>1, ReadGone DEF ViewInv, ViewInvOf, Shaped, Stamped, OnScreen
  <2>4. ViewInvOf(held, run, view', drill, reads', astray')
    BY <2>2, <2>3, TableAside
  <2> QED BY <2>1, <2>4, ViewPrimed
<1>2. CASE r.what = "open"
  <2> DEFINE members == {m \in view.members : m.key # r.key} \union {[key |-> r.key, rows |-> <<>>]}
  <2>1. r \in NewestOf(reads, OfGroup)
    BY <1>0, <1>2 DEF NewestOf, OfGroup
  <2>2. r.group = view.group /\ r.what \notin OfView /\ r.what # "device"
    BY <1>2, <2>1 DEF ViewInv, ViewInvOf, Stamped, OfThisGrouping, OfView
  <2>3. view' = [view EXCEPT !.members = members] /\ drill' = drill /\ (~astray' => ~astray)
    BY <1>0, <1>2, <2>2 DEF FailsRead, WithMembers
  <2>4. /\ IsTable(view') /\ view'.result = view.result /\ view'.page = view.page /\ view'.sort = view.sort
        /\ view'.group = view.group /\ view'.rows = view.rows /\ view'.heads = view.heads
        /\ view'.total = view.total /\ view'.open = view.open /\ view'.members = members
    BY <1>0, <2>3 DEF IsTable
  <2>5. OpenHeld(reads, view) => OpenHeld(reads', view')
    <3> SUFFICES ASSUME OpenHeld(reads, view), NEW k \in view.open
                 PROVE  (\E m \in members : m.key = k)
                        \/ \E x \in NewestOf(reads', {"open"}) : x.key = k /\ x.group = view.group
      BY <2>4 DEF OpenHeld
    <3>1. (\E m \in view.members : m.key = k)
          \/ \E x \in NewestOf(reads, {"open"}) : x.key = k /\ x.group = view.group
      BY DEF OpenHeld
    <3>2. CASE k = r.key
      <4>1. PICK m : m = [key |-> r.key, rows |-> <<>>]
        OBVIOUS
      <4>2. m \in members /\ m.key = k
        BY <3>2, <4>1
      <4> QED BY <4>2
    <3> QED BY <1>0, <3>1, <3>2 DEF NewestOf
  <2>6. MembersFit(view) => MembersFit(view')
    BY <2>4 DEF MembersFit
  <2> HIDE DEF members
  <2>7. /\ OfThisTable(reads, view) => OfThisTable(reads', view')
        /\ OfThisGrouping(reads, view) => OfThisGrouping(reads', view')
        /\ DialogFit(reads, view, drill) => DialogFit(reads', view', drill)
        /\ OfThisDialog(reads, drill) => OfThisDialog(reads', drill)
        /\ SawThis(reads, view) => SawThis(reads', view')
        /\ TableFit(reads, view) => TableFit(reads', view')
        /\ (\A x \in reads : IsRead(x)) => \A x \in reads' : IsRead(x)
    <3>1. /\ OfThisTable(reads, view) => OfThisTable(reads', view)
          /\ OfThisGrouping(reads, view) => OfThisGrouping(reads', view)
          /\ DialogFit(reads, view, drill) => DialogFit(reads', view, drill)
          /\ OfThisDialog(reads, drill) => OfThisDialog(reads', drill)
          /\ SawThis(reads, view) => SawThis(reads', view)
          /\ TableFit(reads, view) => TableFit(reads', view)
          /\ (\A x \in reads : IsRead(x)) => \A x \in reads' : IsRead(x)
      BY <1>0, <2>2, ReadGone
    <3> QED BY <2>4, <3>1, SamePage
  <2>8. ViewInvOf(held, run, view', drill, reads', astray)
    BY <2>4, <2>5, <2>6, <2>7 DEF ViewInv, ViewInvOf, Shaped, Stamped, OnScreen
  <2>9. ViewInvOf(held, run, view', drill, reads', astray')
    BY <2>3, <2>8, LostMore
  <2> QED BY <2>3, <2>9, ViewPrimed
<1>3. CASE r.what = "tick"
  <2>1. r.what \notin OfView /\ r.what # "device" /\ r.what # "open"
    BY <1>3 DEF OfView
  <2>2. view' = view /\ drill' = drill /\ (~astray' => ~astray)
    BY <1>0, <1>3, <2>1 DEF FailsRead
  <2>3. ViewInvOf(held, run, view, drill, reads', astray)
    BY <1>0, <2>1, ReadGone DEF ViewInv, ViewInvOf, Shaped, Stamped, OnScreen
  <2>4. ViewInvOf(held, run, view, drill, reads', astray')
    BY <2>2, <2>3, LostMore
  <2> QED BY <2>2, <2>4, ViewPrimed
<1>4. CASE r.what = "device"
  <2>1. r.what \notin OfView /\ r.what # "open" /\ r \in NewestOf(reads, {"device"})
    BY <1>0, <1>4 DEF OfView, NewestOf
  <2>2. drill.device = r.key
    BY <2>1 DEF ViewInv, ViewInvOf, Stamped, OfThisDialog
  <2>3. view' = view /\ drill' = [drill EXCEPT !.load = "failed", !.rows = <<>>] /\ (~astray' => ~astray)
    BY <1>0, <1>4, <2>1, <2>2 DEF FailsRead
  <2>4. IsDialog(drill') /\ drill'.device = r.key /\ drill'.load = "failed"
    BY <1>0, <2>2, <2>3 DEF IsDialog
  <2>5. OfThisDialog(reads, drill) => OfThisDialog(reads', drill')
    BY <1>0, <2>2, <2>4 DEF OfThisDialog, NewestOf
  <2>6. DialogFit(reads', view, drill')
    BY <2>4 DEF DialogFit
  <2>7. /\ OfThisTable(reads, view) => OfThisTable(reads', view)
        /\ OfThisGrouping(reads, view) => OfThisGrouping(reads', view)
        /\ OpenHeld(reads, view) => OpenHeld(reads', view)
        /\ SawThis(reads, view) => SawThis(reads', view)
        /\ TableFit(reads, view) => TableFit(reads', view)
        /\ (\A x \in reads : IsRead(x)) => \A x \in reads' : IsRead(x)
    BY <1>0, <2>1, ReadGone
  <2>8. ViewInvOf(held, run, view, drill', reads', astray)
    BY <2>4, <2>5, <2>6, <2>7 DEF ViewInv, ViewInvOf, Shaped, Stamped, OnScreen
  <2>9. ViewInvOf(held, run, view, drill', reads', astray')
    BY <2>3, <2>8, LostMore
  <2> QED BY <2>3, <2>9, ViewPrimed
<1> QED BY <1>0, <1>1, <1>2, <1>3, <1>4 DEF IsRead, OfGroup

LEMMA HeadsOfView ==
    ASSUME ViewInv, NEW r \in reads, r.answered, ShowsHeads(r), UNCHANGED <<held, run>>
    PROVE  ViewInv'
<1>0. /\ r.what = "heads" /\ r.newest /\ r \in NewestOf(reads, OfView) /\ IsRead(r) /\ IsTable(view)
      /\ UNCHANGED <<drill, astray>>
  BY DEF ShowsHeads, NewestOf, OfView, ViewInv, ViewInvOf, Shaped
<1>1. PICK heads : heads = Heads(r.saw, r.group)
  OBVIOUS
<1>2. Len(heads) \in Nat
  BY <1>0, <1>1, HeadsAreListed DEF IsRead
<1>3. PICK page : page = ClampPage(r.page, Len(heads))
  OBVIOUS
<1>4. page \in Nat /\ page < PageCount(Len(heads))
  BY <1>0, <1>2, <1>3, PagesExist DEF IsRead
<1>5. PICK v : v = [view EXCEPT !.total = Len(heads), !.error = FALSE]
  OBVIOUS
<1>6. /\ IsTable(v) /\ v.result = view.result /\ v.page = view.page /\ v.sort = view.sort
      /\ v.group = view.group /\ v.rows = view.rows /\ v.total = Len(heads)
      /\ v.open = view.open /\ v.members = view.members
  BY <1>0, <1>2, <1>5 DEF IsTable
<1>7. PICK left : left = reads \ {r}
  OBVIOUS
<1>8. /\ OfThisTable(reads, view) => OfThisTable(left, view)
      /\ OfThisGrouping(reads, view) => OfThisGrouping(left, view)
      /\ OpenHeld(reads, view) => OpenHeld(left, view)
      /\ DialogFit(reads, view, drill) => DialogFit(left, view, drill)
      /\ OfThisDialog(reads, drill) => OfThisDialog(left, drill)
      /\ SawThis(reads, view) => SawThis(left, view)
      /\ (\A x \in reads : IsRead(x)) => \A x \in left : IsRead(x)
  <2>1. r.what # "device" /\ r.what # "open"
    BY <1>0
  <2> QED BY <1>7, <2>1, ReadGone
<1>9. \A x \in left : IsRead(x)
  BY <1>8 DEF ViewInv, ViewInvOf, Shaped
<1>10. CASE page # r.page
  <2>1. PICK moved : moved = [v EXCEPT !.page = page]
    OBVIOUS
  <2>2. view' = moved /\ reads' = FetchHeads(moved, left, page, r.reopen)
    BY <1>1, <1>3, <1>5, <1>7, <1>10, <2>1 DEF ShowsHeads
  <2>3. /\ IsTable(moved) /\ moved.result = view.result /\ moved.page = page /\ moved.group = view.group
        /\ moved.open = view.open /\ moved.members = view.members
    BY <1>4, <1>6, <2>1 DEF IsTable
  <2>4. /\ OfThisGrouping(left, view) => OfThisGrouping(left, moved)
        /\ OpenHeld(left, view) => OpenHeld(left, moved)
        /\ DialogFit(left, view, drill) => DialogFit(left, moved, drill)
        /\ SawThis(left, view) => SawThis(left, moved)
        /\ MembersFit(view) => MembersFit(moved)
    BY <2>3, SamePage
  <2>5. CASE view.group = "none"
    <3>1. astray /\ reads' = left
      BY <1>0, <2>2, <2>3, <2>5 DEF ViewInv, ViewInvOf, Stamped, OfThisTable, FetchHeads
    <3>2. ViewInvOf(held, run, moved, drill, left, astray)
      BY <1>8, <2>3, <2>4, <3>1 DEF ViewInv, ViewInvOf, Shaped, Stamped, OnScreen
    <3> QED BY <1>0, <2>2, <3>1, <3>2, ViewPrimed
  <2>6. CASE view.group # "none"
    <3>1. PICK new : new = Read("heads", moved, page, 0, r.reopen)
      OBVIOUS
    <3>2. Renews(left, reads', OfView, {new})
      BY <1>4, <1>9, <2>2, <2>3, <2>6, <3>1, HeadsRenew
    <3>3. AsksFor(new, moved)
      BY <2>3, <2>6, <3>1, TableIsAsked
    <3>4. /\ OfThisTable(reads', moved) /\ TableFit(reads', moved)
          /\ (SawThis(left, moved) => SawThis(reads', moved))
          /\ new.newest /\ ~new.answered /\ new.what \in OfView
      BY <3>2, <3>3, TableIsRead
    <3>5. /\ OfThisGrouping(left, moved) => OfThisGrouping(reads', moved)
          /\ OfThisDialog(left, drill) => OfThisDialog(reads', drill)
          /\ OpenHeld(left, moved) => OpenHeld(reads', moved)
          /\ DialogFit(left, moved, drill) => DialogFit(reads', moved, drill)
      BY <3>2, <3>4, OthersStay
    <3>6. \A x \in reads' : IsRead(x)
      BY <3>2 DEF Renews
    <3>7. ViewInvOf(held, run, moved, drill, reads', astray)
      BY <1>8, <2>3, <2>4, <3>4, <3>5, <3>6 DEF ViewInv, ViewInvOf, Shaped, Stamped, OnScreen
    <3> QED BY <1>0, <2>2, <3>7, ViewPrimed
  <2> QED BY <2>5, <2>6
<1>11. CASE page = r.page
  <2>1. PICK rows : rows = RowsOfPage(heads, r.page)
    OBVIOUS
  <2>2. PICK shown : shown = [v EXCEPT !.heads = rows]
    OBVIOUS
  <2>3. PICK keys : keys = {k \in ToSet(shown.heads) : k \in r.reopen /\ k \notin view.open}
    OBVIOUS
  <2>4. PICK o : o = OpenAll(shown, left, keys)
    OBVIOUS
  <2>5. view' = o.view /\ reads' = o.reads
    BY <1>1, <1>3, <1>5, <1>7, <1>11, <2>1, <2>2, <2>3, <2>4 DEF ShowsHeads
  <2>6. /\ IsTable(shown) /\ shown.result = view.result /\ shown.page = view.page /\ shown.sort = view.sort
        /\ shown.group = view.group /\ shown.rows = view.rows /\ shown.total = Len(heads)
        /\ shown.open = view.open /\ shown.members = view.members /\ shown.heads = rows
    BY <1>6, <2>2 DEF IsTable
  <2>7. /\ OfThisTable(left, view) => OfThisTable(left, shown)
        /\ OfThisGrouping(left, view) => OfThisGrouping(left, shown)
        /\ OpenHeld(left, view) => OpenHeld(left, shown)
        /\ DialogFit(left, view, drill) => DialogFit(left, shown, drill)
        /\ SawThis(left, view) => SawThis(left, shown)
        /\ MembersFit(view) => MembersFit(shown)
    BY <2>6, SamePage
  <2>8. OfThisTable(reads, view) /\ SawThis(reads, view) => TableFit(left, shown)
    <3> SUFFICES ASSUME OfThisTable(reads, view), SawThis(reads, view) PROVE TableFit(left, shown)
      OBVIOUS
    <3>1. view.group # "none" /\ r.group = view.group /\ r.page = view.page /\ r.saw = view.result
      BY <1>0 DEF OfThisTable, SawThis
    <3> QED BY <1>1, <1>4, <1>11, <2>1, <2>6, <3>1 DEF TableFit
  <2>9. ViewInvOf(held, run, shown, drill, left, astray)
    BY <1>8, <2>6, <2>7, <2>8 DEF ViewInv, ViewInvOf, Shaped, Stamped, OnScreen
  <2>10. ViewInvOf(held, run, view', drill, reads', astray)
    BY <2>4, <2>5, <2>9, OpeningFits
  <2> QED BY <1>0, <2>10, ViewPrimed
<1> QED BY <1>10, <1>11

LEMMA ReadsOfView ==
    ASSUME ViewInv, ReadLands
    PROVE  ViewInv'
<1>1. PICK r \in reads : r.answered /\ \/ DropsRead(r) \/ FailsRead(r)
                                       \/ ShowsRows(r) \/ ShowsHeads(r) \/ ShowsMembers(r) \/ ShowsDevice(r)
  BY DEF ReadLands
<1>2. UNCHANGED <<held, run>>
  BY DEF ReadLands
<1> QED BY <1>1, <1>2, DropsOfView, FailedOfView, RowsOfView, HeadsOfView, MembersOfView, DevicesOfView

\* The table that a result lands in: its result, its page and its order.
Landing(v, found, page, sort, next) ==
    [v EXCEPT !.page = page, !.sort = sort, !.error = FALSE, !.sortNext = next, !.result = found]
Emptied(v) == [v EXCEPT !.open = {}, !.members = {}]

LEMMA LandingIsATable ==
    ASSUME NEW v, NEW w, NEW found \in Seq(ViewRow), NEW page \in Nat, NEW sort, NEW next,
           IsTable(v), w = Emptied(Landing(v, found, page, sort, next))
    PROVE  /\ IsTable(w) /\ w.result = found /\ w.page = page /\ w.sort = sort /\ w.group = v.group
           /\ w.open = {} /\ w.members = {}
<1>1. PICK a : a = [v EXCEPT !.page = page, !.sort = sort]
  OBVIOUS
<1>2. IsTable(a) /\ a.page = page /\ a.sort = sort /\ a.group = v.group
  BY <1>1 DEF IsTable
<1>3. PICK no \in BOOLEAN : no = FALSE
  OBVIOUS
<1>4. PICK b : b = [a EXCEPT !.error = no, !.sortNext = next, !.result = found]
  OBVIOUS
<1>5. Landing(v, found, page, sort, next) = b
  BY <1>1, <1>3, <1>4 DEF Landing
<1>6. IsTable(b) /\ b.page = page /\ b.sort = sort /\ b.group = v.group /\ b.result = found
  BY <1>2, <1>4 DEF IsTable
<1>7. w = [b EXCEPT !.open = {}, !.members = {}]
  BY <1>5 DEF Emptied
<1> QED BY <1>6, <1>7 DEF IsTable

\* What Lands leaves: the table of what was found, seeded or being read, and no other read
\* of it or of its groups.
LEMMA LandsAnew ==
    ASSUME ViewInv, NEW o, o = Lands(view, reads, run.found, run.silent)
    PROVE  /\ IsTable(o.view) /\ o.view.group = view.group /\ o.view.result = run.found
           /\ o.view.open = {} /\ o.view.members = {}
           /\ TableFit(o.reads, o.view) /\ OfThisTable(o.reads, o.view)
           /\ \A r \in o.reads : IsRead(r)
           /\ \A r \in o.reads : r.newest => (r \in reads /\ r.what = "device")
                                            \/ (~r.answered /\ r.what \in OfView)
           /\ \A r \in reads : r.newest /\ r.what = "device" => r \in o.reads
<1> DEFINE total == IF view.group = "none" THEN Len(run.found) ELSE view.total
           page == IF run.silent THEN ClampPage(view.page, total) ELSE 0
           sort == IF run.silent THEN view.sort ELSE view.sortNext
           unfolded == IF run.silent /\ view.group # "none" THEN view.open ELSE {}
           next == IF run.silent THEN view.sortNext ELSE "canonical"
           w == Emptied(Landing(view, run.found, page, sort, next))
           mid == Retired(reads, OfGroup)
<1>1. IsTable(view) /\ run.found \in Seq(ViewRow) /\ \A r \in reads : IsRead(r)
  BY DEF ViewInv, ViewInvOf, Shaped, IsRun
<1>2. page \in Nat
  <2>1. total \in Nat
    BY <1>1 DEF IsTable
  <2>2. view.page \in Nat
    BY <1>1 DEF IsTable
  <2> HIDE DEF total
  <2> QED BY <2>1, <2>2, PagesExist
<1>3. o = IF view.group = "none" /\ page = 0 /\ sort = "canonical"
          THEN Seeds(w, mid)
          ELSE [view |-> w,
                reads |-> IF view.group = "none" THEN FetchPage(w, mid, page)
                          ELSE FetchHeads(w, mid, page, unfolded)]
  BY DEF Lands, ResetMembers, Emptied, Landing
<1> HIDE DEF total, page, sort, unfolded, next
<1>4. /\ IsTable(w) /\ w.result = run.found /\ w.page = page /\ w.sort = sort /\ w.group = view.group
      /\ w.open = {} /\ w.members = {}
  <2>1. PICK v, found, place, order, coming :
           /\ v = view /\ found = run.found /\ place = page /\ order = sort /\ coming = next
    OBVIOUS
  <2>2. PICK x : x = Emptied(Landing(v, found, place, order, coming))
    OBVIOUS
  <2>3. w = x
    BY <2>1, <2>2
  <2> HIDE DEF w
  <2>4. IsTable(v) /\ found \in Seq(ViewRow) /\ place \in Nat
    BY <1>1, <1>2, <2>1
  <2>5. /\ IsTable(x) /\ x.result = found /\ x.page = place /\ x.sort = order
        /\ x.group = v.group /\ x.open = {} /\ x.members = {}
    BY <2>2, <2>4, LandingIsATable, SMTT(60)
  <2> QED BY <2>1, <2>3, <2>5
<1>5. Renews(reads, mid, OfGroup, {})
  BY <1>1, RetiringRenews
<1> HIDE DEF w, mid
<1>6. \A r \in mid : IsRead(r)
  BY <1>5 DEF Renews
<1>7. CASE view.group = "none" /\ page = 0 /\ sort = "canonical"
  <2>1. PICK rows : rows = RowsOfPage(w.result, 0)
    OBVIOUS
  <2>2. PICK v : v = [w EXCEPT !.rows = rows]
    OBVIOUS
  <2>3. o.view = v /\ o.reads = Retired(mid, OfView)
    BY <1>3, <1>7, <2>1, <2>2 DEF Seeds
  <2>4. /\ IsTable(v) /\ v.result = run.found /\ v.page = page /\ v.sort = sort /\ v.group = view.group
        /\ v.open = {} /\ v.members = {} /\ v.rows = rows
    BY <1>4, <2>2 DEF IsTable
  <2>5. Renews(mid, o.reads, OfView, {})
    BY <1>6, <2>3, RetiringRenews
  <2>6. TableFit(o.reads, v)
    BY <1>4, <1>7, <2>1, <2>4 DEF TableFit, Sorted
  <2>7. NewestOf(o.reads, OfView) = {}
    BY <2>5 DEF Renews, NewestOf
  <2>8. \A r \in o.reads : r.newest => r \in reads /\ r.what = "device"
    BY <1>5, <2>5 DEF Renews, IsRead
  <2>9. \A r \in reads : r.newest /\ r.what = "device" => r \in o.reads
    BY <1>5, <2>5 DEF Renews, OfView, OfGroup
  <2> QED BY <2>3, <2>4, <2>5, <2>6, <2>7, <2>8, <2>9 DEF OfThisTable, Renews
<1>8. CASE ~(view.group = "none" /\ page = 0 /\ sort = "canonical")
  <2>1. PICK new : new = IF view.group = "none" THEN Read("rows", w, page, 0, {})
                         ELSE Read("heads", w, page, 0, unfolded)
    OBVIOUS
  <2>2. o.view = w /\ o.reads = IF view.group = "none" THEN FetchPage(w, mid, page)
                                ELSE FetchHeads(w, mid, page, unfolded)
    BY <1>3, <1>8
  <2>3. Renews(mid, o.reads, OfView, {new})
    BY <1>2, <1>4, <1>6, <2>1, <2>2, PageRenews, HeadsRenew
  <2>4. AsksFor(new, w)
    BY <1>4, <2>1, TableIsAsked
  <2>5. /\ OfThisTable(o.reads, w) /\ TableFit(o.reads, w)
        /\ new.newest /\ ~new.answered /\ new.what \in OfView
    BY <2>3, <2>4, TableIsRead
  <2>6. \A r \in o.reads : r.newest => (r \in reads /\ r.what = "device")
                                      \/ (~r.answered /\ r.what \in OfView)
    BY <1>5, <2>3, <2>5 DEF Renews, IsRead
  <2>7. \A r \in reads : r.newest /\ r.what = "device" => r \in o.reads
    BY <1>5, <2>3 DEF Renews, OfView, OfGroup
  <2> QED BY <1>4, <2>2, <2>3, <2>5, <2>6, <2>7 DEF Renews
<1> QED BY <1>7, <1>8

LEMMA LandsOfView ==
    ASSUME ViewInv, RunLands
    PROVE  ViewInv'
<1>1. PICK o : o = Lands(view, reads, run.found, run.silent)
  OBVIOUS
<1>2. /\ view' = o.view /\ UNCHANGED <<held, drill>> /\ ~astray'
      /\ reads' = IF drill.load = "closed" THEN o.reads ELSE FetchDevice(o.view, o.reads, drill.device)
      /\ run.at = "stored"
  BY <1>1 DEF RunLands
<1>3. IsRun(run') /\ run'.at # "stored"
  BY SettlingEnds DEF RunLands
<1>4. held = run.found /\ held \in Seq(ViewRow) /\ IsDialog(drill) /\ OfThisDialog(reads, drill) /\ view.group \in Groupings
  BY <1>2 DEF ViewInv, ViewInvOf, Shaped, Stamped
<1>5. /\ IsTable(o.view) /\ o.view.group = view.group /\ o.view.result = run.found
      /\ o.view.open = {} /\ o.view.members = {}
      /\ TableFit(o.reads, o.view) /\ OfThisTable(o.reads, o.view)
      /\ \A r \in o.reads : IsRead(r)
      /\ \A r \in o.reads : r.newest => (r \in reads /\ r.what = "device")
                                       \/ (~r.answered /\ r.what \in OfView)
      /\ \A r \in reads : r.newest /\ r.what = "device" => r \in o.reads
  BY <1>1, LandsAnew
<1>6. /\ OfThisGrouping(o.reads, o.view) /\ OpenHeld(o.reads, o.view) /\ MembersFit(o.view)
  BY <1>5 DEF OfThisGrouping, OpenHeld, MembersFit, NewestOf, OfGroup, OfView
<1>7. CASE drill.load = "closed"
  <2>1. reads' = o.reads
    BY <1>2, <1>7
  <2>2. NewestOf(reads, {"device"}) = {}
    BY <1>4, <1>7 DEF OfThisDialog
  <2>3. \A r \in o.reads : r.newest => ~r.answered /\ r.what # "device"
    BY <1>5, <2>2 DEF NewestOf, OfView
  <2>4. OfThisDialog(o.reads, drill) /\ DialogFit(o.reads, o.view, drill) /\ SawThis(o.reads, o.view)
    BY <1>7, <2>3 DEF OfThisDialog, DialogFit, SawThis, NewestOf
  <2>5. ViewInvOf(held, run', o.view, drill, o.reads, astray')
    BY <1>2, <1>3, <1>4, <1>5, <1>6, <2>4 DEF ViewInvOf, Shaped, Stamped, OnScreen
  <2> QED BY <1>2, <2>1, <2>5, ViewPrimed
<1>8. CASE drill.load # "closed"
  <2>1. PICK new : new = Read("device", o.view, 0, drill.device, {})
    OBVIOUS
  <2>2. Renews(o.reads, reads', {"device"}, {new})
    BY <1>2, <1>5, <1>8, <2>1, DeviceRenews
  <2>3. new.newest /\ ~new.answered /\ new.what = "device" /\ new.key = drill.device
    BY <2>1 DEF Read
  <2>4. /\ NewestOf(reads', OfView) = NewestOf(o.reads, OfView)
        /\ NewestOf(reads', OfGroup) = NewestOf(o.reads, OfGroup)
        /\ NewestOf(reads', {"open"}) = NewestOf(o.reads, {"open"})
        /\ NewestOf(reads', {"device"}) = {new}
    BY <2>2, <2>3 DEF NewestOf, Renews, OfView, OfGroup
  <2>5. /\ OfThisTable(reads', o.view) /\ OfThisGrouping(reads', o.view) /\ OpenHeld(reads', o.view)
        /\ TableFit(reads', o.view)
    BY <1>5, <1>6, <2>4 DEF OfThisTable, OfThisGrouping, OpenHeld, TableFit
  <2>6. OfThisDialog(reads', drill) /\ DialogFit(reads', o.view, drill)
    BY <1>8, <2>3, <2>4 DEF OfThisDialog, DialogFit
  <2>7. SawThis(reads', o.view) /\ \A r \in reads' : IsRead(r)
    BY <1>5, <2>2, <2>3 DEF SawThis, Renews
  <2>8. ViewInvOf(held, run', o.view, drill, reads', astray')
    BY <1>2, <1>3, <1>4, <1>5, <1>6, <2>5, <2>6, <2>7 DEF ViewInvOf, Shaped, Stamped, OnScreen
  <2> QED BY <1>2, <2>8, ViewPrimed
<1> QED BY <1>7, <1>8

LEMMA ViewKept == ViewInv /\ [ResultViewNext]_viewVars => ViewInv'
<1>1. ASSUME ViewInv, UNCHANGED viewVars PROVE ViewInv'
  <2>1. ViewInvOf(held', run', view', drill', reads', astray')
    BY <1>1 DEF viewVars, ViewInv
  <2> QED BY <2>1, ViewPrimed
<1> QED BY <1>1, RunsOfView, StoresOfView, LandsOfView, FailsOfView, TurnsOfView, SortsOfView, GroupsOfView,
      TogglesOfView, TicksOfView, DrillsOfView, LinksOfView, OpensOfView, ClosesOfView, DismissOfView,
      ClearsOfView, ServesOfView, ReadsOfView DEF ResultViewNext

\* Whatever the order in which runs and reads are answered and land, and whatever is
\* done to the table meanwhile: once the run has settled the table, the groups and the
\* device dialog are of the result on screen (view.rs, pager.rs, util/query.rs run_plan).
THEOREM TheTableFits == ResultViewSpec => []ScreenFitsResult
<1>1. ViewInv => ScreenFitsResult
  <2> SUFFICES ASSUME ViewInv, run.at = "idle" PROVE TableFits /\ GroupsFit /\ DialogFits
    BY DEF ScreenFitsResult
  <2>1. Stamped(view, drill, reads, astray) /\ OnScreen(held, view, drill, reads, astray)
    BY DEF ViewInv, ViewInvOf
  <2>2. \A whats : Reading(whats) <=> NewestOf(reads, whats) # {}
    BY DEF Reading, NewestOf
  <2>3. TableFits
    BY <2>1, <2>2 DEF OnScreen, TableFit, TableFits
  <2>4. GroupsFit
    <3>1. (\E r \in NewestOf(reads, {"open"}) : TRUE) => Reading(OfGroup)
      BY DEF NewestOf, Reading, OfGroup
    <3> QED BY <2>1, <3>1 DEF OnScreen, Stamped, MembersFit, OpenHeld, GroupsFit
  <2>5. DialogFits
    BY <2>1, <2>2 DEF OnScreen, Stamped, DialogFit, OfThisDialog, DialogFits
  <2> QED BY <2>3, <2>4, <2>5
<1> QED BY <1>1, ViewStarts, ViewKept, PTL DEF ResultViewSpec
-----------------------------------------------------------------------------
(* The run history.                                                        *)

\* Induction on the natural numbers, for sets.
LEMMA Induction ==
    ASSUME NEW S \in SUBSET Nat, 0 \in S, \A n \in S : n + 1 \in S
    PROVE  S = Nat
  <1> DEFINE R == {ss \in Nat \X Nat : ss[1] < ss[2]}
             T == Nat \ S
  <1>1. IsWellFoundedOn(R, Nat)
    BY NatLessThanWellFounded DEF OpToRel
  <1>2. SUFFICES ASSUME T # {} PROVE FALSE
    OBVIOUS
  <1>3. PICK x \in T : \A y \in T : ~(<<y, x>> \in R)
    <2> HIDE DEF R
    <2>1. T \subseteq Nat
      OBVIOUS
    <2>2. IsWellFoundedOn(R, T)
      BY <1>1, <2>1, IsWellFoundedOnSubset
    <2> QED BY <1>1, <1>2, <2>1, WFMin
  <1>4. x # 0 /\ x \in Nat /\ x - 1 \in Nat /\ x - 1 \notin T
    <2>1. x \in Nat /\ x # 0
      BY <1>3
    <2>2. x - 1 \in Nat /\ x - 1 < x
      BY <2>1
    <2>3. <<x - 1, x>> \in R
      BY <2>1, <2>2
    <2> QED BY <1>3, <2>1, <2>2, <2>3
  <1>5. x - 1 \in S
    BY <1>4
  <1>6. (x - 1) + 1 \in S
    BY <1>5
  <1>7. (x - 1) + 1 = x
    BY <1>4
  <1> QED BY <1>3, <1>6, <1>7

\* The records of a file, numbered: at says, of each line, the newest record up to it.
Numbered(ls, n, at) ==
    /\ at \in [0..Len(ls) -> 0..n] /\ at[Len(ls)] = n
    /\ \A i \in 1..Len(ls) :
         IF ls[i] = Torn THEN at[i] = at[i - 1] ELSE at[i] = at[i - 1] + 1 /\ ls[i] = at[i]
    /\ at[0] > 0 => Len(ls) >= MaxLines

\* The lines hold the newest records, in order; and who holds the lock is the one task that
\* is trimming, with the lines that it will leave.
HistoryInv ==
    /\ HistoryTypeOK
    /\ \A j \in 1..Len(intact) : intact[j] = j
    /\ \E at : Numbered(lines, Len(intact), at)
    /\ \A w \in Writer :
         /\ writer[w].pc = "idle" <=> holder # w
         /\ writer[w].pc = "renaming" =>
              /\ writer[w].keep = Newest(lines, MaxLines) /\ Len(lines) > MaxLines
    /\ holder # "none" => ~cut

LEMMA NewestIs ==
    ASSUME NEW S, NEW s \in Seq(S), NEW n \in Nat
    PROVE  /\ Newest(s, n) \in Seq(S)
           /\ Len(s) > n =>
                /\ Len(Newest(s, n)) = n
                /\ \A i \in 1..n : Newest(s, n)[i] = s[i + (Len(s) - n)]
           /\ Len(s) <= n => Newest(s, n) = s
  <1>1. CASE Len(s) > n
    <2> DEFINE from == Len(s) - n + 1
               t == SubSeq(s, from, Len(s))
    <2>1. from \in Nat /\ from >= 1 /\ from <= Len(s) + 1 /\ Len(s) \in Nat /\ Len(s) - from + 1 = n
      BY <1>1
    <2>2. Newest(s, n) = t
      BY <1>1 DEF Newest
    <2> HIDE DEF from
    <2>3. t = [i \in 1..(Len(s) - from + 1) |-> s[from + i - 1]]
      BY <2>1
    <2>4. \A i \in 1..n : from + i - 1 \in 1..Len(s)
      BY <2>1
    <2>5. t = [i \in 1..n |-> s[from + i - 1]]
      BY <2>1, <2>3
    <2>6. t \in Seq(S) /\ Len(t) = n
      BY <2>4, <2>5
    <2>7. \A i \in 1..n : t[i] = s[i + (Len(s) - n)]
      BY <2>1, <2>5 DEF from
    <2> QED BY <1>1, <2>2, <2>6, <2>7
  <1>2. CASE ~(Len(s) > n)
    <2>1. Newest(s, n) = s
      BY <1>2 DEF Newest
    <2> QED BY <1>2, <2>1
  <1> QED BY <1>1, <1>2

\* A line that is written whole is the next record; one that is cut short is none.
LEMMA LongerIsNumbered ==
    ASSUME NEW ls \in Seq(Nat), NEW n \in Nat, NEW at, Numbered(ls, n, at),
           NEW line, NEW m, (line = Torn /\ m = n) \/ (line = n + 1 /\ m = n + 1)
    PROVE  \E more : Numbered(Append(ls, line), m, more)
  <1> DEFINE len == Len(ls)
             longer == Append(ls, line)
             more == [i \in 0..(len + 1) |-> IF i = len + 1 THEN m ELSE at[i]]
  <1>1. len \in Nat /\ len + 1 \in Nat /\ m \in Nat /\ n <= m /\ line \in Nat
    BY DEF Torn
  <1>2. /\ longer \in Seq(Nat) /\ Len(longer) = len + 1
        /\ longer[len + 1] = line /\ \A i \in 1..len : longer[i] = ls[i]
    BY <1>1
  <1>3. at \in [0..len -> 0..n] /\ at[len] = n
    BY DEF Numbered
  <1> HIDE DEF len, longer
  <1>4. more \in [0..(len + 1) -> 0..m]
    BY <1>1, <1>3
  <1>5. more[len + 1] = m /\ \A i \in 0..len : more[i] = at[i]
    BY <1>1
  <1> HIDE DEF more
  <1>6. ASSUME NEW i \in 1..(len + 1)
        PROVE  IF longer[i] = Torn THEN more[i] = more[i - 1]
               ELSE more[i] = more[i - 1] + 1 /\ longer[i] = more[i]
    <2>1. CASE i = len + 1
      <3>1. i - 1 = len /\ len \in 0..len
        BY <1>1, <2>1
      <3>2. more[i - 1] = n /\ more[i] = m /\ longer[i] = line
        BY <1>2, <1>3, <1>5, <2>1, <3>1
      <3> QED BY <1>1, <3>2 DEF Torn
    <2>2. CASE i \in 1..len
      <3>1. i - 1 \in 0..len /\ i \in 0..len
        BY <1>1, <2>2
      <3>2. more[i - 1] = at[i - 1] /\ more[i] = at[i] /\ longer[i] = ls[i]
        BY <1>2, <1>5, <2>2, <3>1
      <3> QED BY <2>2, <3>2 DEF Numbered, len
    <2> QED BY <1>1, <2>1, <2>2
  <1>7. more[0] > 0 => len + 1 >= MaxLines
    <2>1. more[0] = at[0] /\ (at[0] > 0 => len >= MaxLines)
      BY <1>1, <1>5 DEF Numbered, len
    <2> QED BY <1>1, <2>1, HistoryAssumption
  <1>8. Numbered(longer, m, more)
    BY <1>2, <1>4, <1>5, <1>6, <1>7 DEF Numbered
  <1> QED BY <1>8 DEF longer

\* The newest lines hold the newest records.
LEMMA TrimmedIsNumbered ==
    ASSUME NEW ls \in Seq(Nat), NEW n \in Nat, NEW at, Numbered(ls, n, at), Len(ls) > MaxLines
    PROVE  \E left : Numbered(Newest(ls, MaxLines), n, left)
  <1> DEFINE skip == Len(ls) - MaxLines
             trimmed == Newest(ls, MaxLines)
             left == [i \in 0..MaxLines |-> at[i + skip]]
  <1>1. skip \in Nat /\ MaxLines \in Nat /\ MaxLines + skip = Len(ls)
    BY HistoryAssumption
  <1>2. Len(trimmed) = MaxLines /\ \A i \in 1..MaxLines : trimmed[i] = ls[i + skip]
    BY <1>1, NewestIs
  <1>3. at \in [0..Len(ls) -> 0..n] /\ at[Len(ls)] = n
    BY DEF Numbered
  <1>4. \A i \in 0..MaxLines : i + skip \in 0..Len(ls)
    BY <1>1
  <1> HIDE DEF skip, trimmed
  <1>5. left \in [0..MaxLines -> 0..n] /\ left[MaxLines] = n
    BY <1>1, <1>3, <1>4, SMTT(30)
  <1>6. ASSUME NEW i \in 1..MaxLines
        PROVE  IF trimmed[i] = Torn THEN left[i] = left[i - 1]
               ELSE left[i] = left[i - 1] + 1 /\ trimmed[i] = left[i]
    <2>1. i + skip \in 1..Len(ls) /\ i \in 0..MaxLines /\ i - 1 \in 0..MaxLines
          /\ (i - 1) + skip = (i + skip) - 1
      BY <1>1
    <2>2. left[i] = at[i + skip] /\ left[i - 1] = at[(i + skip) - 1] /\ trimmed[i] = ls[i + skip]
      BY <1>2, <2>1
    <2> HIDE DEF left
    <2> QED BY <2>1, <2>2 DEF Numbered
  <1> HIDE DEF left
  <1>7. Numbered(trimmed, n, left)
    BY <1>1, <1>2, <1>5, <1>6 DEF Numbered
  <1> QED BY <1>7 DEF trimmed

\* What can be read, line by line.
Reads(g) ==
    g = [i \in 0..Len(lines) |->
           IF i = 0 THEN <<>> ELSE IF lines[i] = Torn THEN g[i - 1] ELSE Append(g[i - 1], lines[i])]

Span(from, to) == [j \in 1..(to - from) |-> from + j]

LEMMA SpanIs ==
    ASSUME NEW from \in Nat, NEW to \in Nat, from <= to
    PROVE  /\ Span(from, to) \in Seq(Nat) /\ Len(Span(from, to)) = to - from
           /\ \A j \in 1..(to - from) : Span(from, to)[j] = from + j
           /\ Append(Span(from, to), to + 1) = Span(from, to + 1)
  <1> DEFINE len == to - from
             s == Span(from, to)
             t == Span(from, to + 1)
  <1>1. len \in Nat /\ (to + 1) - from = len + 1
    OBVIOUS
  <1>2. s = [j \in 1..len |-> from + j] /\ t = [j \in 1..(len + 1) |-> from + j]
    BY <1>1 DEF Span
  <1>3. s \in Seq(Nat) /\ Len(s) = len /\ t \in Seq(Nat) /\ Len(t) = len + 1
    BY <1>1, <1>2
  <1>4. from + (len + 1) = to + 1
    OBVIOUS
  <1> HIDE DEF s, t, len
  <1>5. Append(s, to + 1) \in Seq(Nat) /\ Len(Append(s, to + 1)) = len + 1
    BY <1>3
  <1>6. ASSUME NEW j \in 1..(len + 1) PROVE Append(s, to + 1)[j] = t[j]
    <2>1. CASE j = len + 1
      BY <1>1, <1>2, <1>3, <1>4, <2>1
    <2>2. CASE j \in 1..len
      BY <1>1, <1>2, <1>3, <2>2
    <2>3. j = len + 1 \/ j \in 1..len
      BY <1>1
    <2> QED BY <2>1, <2>2, <2>3
  <1>7. Append(s, to + 1) = t
    BY <1>3, <1>5, <1>6
  <1> QED BY <1>1, <1>2, <1>3, <1>7 DEF s, t, len

LEMMA ReadableIs ==
    ASSUME HistoryTypeOK, NEW n \in Nat, NEW at, Numbered(lines, n, at)
    PROVE  Readable = Span(at[0], n)
  <1> DEFINE L == Len(lines)
  <1>1. L \in Nat /\ at \in [0..L -> 0..n] /\ at[L] = n
    BY DEF HistoryTypeOK, Numbered
  <1>2. ASSUME NEW i \in 1..L
        PROVE  i - 1 \in 0..L /\ i \in 0..L /\
               IF lines[i] = Torn THEN at[i] = at[i - 1] ELSE at[i] = at[i - 1] + 1 /\ lines[i] = at[i]
    BY <1>1 DEF Numbered
  <1> HIDE DEF L
  <1>3. \A i \in 0..L : at[0] <= at[i] /\ at[i] \in Nat
    <2> DEFINE S == {i \in Nat : i <= L => at[0] <= at[i]}
    <2>1. 0 \in S
      BY <1>1
    <2>2. ASSUME NEW i \in S PROVE i + 1 \in S
      <3>1. CASE i + 1 <= L
        <4>1. i + 1 \in 1..L /\ (i + 1) - 1 = i /\ i <= L /\ i \in Nat /\ 0 \in 0..L
          BY <1>1, <3>1
        <4>2. at[0] <= at[i] /\ (at[i + 1] = at[i] \/ at[i + 1] = at[i] + 1)
          BY <1>2, <4>1
        <4>3. at[0] \in Nat /\ at[i] \in Nat
          BY <1>1, <4>1
        <4> QED BY <4>1, <4>2, <4>3
      <3>2. CASE ~(i + 1 <= L)
        BY <3>2
      <3> QED BY <3>1, <3>2
    <2>3. S \in SUBSET Nat
      OBVIOUS
    <2>4. S = Nat
      <3> HIDE DEF S
      <3> QED BY <2>1, <2>2, <2>3, Induction
    <2> QED BY <1>1, <2>4
  <1>4. ASSUME NEW i \in 1..L
        PROVE  Span(at[0], at[i]) =
                 IF lines[i] = Torn THEN Span(at[0], at[i - 1])
                 ELSE Append(Span(at[0], at[i - 1]), lines[i])
    <2>1. at[0] \in Nat /\ at[i - 1] \in Nat /\ at[0] <= at[i - 1]
      BY <1>1, <1>2, <1>3
    <2>2. Append(Span(at[0], at[i - 1]), at[i - 1] + 1) = Span(at[0], at[i - 1] + 1)
      BY <2>1, SpanIs
    <2>3. CASE lines[i] = Torn
      BY <1>2, <2>3
    <2>4. CASE lines[i] # Torn
      <3>1. lines[i] = at[i - 1] + 1 /\ at[i] = at[i - 1] + 1
        BY <1>2, <2>4
      <3> QED BY <2>2, <2>4, <3>1
    <2> QED BY <2>3, <2>4
  <1>5. Span(at[0], at[0]) = <<>>
    <2>1. PICK z \in Nat : z = at[0]
      BY <1>1
    <2>2. z <= z /\ z - z = 0
      OBVIOUS
    <2>3. Span(z, z) \in Seq(Nat) /\ Len(Span(z, z)) = 0
      BY <2>2, SpanIs
    <2> QED BY <2>1, <2>3
  <1>6. \E g : Reads(g)
    <2> DEFINE g == [i \in 0..L |-> Span(at[0], at[i])]
    <2>1. ASSUME NEW i \in 0..L
          PROVE  g[i] = IF i = 0 THEN <<>> ELSE IF lines[i] = Torn THEN g[i - 1]
                        ELSE Append(g[i - 1], lines[i])
      <3>1. CASE i = 0
        BY <1>5, <3>1
      <3>2. CASE i # 0
        <4>1. i \in 1..L /\ i - 1 \in 0..L
          BY <1>1, <3>2
        <4>2. g[i] = Span(at[0], at[i]) /\ g[i - 1] = Span(at[0], at[i - 1])
          BY <4>1
        <4> HIDE DEF g
        <4> QED BY <1>4, <3>2, <4>1, <4>2
      <3> QED BY <3>1, <3>2
    <2>2. g = [i \in 0..L |-> g[i]]
      OBVIOUS
    <2> HIDE DEF g
    <2>3. g = [i \in 0..L |-> IF i = 0 THEN <<>> ELSE IF lines[i] = Torn THEN g[i - 1]
                              ELSE Append(g[i - 1], lines[i])]
      BY <2>1, <2>2, Zenon
    <2> QED BY <2>3 DEF Reads, L
  <1>7. ASSUME NEW g, Reads(g)
        PROVE  g[L] = Span(at[0], n)
    <2>1. g = [i \in 0..L |-> IF i = 0 THEN <<>> ELSE IF lines[i] = Torn THEN g[i - 1]
                              ELSE Append(g[i - 1], lines[i])]
      BY <1>7 DEF Reads, L
    <2> DEFINE S == {i \in Nat : i <= L => g[i] = Span(at[0], at[i])}
    <2>2. 0 \in S
      <3>1. 0 \in 0..L
        BY <1>1
      <3>2. g[0] = <<>>
        BY <2>1, <3>1
      <3> QED BY <1>5, <3>2
    <2>3. ASSUME NEW i \in S PROVE i + 1 \in S
      <3>1. CASE i + 1 <= L
        <4>1. i + 1 \in 0..L /\ i + 1 # 0 /\ (i + 1) - 1 = i /\ i + 1 \in 1..L /\ i <= L /\ i + 1 \in Nat
          BY <1>1, <3>1
        <4>2. g[i + 1] = IF lines[i + 1] = Torn THEN g[i] ELSE Append(g[i], lines[i + 1])
          BY <2>1, <4>1
        <4>3. g[i] = Span(at[0], at[i])
          BY <4>1
        <4>4. Span(at[0], at[i + 1]) =
                IF lines[i + 1] = Torn THEN Span(at[0], at[i]) ELSE Append(Span(at[0], at[i]), lines[i + 1])
          BY <1>4, <4>1
        <4> QED BY <4>1, <4>2, <4>3, <4>4
      <3>2. CASE ~(i + 1 <= L)
        BY <3>2
      <3> QED BY <3>1, <3>2
    <2>4. S \in SUBSET Nat
      OBVIOUS
    <2>5. S = Nat
      <3> HIDE DEF S
      <3> QED BY <2>2, <2>3, <2>4, Induction
    <2> QED BY <1>1, <2>5
  <1> DEFINE upTo[i \in 0..Len(lines)] ==
               IF i = 0 THEN <<>>
               ELSE IF lines[i] = Torn THEN upTo[i - 1]
               ELSE Append(upTo[i - 1], lines[i])
  <1>8. Reads(upTo)
    BY <1>6, Zenon DEF Reads
  <1>9. Readable = upTo[L]
    BY DEF Readable, L
  <1> HIDE DEF upTo
  <1> QED BY <1>7, <1>8, <1>9

LEMMA EmptyHistory ==
    HistoryInit => HistoryInv
  <1> SUFFICES ASSUME HistoryInit PROVE HistoryInv
    OBVIOUS
  <1>1. HistoryTypeOK
    <2>1. <<>> \in Seq(0..MaxRecords) /\ <<>> \in Seq(1..MaxRecords) /\ Len(<<>>) = 0
      OBVIOUS
    <2>2. 0 <= MaxLength
      BY HistoryAssumption DEF MaxLength
    <2>3. lines \in Seq(0..MaxRecords) /\ intact \in Seq(1..MaxRecords) /\ Len(lines) <= MaxLength
      BY <2>1, <2>2 DEF HistoryInit
    <2>4. writer \in [Writer -> [pc : {"idle", "trimming", "renaming"}, keep : Seq(0..MaxRecords)]]
      BY <2>1 DEF HistoryInit, NoWriter
    <2> QED BY <2>3, <2>4 DEF HistoryInit, HistoryTypeOK
  <1>2. Numbered(<<>>, 0, [i \in 0..0 |-> 0])
    BY DEF Numbered
  <1>3. \E at : Numbered(lines, Len(intact), at)
    BY <1>2 DEF HistoryInit
  <1> QED BY <1>1, <1>3, HistoryAssumption DEF HistoryInit, HistoryInv, NoWriter

LEMMA WiderSeq ==
    ASSUME NEW S, NEW T, S \subseteq T, NEW s \in Seq(S)
    PROVE  s \in Seq(T) /\ \A i \in 1..Len(s) : s[i] \in S
  OBVIOUS

\* A record is a number, and so the lines are.
LEMMA LinesAreNumbers ==
    ASSUME HistoryTypeOK
    PROVE  /\ lines \in Seq(Nat) /\ Len(lines) \in Nat /\ intact \in Seq(Nat) /\ Len(intact) \in Nat
           /\ MaxLines \in Nat /\ MaxLines > 0 /\ TrimSlack \in Nat /\ MaxRecords \in Nat
           /\ MaxLength \in Nat /\ MaxLength >= MaxLines
           /\ \A i \in 1..Len(lines) : lines[i] \in 0..MaxRecords
  <1>1. MaxLines \in Nat /\ MaxLines > 0 /\ TrimSlack \in Nat /\ MaxRecords \in Nat
    BY HistoryAssumption
  <1>2. MaxLength \in Nat /\ MaxLength >= MaxLines
    BY <1>1 DEF MaxLength
  <1>3. 0..MaxRecords \subseteq Nat /\ 1..MaxRecords \subseteq Nat
    BY <1>1
  <1>4. /\ lines \in Seq(Nat) /\ Len(lines) \in Nat /\ intact \in Seq(Nat) /\ Len(intact) \in Nat
        /\ \A i \in 1..Len(lines) : lines[i] \in 0..MaxRecords
    <2>1. lines \in Seq(0..MaxRecords) /\ intact \in Seq(1..MaxRecords)
      BY DEF HistoryTypeOK
    <2>2. lines \in Seq(Nat) /\ \A i \in 1..Len(lines) : lines[i] \in 0..MaxRecords
      BY <1>3, <2>1, WiderSeq
    <2>3. intact \in Seq(Nat)
      BY <1>3, <2>1, WiderSeq
    <2> QED BY <2>2, <2>3
  <1> QED BY <1>1, <1>2, <1>4

LEMMA AppendsStep ==
    ASSUME HistoryInv, NEW w \in Writer, Appends(w), Bounded
    PROVE  HistoryInv'
  <1> DEFINE n == Len(intact)
  <1>1. HistoryTypeOK /\ n \in Nat /\ n < MaxRecords /\ holder = "none" /\ writer[w].pc = "idle"
    BY LinesAreNumbers DEF HistoryInv, Appends
  <1>2. \A v \in Writer : writer[v].pc = "idle"
    BY <1>1, HistoryAssumption DEF HistoryInv
  <1>3. PICK at : Numbered(lines, n, at)
    BY DEF HistoryInv
  <1>4. /\ lines \in Seq(Nat) /\ Len(lines) \in Nat /\ intact \in Seq(Nat) /\ MaxLength \in Nat
        /\ MaxRecords \in Nat /\ lines \in Seq(0..MaxRecords) /\ intact \in Seq(1..MaxRecords)
        /\ writer \in [Writer -> [pc : {"idle", "trimming", "renaming"}, keep : Seq(0..MaxRecords)]]
        /\ Len(lines) < MaxLength /\ cut \in BOOLEAN
        /\ n + 1 \in 1..MaxRecords /\ Torn \in 0..MaxRecords
    BY <1>1, LinesAreNumbers DEF HistoryTypeOK, Bounded, Torn
  <1> DEFINE longer(line) == Append(lines, line)
  <1>5. ASSUME NEW line \in 0..MaxRecords
        PROVE  longer(line) \in Seq(0..MaxRecords) /\ Len(longer(line)) <= MaxLength
    BY <1>4
  <1>6. \E more : Numbered(longer(n + 1), n + 1, more)
    BY <1>1, <1>3, <1>4, LongerIsNumbered
  <1>7. \E more : Numbered(longer(Torn), n, more)
    <2>1. PICK line, m : line = Torn /\ m = n
      OBVIOUS
    <2>3. (line = Torn /\ m = n) \/ (line = n + 1 /\ m = n + 1)
      BY <2>1
    <2>2. \E more : Numbered(Append(lines, line), m, more)
      BY <1>1, <1>3, <1>4, <2>3, LongerIsNumbered
    <2> QED BY <2>1, <2>2
  <1>8. Append(intact, n + 1) \in Seq(1..MaxRecords) /\ Len(Append(intact, n + 1)) = n + 1
        /\ \A j \in 1..(n + 1) : Append(intact, n + 1)[j] = j
    <2>1. Append(intact, n + 1) \in Seq(1..MaxRecords) /\ Len(Append(intact, n + 1)) = n + 1
      BY <1>1, <1>4
    <2>2. \A j \in 1..n : Append(intact, n + 1)[j] = intact[j]
      BY <1>1, <1>4
    <2>3. Append(intact, n + 1)[n + 1] = n + 1
      BY <1>1, <1>4
    <2>4. \A j \in 1..(n + 1) : j = n + 1 \/ j \in 1..n
      BY <1>1
    <2> QED BY <2>1, <2>2, <2>3, <2>4 DEF HistoryInv
  <1>9. CASE /\ lines' = IF cut THEN lines ELSE Append(lines, n + 1)
             /\ intact' = IF cut THEN intact ELSE Append(intact, n + 1)
             /\ cut' = FALSE
             /\ holder' = w
             /\ writer' = [writer EXCEPT ![w].pc = "trimming"]
    <2>1. HistoryTypeOK'
      <3>1. lines' \in Seq(0..MaxRecords) /\ Len(lines') <= MaxLength
        <4>1. CASE cut
          BY <1>4, <1>9, <4>1
        <4>2. CASE ~cut
          <5>1. lines' = longer(n + 1) /\ n + 1 \in 0..MaxRecords
            BY <1>1, <1>4, <1>9, <4>2
          <5> HIDE DEF longer, n
          <5> QED BY <1>5, <5>1
        <4> QED BY <4>1, <4>2
      <3>2. intact' \in Seq(1..MaxRecords)
        BY <1>4, <1>8, <1>9
      <3>3. writer' \in [Writer -> [pc : {"idle", "trimming", "renaming"}, keep : Seq(0..MaxRecords)]]
        BY <1>4, <1>9
      <3> QED BY <1>9, <3>1, <3>2, <3>3 DEF HistoryTypeOK
    <2>2. \A j \in 1..Len(intact') : intact'[j] = j
      <3>1. CASE cut
        BY <1>9, <3>1 DEF HistoryInv
      <3>2. CASE ~cut
        <4>1. intact' = Append(intact, n + 1)
          BY <1>9, <3>2
        <4> QED BY <1>8, <4>1
      <3> QED BY <3>1, <3>2
    <2>3. \E more : Numbered(lines', Len(intact'), more)
      <3>1. CASE cut
        BY <1>3, <1>9, <3>1
      <3>2. CASE ~cut
        <4>1. lines' = longer(n + 1) /\ Len(intact') = n + 1
          BY <1>8, <1>9, <3>2
        <4> QED BY <1>6, <4>1
      <3> QED BY <3>1, <3>2
    <2>4. \A v \in Writer : /\ writer'[v].pc = "idle" <=> holder' # v
                            /\ writer'[v].pc # "renaming"
      BY <1>2, <1>4, <1>9
    <2> QED BY <1>9, <2>1, <2>2, <2>3, <2>4 DEF HistoryInv
  <1>10. CASE /\ lines' = IF cut THEN lines ELSE Append(lines, Torn)
              /\ cut' = TRUE
              /\ UNCHANGED <<holder, writer, intact>>
    <2>1. lines' \in Seq(0..MaxRecords) /\ Len(lines') <= MaxLength
      <3>1. CASE cut
        BY <1>4, <1>10, <3>1
      <3>2. CASE ~cut
        <4>1. lines' = longer(Torn)
          BY <1>10, <3>2
        <4> HIDE DEF longer
        <4> QED BY <1>4, <1>5, <4>1
      <3> QED BY <3>1, <3>2
    <2>2. HistoryTypeOK'
      BY <1>1, <1>10, <2>1 DEF HistoryTypeOK
    <2>3. \E more : Numbered(lines', n, more)
      <3>1. CASE cut
        BY <1>3, <1>10, <3>1
      <3>2. CASE ~cut
        BY <1>7, <1>10, <3>2
      <3> QED BY <3>1, <3>2
    <2>4. \A v \in Writer : writer'[v].pc = "idle" /\ holder' # v
      BY <1>1, <1>2, <1>10, HistoryAssumption
    <2>5. intact' = intact /\ holder' = "none"
      BY <1>1, <1>10
    <2>6. \A j \in 1..Len(intact') : intact'[j] = j
      BY <2>5 DEF HistoryInv
    <2> QED BY <2>2, <2>3, <2>4, <2>5, <2>6 DEF HistoryInv
  <1> QED BY <1>9, <1>10 DEF Appends

LEMMA TrimsStep ==
    ASSUME HistoryInv, NEW w \in Writer, Trims(w)
    PROVE  HistoryInv'
  <1>1. /\ HistoryTypeOK /\ holder = w /\ writer[w].pc = "trimming" /\ ~cut
        /\ \A v \in Writer : v # w => writer[v].pc = "idle"
    BY HistoryAssumption DEF HistoryInv, Trims
  <1>2. lines' = lines /\ cut' = cut /\ intact' = intact
    BY DEF Trims
  <1>3. /\ \A j \in 1..Len(intact') : intact'[j] = j
        /\ \E at : Numbered(lines', Len(intact'), at)
    BY <1>2 DEF HistoryInv
  <1>4. CASE Len(lines) <= MaxLines + TrimSlack /\ Release(w)
    <2>1. holder' = "none" /\ writer' = [writer EXCEPT ![w] = NoWriter]
      BY <1>4 DEF Release
    <2>2. NoWriter \in [pc : {"idle", "trimming", "renaming"}, keep : Seq(0..MaxRecords)]
          /\ NoWriter.pc = "idle"
      BY DEF NoWriter
    <2>3. HistoryTypeOK'
      BY <1>1, <1>2, <2>1, <2>2 DEF HistoryTypeOK
    <2>4. \A v \in Writer : writer'[v].pc = "idle" /\ holder' # v
      BY <1>1, <2>1, <2>2, HistoryAssumption DEF HistoryTypeOK
    <2> QED BY <1>1, <1>2, <1>3, <2>1, <2>3, <2>4 DEF HistoryInv
  <1>5. CASE /\ ~(Len(lines) <= MaxLines + TrimSlack)
             /\ writer' = [writer EXCEPT ![w] = [pc |-> "renaming", keep |-> Newest(lines, MaxLines)]]
             /\ UNCHANGED holder
    <2>1. Newest(lines, MaxLines) \in Seq(0..MaxRecords) /\ Len(lines) > MaxLines
      <3>1. lines \in Seq(0..MaxRecords) /\ MaxLines \in Nat
        BY <1>1, LinesAreNumbers DEF HistoryTypeOK
      <3> QED BY <1>1, <1>5, <3>1, NewestIs, LinesAreNumbers
    <2>2. HistoryTypeOK'
      BY <1>1, <1>2, <1>5, <2>1 DEF HistoryTypeOK
    <2>3. ASSUME NEW v \in Writer
          PROVE  /\ writer'[v].pc = "idle" <=> holder' # v
                 /\ writer'[v].pc = "renaming" =>
                      writer'[v].keep = Newest(lines', MaxLines) /\ Len(lines') > MaxLines
      <3>1. CASE v = w
        <4>1. writer'[v] = [pc |-> "renaming", keep |-> Newest(lines, MaxLines)] /\ holder' = w
          BY <1>1, <1>5, <3>1 DEF HistoryTypeOK
        <4> QED BY <1>2, <2>1, <3>1, <4>1
      <3>2. CASE v # w
        <4>1. writer'[v] = writer[v] /\ holder' = w
          BY <1>1, <1>5, <3>2 DEF HistoryTypeOK
        <4> QED BY <1>1, <3>2, <4>1
      <3> QED BY <3>1, <3>2
    <2> QED BY <1>1, <1>2, <1>3, <2>2, <2>3 DEF HistoryInv
  <1> QED BY <1>4, <1>5 DEF Trims

LEMMA RenamesStep ==
    ASSUME HistoryInv, NEW w \in Writer, Renames(w)
    PROVE  HistoryInv'
  <1>1. /\ HistoryTypeOK /\ holder = w /\ writer[w].pc = "renaming" /\ ~cut
        /\ writer[w].keep = Newest(lines, MaxLines) /\ Len(lines) > MaxLines
        /\ \A v \in Writer : v # w => writer[v].pc = "idle"
    BY HistoryAssumption DEF HistoryInv, Renames
  <1>2. holder' = "none" /\ writer' = [writer EXCEPT ![w] = NoWriter] /\ intact' = intact
    BY DEF Renames, Release
  <1>3. \A v \in Writer : writer'[v].pc = "idle" /\ holder' # v
    BY <1>1, <1>2, HistoryAssumption DEF HistoryTypeOK, NoWriter
  <1>4. writer' \in [Writer -> [pc : {"idle", "trimming", "renaming"}, keep : Seq(0..MaxRecords)]]
    <2>1. NoWriter \in [pc : {"idle", "trimming", "renaming"}, keep : Seq(0..MaxRecords)]
      BY DEF NoWriter
    <2> QED BY <1>1, <1>2, <2>1 DEF HistoryTypeOK
  <1>5. \A j \in 1..Len(intact') : intact'[j] = j
    BY <1>2 DEF HistoryInv
  <1>6. CASE lines' = writer[w].keep /\ cut' = FALSE
    <2>1. lines \in Seq(0..MaxRecords) /\ lines \in Seq(Nat) /\ MaxLines \in Nat /\ Len(intact) \in Nat
          /\ MaxLength \in Nat /\ MaxLines <= MaxLength
      BY <1>1, LinesAreNumbers DEF HistoryTypeOK
    <2>2. lines' = Newest(lines, MaxLines)
      BY <1>1, <1>6
    <2>3. Newest(lines, MaxLines) \in Seq(0..MaxRecords) /\ Len(Newest(lines, MaxLines)) = MaxLines
      BY <1>1, <2>1, NewestIs
    <2>4. HistoryTypeOK'
      BY <1>1, <1>2, <1>4, <1>6, <2>1, <2>2, <2>3 DEF HistoryTypeOK
    <2>5. \E at : Numbered(lines', Len(intact'), at)
      <3>1. PICK at : Numbered(lines, Len(intact), at)
        BY DEF HistoryInv
      <3> QED BY <1>1, <1>2, <2>1, <2>2, <3>1, TrimmedIsNumbered
    <2> QED BY <1>3, <1>2, <1>5, <2>4, <2>5 DEF HistoryInv
  <1>7. CASE UNCHANGED <<lines, cut>>
    <2>1. HistoryTypeOK'
      BY <1>1, <1>2, <1>4, <1>7 DEF HistoryTypeOK
    <2>2. \E at : Numbered(lines', Len(intact'), at)
      BY <1>2, <1>7 DEF HistoryInv
    <2> QED BY <1>2, <1>3, <1>5, <2>1, <2>2 DEF HistoryInv
  <1> QED BY <1>6, <1>7 DEF Renames

LEMMA HistoryStep == HistoryInv /\ [HistoryNext]_historyVars => HistoryInv'
  <1> SUFFICES ASSUME HistoryInv, [HistoryNext]_historyVars PROVE HistoryInv'
    OBVIOUS
  <1>1. ASSUME NEW w \in Writer, Appends(w), Bounded PROVE HistoryInv'
    BY <1>1, AppendsStep
  <1>2. ASSUME NEW w \in Writer, Trims(w) PROVE HistoryInv'
    BY <1>2, TrimsStep
  <1>3. ASSUME NEW w \in Writer, Renames(w) PROVE HistoryInv'
    BY <1>3, RenamesStep
  <1>4. CASE HistoryRestarts
    <2>1. /\ writer' = [w \in Writer |-> NoWriter] /\ holder' = "none"
          /\ lines' = lines /\ cut' = cut /\ intact' = intact
      BY <1>4 DEF HistoryRestarts
    <2>2. HistoryTypeOK'
      BY <2>1 DEF HistoryInv, HistoryTypeOK, NoWriter
    <2>3. \A v \in Writer : writer'[v].pc = "idle" /\ holder' # v
      BY <2>1, HistoryAssumption DEF NoWriter
    <2> QED BY <2>1, <2>2, <2>3 DEF HistoryInv
  <1>5. CASE UNCHANGED historyVars
    BY <1>5 DEF historyVars, HistoryInv, HistoryTypeOK
  <1> QED BY <1>1, <1>2, <1>3, <1>4, <1>5 DEF HistoryNext

LEMMA InvKeeps ==
    ASSUME HistoryInv
    PROVE  KeepsTheNewest
  <1> DEFINE n == Len(intact)
  <1>1. PICK at : Numbered(lines, n, at)
    BY DEF HistoryInv
  <1>2. HistoryTypeOK /\ n \in Nat /\ intact \in Seq(Nat) /\ \A j \in 1..n : intact[j] = j
    BY LinesAreNumbers DEF HistoryInv
  <1>3. Readable = Span(at[0], n)
    BY <1>1, <1>2, ReadableIs
  <1>4. PICK from : from = at[0]
    OBVIOUS
  <1>5. from \in 0..n /\ (from > 0 => Len(lines) >= MaxLines)
    <2>1. 0 \in 0..Len(lines)
      BY <1>2, LinesAreNumbers
    <2> QED BY <1>1, <1>4, <2>1 DEF Numbered
  <1> HIDE DEF n
  <1>6. /\ Readable \in Seq(Nat) /\ Len(Readable) = n - from
        /\ \A j \in 1..(n - from) : Readable[j] = from + j
    <2>1. from \in Nat /\ from <= n
      BY <1>2, <1>5
    <2> QED BY <1>2, <1>3, <1>4, <2>1, SpanIs
  <1> DEFINE left == n - from
  <1>7. left \in Nat /\ left <= n /\ n - left = from /\ (left < n <=> from > 0)
    BY <1>2, <1>5
  <1> HIDE DEF left
  <1>8. Readable \in Seq(Nat) /\ Len(Readable) = left /\ \A j \in 1..left : Readable[j] = from + j
    BY <1>6 DEF left
  <1>9. Readable = Newest(intact, left)
    <2>1. CASE left = n
      <3>1. Newest(intact, left) = intact
        BY <1>2, <1>7, <2>1, NewestIs DEF n
      <3>2. from = 0
        BY <1>2, <1>5, <1>7, <2>1
      <3>3. Len(intact) = left /\ \A j \in 1..left : Readable[j] = intact[j]
        BY <1>2, <1>5, <1>8, <2>1, <3>2 DEF n
      <3> QED BY <1>2, <1>8, <3>1, <3>3
    <2>2. CASE left < n
      <3> DEFINE t == Newest(intact, left)
      <3>1. t \in Seq(Nat) /\ Len(t) = left /\ \A j \in 1..left : t[j] = intact[j + (n - left)]
        BY <1>2, <1>7, <2>2, NewestIs DEF n
      <3>2. \A j \in 1..left : j + (n - left) \in 1..n /\ j + (n - left) = from + j
        BY <1>2, <1>5, <1>7
      <3>3. \A j \in 1..left : t[j] = from + j
        BY <1>2, <3>1, <3>2
      <3> HIDE DEF t
      <3>4. Readable = t
        BY ONLY <1>8, <3>1, <3>3, SMTT(30)
      <3> QED BY <3>4 DEF t
    <2> QED BY <1>2, <1>7, <2>1, <2>2
  <1> QED BY <1>5, <1>7, <1>8, <1>9 DEF KeepsTheNewest, n

\* The file and the records keep their types, and the file its length, however the writers
\* overlap and wherever the app ends (append and trim, history.rs).
THEOREM HistoryKeepsItsTypes == HistorySpec => []HistoryTypeOK
  <1>1. HistoryInv => HistoryTypeOK
    BY DEF HistoryInv
  <1> QED BY <1>1, EmptyHistory, HistoryStep, PTL DEF HistorySpec

\* What can be read of the run history are the newest of the records written whole, in
\* order, for any number of writers, lines and records: no overlap of queries, no torn
\* line and no crash loses another (append, trim and read_all, history.rs).
THEOREM TheNewestAreKept == HistorySpec => []KeepsTheNewest
  <1> QED BY InvKeeps, EmptyHistory, HistoryStep, PTL DEF HistorySpec

-----------------------------------------------------------------------------
(* What became of an action.                                               *)

OutcomeKinds == {"OsPatchScan", "OsPatchApply", "Reboot", "Script"}
FeedCodes == {"STARTED", "SCAN_STARTED", "APPLY_STARTED", "INSTALL_FAILED", "COMPLETED", "FAILED",
              "SCAN_COMPLETED", "APPLY_COMPLETED", "REBOOTED", "FAILURE"}
FeedType == [id : Nat, type : {"PATCH_MANAGEMENT", "SYSTEM", "SCRIPTING"}, code : FeedCodes,
             time : Nat, series : Nat, effort : Nat]
EffortType == [kind : OutcomeKinds, job : Nat, series : Nat,
               state : {"queued", "running", "Completed", "Failed"}]
ReportType == [state : {"unborn", "Queued", "Running", "cleared"} \union Settled, kind : OutcomeKinds,
               at : Nat, activity : Int, series : Int, by : Nat]
TickType == [pc : {"idle", "reading"}, at : Nat, pending : SUBSET Jobs, claimed : SUBSET Int]

OutcomeTyped ==
    /\ report \in [Jobs -> ReportType] /\ tick \in TickType
    /\ activities \in Seq(FeedType) /\ efforts \in Seq(EffortType) /\ clock \in Nat

\* The activities of a run, and whether job j may end as run e did.
RunIds(e) == {StartId(e), PatchId(e), EndId(e)}
IsOwn(j, e) == efforts[e].job = j \/ HasRival(j)

EffortsHeld ==
    \A e \in 1..Len(efforts) :
        /\ efforts[e].series \in {NoSeries, e}
        /\ efforts[e].series # NoSeries => efforts[e].kind = "Script"

\* An activity tells of its run: an end, how it ended.
TellsOfRun(a) ==
    /\ a.effort \in 1..Len(efforts) /\ a.id \in RunIds(a.effort)
    /\ a.type = TypeOfKind(efforts[a.effort].kind) /\ a.series = efforts[a.effort].series
    /\ a.time <= clock
    /\ efforts[a.effort].state # "queued"
    /\ Terminal(a) => efforts[a.effort].state = Verdict(a)
    /\ a.id = EndId(a.effort) => Terminal(a)

\* What a job's record names, its activity, series and run, is its own or a rival's.
NamesOwn(j, r) ==
    /\ r.at <= clock
    /\ \/ r.activity \in {NoActivity, Echoed}
       \/ \E e \in 1..Len(efforts) : /\ r.activity \in RunIds(e) /\ IsOwn(j, e)
                                     /\ IsNative(r.kind) => efforts[e].kind # "Script"
    /\ r.series \in {NoSeries, Echoed} \/ (r.series \in 1..Len(efforts) /\ IsOwn(j, r.series))
    /\ IsNative(r.kind) =>
         /\ r.series = NoSeries /\ r.activity # Echoed
         /\ \A i \in 1..Len(activities) :
              activities[i].id = r.activity => activities[i].time >= r.at - Slack
    /\ r.by # 0 =>
         /\ r.by \in 1..Len(efforts) /\ IsOwn(j, r.by)
         /\ r.state \in {"Completed", "Failed", "cleared"}
         /\ r.state # "cleared" => efforts[r.by].state = r.state

FeedHeld ==
    /\ \A i \in 1..Len(activities) : TellsOfRun(activities[i])
    /\ \A i, k \in 1..Len(activities) : activities[i].id = activities[k].id => i = k
ReportsHeld == \A j \in Jobs : report[j].state # "unborn" => NamesOwn(j, report[j])

\* A tick waits for the jobs that were pending when it began, and knows what the jobs
\* before it had claimed; the two last conjuncts of JobsEndAsTheirRuns.
TickHeld ==
    /\ tick.at <= clock
    /\ tick.pc = "reading" =>
         /\ tick.pending \subseteq PendingJobs
         /\ \A j \in PendingJobs : j \in tick.pending \/ report[j].at >= tick.at
         /\ \A j \in InStore : IsNative(report[j].kind) =>
              report[j].activity \in tick.claimed \union {NoActivity}
    /\ tick.pc = "idle" => \A j \in PendingJobs : ~PastTimeout(report[j], tick.at)
NoneShared ==
    \A j, k \in InStore : j # k /\ IsNative(report[j].kind) /\ IsNative(report[k].kind) =>
        report[j].activity = NoActivity \/ report[j].activity # report[k].activity

OutcomeInv == OutcomeTyped /\ EffortsHeld /\ FeedHeld /\ ReportsHeld /\ TickHeld /\ NoneShared

LEMMA LeastOf ==
    ASSUME NEW S \in SUBSET Nat, S # {}
    PROVE  \E m \in S : \A n \in S : m <= n
  <1> SUFFICES ASSUME \A m \in S : \E n \in S : ~(m <= n) PROVE FALSE
    OBVIOUS
  <1> DEFINE T == {n \in Nat : \A x \in S : n <= x}
  <1>1. 0 \in T
    OBVIOUS
  <1>2. ASSUME NEW n \in T PROVE n + 1 \in T
    <2>1. n \notin S
      OBVIOUS
    <2>2. ASSUME NEW x \in S PROVE n + 1 <= x
      <3>1. n <= x /\ n # x /\ x \in Nat
        BY <2>1
      <3> QED BY <3>1
    <2> QED BY <2>2
  <1>3. T = Nat
    <2>1. T \in SUBSET Nat
      OBVIOUS
    <2> HIDE DEF T
    <2> QED BY <1>1, <1>2, <2>1, Induction
  <1>4. PICK x \in S : TRUE
    OBVIOUS
  <1>5. x + 1 \in T
    BY <1>3, <1>4
  <1> QED BY <1>4, <1>5

LEMMA GreatestOf ==
    ASSUME NEW max \in Nat, NEW S \in SUBSET (0..max), S # {}
    PROVE  \E m \in S : \A n \in S : n <= m
  <1> DEFINE D == {max - n : n \in S}
  <1>1. D \in SUBSET Nat /\ D # {}
    OBVIOUS
  <1>2. PICK d \in D : \A c \in D : d <= c
    <2> HIDE DEF D
    <2> QED BY <1>1, LeastOf
  <1>3. PICK m \in S : d = max - m
    OBVIOUS
  <1>4. ASSUME NEW n \in S PROVE n <= m
    <2>1. max - n \in D /\ n \in Nat /\ m \in Nat
      BY <1>3
    <2>2. d <= max - n
      BY <1>2, <2>1
    <2> QED BY <1>3, <2>1, <2>2
  <1> QED BY <1>4

\* The feed has an earliest, a latest and a last of any of its activities.
LEMMA EarliestIs ==
    ASSUME NEW max \in Nat, NEW shown \in SUBSET FeedType, shown # {},
           \A a \in shown : a.id <= max
    PROVE  EarliestOf(shown) \in shown
  <1> DEFINE times == {a.time : a \in shown}
  <1>1. times \in SUBSET Nat /\ times # {}
    BY DEF FeedType
  <1>2. PICK t \in times : \A u \in times : t <= u
    <2> HIDE DEF times
    <2> QED BY <1>1, LeastOf
  <1> DEFINE ids == {a.id : a \in {b \in shown : b.time = t}}
  <1>3. ids \in SUBSET (0..max) /\ ids # {}
    BY <1>2 DEF FeedType
  <1>4. PICK n \in ids : \A m \in ids : m <= n
    <2> HIDE DEF ids
    <2> QED BY <1>3, GreatestOf
  <1>5. PICK a \in shown : a.time = t /\ a.id = n
    BY <1>4
  <1>6. ASSUME NEW b \in shown PROVE a.time < b.time \/ (a.time = b.time /\ a.id >= b.id)
    <2>1. a.time \in Nat /\ b.time \in Nat /\ a.id \in Nat /\ b.id \in Nat /\ b.time \in times
      BY DEF FeedType
    <2>2. a.time <= b.time
      BY <1>2, <1>5, <2>1
    <2>3. b.time = t => b.id \in ids
      OBVIOUS
    <2>4. b.time = t => b.id <= n
      BY <1>4, <2>3
    <2> QED BY <1>5, <2>1, <2>2, <2>4
  <1> QED BY <1>6 DEF EarliestOf

LEMMA LatestIs ==
    ASSUME NEW max \in Nat, NEW shown \in SUBSET FeedType, shown # {},
           \A a \in shown : a.time <= max
    PROVE  LatestOf(shown) \in shown
  <1> DEFINE times == {a.time : a \in shown}
  <1>1. times \in SUBSET (0..max) /\ times # {}
    BY DEF FeedType
  <1>2. PICK t \in times : \A u \in times : u <= t
    <2> HIDE DEF times
    <2> QED BY <1>1, GreatestOf
  <1> DEFINE ids == {a.id : a \in {b \in shown : b.time = t}}
  <1>3. ids \in SUBSET Nat /\ ids # {}
    BY <1>2 DEF FeedType
  <1>4. PICK n \in ids : \A m \in ids : n <= m
    <2> HIDE DEF ids
    <2> QED BY <1>3, LeastOf
  <1>5. PICK a \in shown : a.time = t /\ a.id = n
    BY <1>4
  <1>6. ASSUME NEW b \in shown PROVE a.time > b.time \/ (a.time = b.time /\ a.id <= b.id)
    <2>1. a.time \in Nat /\ b.time \in Nat /\ a.id \in Nat /\ b.id \in Nat /\ b.time \in times
      BY DEF FeedType
    <2>2. b.time <= a.time
      BY <1>2, <1>5, <2>1
    <2>3. b.time = t => b.id \in ids
      OBVIOUS
    <2>4. b.time = t => n <= b.id
      BY <1>4, <2>3
    <2> QED BY <1>5, <2>1, <2>2, <2>4
  <1> QED BY <1>6 DEF LatestOf

LEMMA LastIs ==
    ASSUME NEW max \in Nat, NEW shown \in SUBSET FeedType, shown # {},
           \A a \in shown : a.id <= max
    PROVE  LastOf(shown) \in shown
  <1> DEFINE ids == {a.id : a \in shown}
  <1>1. ids \in SUBSET (0..max) /\ ids # {}
    BY DEF FeedType
  <1>2. PICK n \in ids : \A m \in ids : m <= n
    <2> HIDE DEF ids
    <2> QED BY <1>1, GreatestOf
  <1>3. PICK a \in shown : a.id = n
    OBVIOUS
  <1>4. ASSUME NEW b \in shown PROVE a.id >= b.id
    <2>1. a.id \in Nat /\ b.id \in Nat /\ b.id \in ids
      BY DEF FeedType
    <2> QED BY <1>2, <1>3, <2>1
  <1> QED BY <1>4 DEF LastOf

LEMMA KindsAreTold ==
    \A kind \in OutcomeKinds :
        /\ TypeOfKind(kind) \in {"PATCH_MANAGEMENT", "SYSTEM", "SCRIPTING"}
        /\ TypeOfKind(kind) = "SCRIPTING" <=> kind = "Script"
        /\ StartCode(kind) \in FeedCodes /\ EndCodes(kind) \subseteq FeedCodes
  BY DEF OutcomeKinds, TypeOfKind, StartCode, EndCodes, FeedCodes

LEMMA RunIdsDiffer ==
    ASSUME NEW e \in Nat \ {0}, NEW f \in Nat \ {0}, NEW id, id \in RunIds(e), id \in RunIds(f)
    PROVE  e = f /\ id \in Nat \ {0} /\ id <= 3 * e
  BY DEF RunIds, StartId, PatchId, EndId

\* Whatever a job matches is its own or a rival's; a native job's is new, if it is not
\* what the job is bound to.
LEMMA MatchIsOwn ==
    ASSUME OutcomeInv, NEW j \in Jobs, report[j].state # "unborn",
           NEW shown \in SUBSET ToSet(activities), NEW claimed,
           NEW a \in MatchActivity(report[j], shown, claimed)
    PROVE  /\ \E i \in 1..Len(activities) : a = activities[i]
           /\ IsOwn(j, a.effort)
           /\ IsNative(report[j].kind) =>
                /\ efforts[a.effort].kind # "Script" /\ a.series = NoSeries
                /\ a.id = report[j].activity \/ a.id \notin claimed
                /\ a.time >= report[j].at - Slack
  <1> DEFINE r == report[j]
             max == 3 * Len(efforts)
  <1>t. /\ r \in ReportType /\ NamesOwn(j, r) /\ EffortsHeld /\ Slack \in Nat
        /\ Len(efforts) \in Nat /\ Len(activities) \in Nat /\ max \in Nat /\ clock \in Nat
        /\ \A e \in 1..Len(efforts) : efforts[e] \in EffortType
        /\ \A i \in 1..Len(activities) : activities[i] \in FeedType /\ TellsOfRun(activities[i])
    BY OutcomesAssumption DEF OutcomeInv, OutcomeTyped, ReportsHeld, FeedHeld
  <1>f. ASSUME NEW b \in shown
        PROVE  /\ b \in FeedType /\ \E i \in 1..Len(activities) : b = activities[i]
               /\ TellsOfRun(b) /\ b.id <= max /\ b.time <= clock
               /\ b.effort \in 1..Len(efforts) /\ b.id \in RunIds(b.effort) /\ b.id \in Nat \ {0}
               /\ b.series \in {NoSeries, b.effort}
    <2>1. PICK i \in 1..Len(activities) : b = activities[i]
      BY DEF ToSet
    <2>2. b \in FeedType /\ TellsOfRun(b)
      BY <1>t, <2>1
    <2>3. b.effort \in 1..Len(efforts) /\ b.id \in RunIds(b.effort) /\ b.time <= clock /\ b.effort \in Nat
      BY <1>t, <2>2 DEF TellsOfRun
    <2>4. b.id \in Nat \ {0} /\ b.id <= 3 * b.effort
      BY <2>3, RunIdsDiffer
    <2>5. b.series \in {NoSeries, b.effort}
      BY <1>t, <2>2, <2>3 DEF TellsOfRun, EffortsHeld
    <2>6. b.id <= max
      BY <1>t, <2>3, <2>4
    <2> QED BY <2>1, <2>2, <2>3, <2>4, <2>5, <2>6
  <1>k. /\ \A b \in shown : efforts[b.effort].kind \in OutcomeKinds
        /\ r.kind \in OutcomeKinds /\ r.at \in Nat /\ r.activity \in Int /\ r.series \in Int
    BY <1>t, <1>f DEF EffortType, ReportType
  \* What can be of a job's kind is its own or a rival's.
  <1>c. ASSUME NEW b \in shown, CanBeOf(r.kind, b), b.time >= r.at - Slack
        PROVE  /\ IsOwn(j, b.effort)
               /\ IsNative(r.kind) => efforts[b.effort].kind # "Script" /\ b.series = NoSeries
    <2>1. IsOwn(j, b.effort)
      BY <1>c, <1>f, <1>t DEF IsOwn, HasRival
    <2>2. ASSUME IsNative(r.kind) PROVE efforts[b.effort].kind # "Script"
      <3>1. b.type = TypeOfKind(r.kind) /\ b.type = TypeOfKind(efforts[b.effort].kind)
        BY <1>c, <1>f DEF CanBeOf, TellsOfRun
      <3> QED BY <3>1, <2>2, <1>k, KindsAreTold DEF IsNative
    <2>3. efforts[b.effort].kind # "Script" => b.series = NoSeries
      BY <1>f, <1>t DEF TellsOfRun, EffortsHeld
    <2> QED BY <2>1, <2>2, <2>3
  \* What it is bound to.
  <1>b. ASSUME NEW s \in Bound(r, shown)
        PROVE  /\ s \in shown /\ s.id = r.activity /\ IsOwn(j, s.effort)
               /\ IsNative(r.kind) => /\ efforts[s.effort].kind # "Script" /\ s.series = NoSeries
                                      /\ s.time >= r.at - Slack
    <2>1. s \in shown /\ s.id = r.activity
      BY <1>b DEF Bound
    <2>2. s.id \in Nat \ {0} /\ s.effort \in 1..Len(efforts) /\ s.id \in RunIds(s.effort)
      BY <1>f, <2>1
    <2>3. r.activity \notin {NoActivity, Echoed}
      BY <2>1, <2>2 DEF NoActivity, Echoed
    <2>4. PICK e \in 1..Len(efforts) : /\ r.activity \in RunIds(e) /\ IsOwn(j, e)
                                       /\ IsNative(r.kind) => efforts[e].kind # "Script"
      BY <1>t, <2>3 DEF NamesOwn
    <2>5. e = s.effort
      <3>1. /\ e \in Nat \ {0} /\ s.effort \in Nat \ {0}
            /\ r.activity \in RunIds(e)
        BY <2>2, <2>4, <1>t
      <3>2. r.activity \in RunIds(s.effort)
        BY <2>1, <2>2, Zenon
      <3> QED BY <3>1, <3>2, RunIdsDiffer
    <2>6. efforts[s.effort].kind # "Script" => s.series = NoSeries
      BY <1>f, <1>t, <2>1 DEF TellsOfRun, EffortsHeld
    <2>7. IsNative(r.kind) => s.time >= r.at - Slack
      <3>1. PICK i \in 1..Len(activities) : s = activities[i]
        BY <1>f, <2>1
      <3>2. IsNative(r.kind) => \A k \in 1..Len(activities) :
                activities[k].id = r.activity => activities[k].time >= r.at - Slack
        BY <1>t DEF NamesOwn
      <3> QED BY <2>1, <3>1, <3>2
    <2>8. IsOwn(j, s.effort) /\ (IsNative(r.kind) => efforts[s.effort].kind # "Script")
      BY <2>4, <2>5
    <2> QED BY <2>1, <2>6, <2>7, <2>8, Zenon
  \* The end of what it is bound to.
  <1>e. ASSUME NEW s \in Bound(r, shown), NEW b \in EndsOfRun(r, s, shown, claimed)
        PROVE  /\ b \in shown /\ IsOwn(j, b.effort)
               /\ IsNative(r.kind) => /\ efforts[b.effort].kind # "Script" /\ b.series = NoSeries
                                      /\ b.time >= r.at - Slack /\ b.id \notin claimed
    <2>1. /\ s \in shown /\ IsOwn(j, s.effort)
          /\ IsNative(r.kind) => s.series = NoSeries /\ s.time >= r.at - Slack
      BY <1>b
    <2>2. /\ b \in shown /\ b.id \notin claimed /\ b.time >= s.time
          /\ IF s.series # NoSeries THEN b.series = s.series ELSE CanBeOf(r.kind, b)
          /\ s.series = NoSeries => IsNative(r.kind)
      BY DEF EndsOfRun
    <2>3. b.time \in Nat /\ s.time \in Nat
      BY <1>f, <2>1, <2>2 DEF FeedType
    <2>4. CASE s.series # NoSeries
      <3>1. b.series = s.series /\ b.series = b.effort /\ s.series = s.effort
        BY <1>f, <2>1, <2>2, <2>4
      <3> QED BY <2>1, <2>2, <2>4, <3>1
    <2>5. CASE s.series = NoSeries
      <3>1. CanBeOf(r.kind, b) /\ IsNative(r.kind) /\ s.time >= r.at - Slack
        BY <2>1, <2>2, <2>5
      <3>2. b.time >= r.at - Slack
        BY <1>t, <1>k, <2>2, <2>3, <3>1
      <3> QED BY <1>c, <2>2, <3>1, <3>2
    <2> QED BY <2>4, <2>5
  \* What is in its series.
  <1>s. ASSUME NEW b \in InSeries(r, shown)
        PROVE  b \in shown /\ IsOwn(j, b.effort) /\ ~IsNative(r.kind)
    <2>1. b \in shown /\ r.series # NoSeries /\ b.series = r.series
      BY <1>s DEF InSeries
    <2>2. b.series = b.effort /\ b.effort \in 1..Len(efforts)
      BY <1>f, <2>1
    <2>3. r.series \in 1..Len(efforts)
      BY <2>1, <2>2
    <2>4. r.series # Echoed
      BY <2>3 DEF Echoed
    <2> QED BY <1>t, <2>1, <2>2, <2>4 DEF NamesOwn
  <1>g. ASSUME NEW b \in Guesses(r, shown, claimed)
        PROVE  /\ b \in shown /\ IsOwn(j, b.effort)
               /\ IsNative(r.kind) => /\ efforts[b.effort].kind # "Script" /\ b.series = NoSeries
                                      /\ b.time >= r.at - Slack /\ b.id \notin claimed
    <2>1. b \in shown /\ CanBeOf(r.kind, b) /\ b.id \notin claimed /\ b.time >= r.at - Slack
      BY DEF Guesses
    <2> QED BY <1>c, <2>1
  <1>m. \A S \in SUBSET shown : S # {} => EarliestOf(S) \in S /\ LatestOf(S) \in S /\ LastOf(S) \in S
    <2> SUFFICES ASSUME NEW S \in SUBSET shown, S # {}
                 PROVE  EarliestOf(S) \in S /\ LatestOf(S) \in S /\ LastOf(S) \in S
      OBVIOUS
    <2>1. S \in SUBSET FeedType /\ \A b \in S : b.id <= max /\ b.time <= clock
      BY <1>f
    <2> HIDE DEF max
    <2> QED BY <1>t, <2>1, EarliestIs, LatestIs, LastIs
  <1> HIDE DEF r, max
  <1>d. /\ a \in shown /\ IsOwn(j, a.effort)
        /\ IsNative(r.kind) => /\ efforts[a.effort].kind # "Script" /\ a.series = NoSeries
                               /\ a.id = r.activity \/ a.id \notin claimed
                               /\ a.time >= r.at - Slack
    <2> DEFINE ends(s) == IF Terminal(s) THEN {} ELSE EndsOfRun(r, s, shown, claimed)
               series == InSeries(r, shown)
               ended == {b \in series : Terminal(b)}
    <2>1. CASE Bound(r, shown) # {}
      <3>1. PICK s \in Bound(r, shown) : a = IF ends(s) # {} THEN EarliestOf(ends(s)) ELSE s
        BY <2>1 DEF MatchActivity, r
      <3>2. CASE ends(s) = {}
        BY <1>b, <3>1, <3>2
      <3>3. CASE ends(s) # {}
        <4>1. ends(s) \subseteq EndsOfRun(r, s, shown, claimed)
          OBVIOUS
        <4>2. ends(s) \in SUBSET shown
          BY <4>1 DEF EndsOfRun
        <4>3. a \in ends(s)
          <5> HIDE DEF ends
          <5> QED BY <1>m, <3>1, <3>3, <4>2
        <4> QED BY <1>e, <4>1, <4>3
      <3> QED BY <3>2, <3>3
    <2>2. CASE Bound(r, shown) = {} /\ series # {}
      <3> DEFINE S == IF ended # {} THEN ended ELSE series
      <3>1. a = LastOf(S)
        BY <2>2 DEF MatchActivity, r
      <3>2. S \in SUBSET shown /\ S # {} /\ S \subseteq series
        BY <2>2 DEF InSeries
      <3>3. a \in series
        <4> HIDE DEF S
        <4> QED BY <1>m, <3>1, <3>2
      <3> QED BY <1>s, <3>3
    <2>3. CASE Bound(r, shown) = {} /\ series = {}
      <3>1. Guesses(r, shown, claimed) # {} /\ a = LatestOf(Guesses(r, shown, claimed))
        BY <2>3 DEF MatchActivity, r
      <3>2. Guesses(r, shown, claimed) \in SUBSET shown
        BY DEF Guesses
      <3>3. a \in Guesses(r, shown, claimed)
        BY <1>m, <3>1, <3>2
      <3> QED BY <1>g, <3>3
    <2> QED BY <2>1, <2>2, <2>3
  <1> QED BY <1>d, <1>f DEF r

\* What a tick makes of a pending job: its record names its own, or a rival's; it is
\* settled if it is past its timeout; and if it is native, what it claims is new, unless it
\* had it.
Carried(j, r, at, claimed) ==
    /\ r \in ReportType /\ r.kind = report[j].kind /\ r.at = report[j].at
    /\ r.state \notin {"unborn", "cleared"} /\ NamesOwn(j, r)
    /\ r.state \notin Settled => ~PastTimeout(report[j], at)
    /\ IsNative(r.kind) => r.activity = report[j].activity \/ r.activity \notin claimed

LEMMA WaitingIs ==
    ASSUME OutcomeInv, NEW j \in PendingJobs, NEW at \in Nat, NEW claimed
    PROVE  Carried(j, WaitsOn(report[j], at), at, claimed)
  <1> DEFINE r == report[j]
  <1>1. /\ j \in Jobs /\ r.state \in {"Queued", "Running"} /\ r \in ReportType /\ NamesOwn(j, r)
    BY DEF PendingJobs, InStore, Settled, OutcomeInv, OutcomeTyped, ReportType, ReportsHeld
  <1>2. r.by = 0
    BY <1>1 DEF NamesOwn
  <1> HIDE DEF r
  <1>3. CASE PastTimeout(r, at)
    <2>1. PICK q : q = WaitsOn(r, at)
      OBVIOUS
    <2>2. q = [r EXCEPT !.state = "TimedOut"]
      BY <2>1, <1>3 DEF WaitsOn
    <2>3. /\ q \in ReportType /\ q.kind = r.kind /\ q.at = r.at /\ q.activity = r.activity
          /\ q.series = r.series /\ q.by = r.by /\ q.state = "TimedOut"
      BY <1>1, <2>2 DEF ReportType, Settled
    <2>4. NamesOwn(j, q)
      BY <1>1, <1>2, <2>3 DEF NamesOwn
    <2> QED BY <2>1, <2>3, <2>4 DEF Carried, Settled, r
  <1>4. CASE ~PastTimeout(r, at)
    <2>1. WaitsOn(r, at) = r
      BY <1>4 DEF WaitsOn
    <2> QED BY <1>1, <1>4, <2>1 DEF Carried, r
  <1> QED BY <1>3, <1>4 DEF r

LEMMA AdvancingIs ==
    ASSUME OutcomeInv, NEW j \in PendingJobs, NEW at \in Nat,
           NEW shown \in SUBSET ToSet(activities), NEW claimed
    PROVE  Carried(j, Advanced(report[j], at, shown, claimed), at, claimed)
  <1> DEFINE r == report[j]
             match == MatchActivity(r, shown, claimed)
  <1>1. /\ j \in Jobs /\ r.state \in {"Queued", "Running"} /\ r \in ReportType /\ NamesOwn(j, r)
    BY DEF PendingJobs, InStore, Settled, OutcomeInv, OutcomeTyped, ReportType, ReportsHeld
  <1>2. r.by = 0
    BY <1>1 DEF NamesOwn
  <1>3. CASE match = {}
    BY <1>3, WaitingIs DEF Advanced
  <1>4. CASE match # {}
    <2>1. PICK a \in match : a = CHOOSE b \in match : TRUE
      BY <1>4
    <2>2. /\ \E i \in 1..Len(activities) : a = activities[i]
          /\ IsOwn(j, a.effort)
          /\ IsNative(r.kind) => /\ efforts[a.effort].kind # "Script" /\ a.series = NoSeries
                                 /\ a.id = r.activity \/ a.id \notin claimed
                                 /\ a.time >= r.at - Slack
      <3>1. r.state # "unborn"
        BY <1>1
      <3>2. j \in Jobs /\ a \in MatchActivity(r, shown, claimed)
        BY <1>1, <2>1
      <3> HIDE DEF match
      <3> QED BY <3>1, <3>2, MatchIsOwn
    <2>3. PICK i \in 1..Len(activities) : a = activities[i]
      BY <2>2
    <2>4. /\ a \in FeedType /\ TellsOfRun(a) /\ EffortsHeld
          /\ \A k \in 1..Len(activities) : activities[k].id = a.id => activities[k] = a
      BY <2>3 DEF OutcomeInv, OutcomeTyped, FeedHeld
    <2>5. PICK q : q = AdvancedBy(r, a, at)
      OBVIOUS
    <2>6. q = Advanced(r, at, shown, claimed)
      BY <1>4, <2>1, <2>5 DEF Advanced
    <2>7. /\ a.effort \in 1..Len(efforts) /\ a.id \in RunIds(a.effort) /\ a.id \in Int /\ a.effort \in Nat
          /\ a.effort # 0 /\ a.series \in {NoSeries, a.effort} /\ a.series \in Nat
          /\ Terminal(a) => efforts[a.effort].state = Verdict(a)
      BY <2>4 DEF TellsOfRun, EffortsHeld, FeedType
    <2> HIDE DEF match
    <2>8. /\ q \in ReportType /\ q.kind = r.kind /\ q.at = r.at
          /\ q.activity = a.id \/ q.activity = r.activity
          /\ q.series \in {a.series, r.series}
          /\ IF Terminal(a) THEN q.state = Verdict(a) /\ q.by = a.effort
             ELSE q.by = r.by /\ q.state = IF PastTimeout(r, at) THEN "TimedOut" ELSE "Running"
          /\ r.series = NoSeries \/ q.series = r.series
      <3>1. PICK sr : sr = IF r.series = NoSeries THEN a.series ELSE r.series
        OBVIOUS
      <3>2. sr \in Int /\ sr \in {a.series, r.series} /\ (r.series = NoSeries \/ sr = r.series)
        BY <1>1, <2>7, <3>1 DEF ReportType
      <3>3. CASE Terminal(a)
        <4>1. q = [r EXCEPT !.state = Verdict(a), !.activity = a.id, !.series = sr, !.by = a.effort]
          BY <2>5, <3>1, <3>3 DEF AdvancedBy
        <4>2. Verdict(a) \in {"Failed", "Completed"}
          BY DEF Verdict
        <4> QED BY <1>1, <2>7, <3>2, <3>3, <4>1, <4>2 DEF ReportType, Settled
      <3>4. CASE ~Terminal(a)
        <4>1. PICK st, ac : /\ st = IF PastTimeout(r, at) THEN "TimedOut" ELSE "Running"
                            /\ ac = IF r.activity = NoActivity THEN a.id ELSE r.activity
          OBVIOUS
        <4>2. q = [r EXCEPT !.state = st, !.activity = ac, !.series = sr]
          BY <2>5, <3>1, <3>4, <4>1 DEF AdvancedBy
        <4>3. st \in {"TimedOut", "Running"} /\ ac \in {a.id, r.activity} /\ ac \in Int
          BY <1>1, <2>7, <4>1 DEF ReportType
        <4> QED BY <1>1, <2>7, <3>2, <3>4, <4>1, <4>2, <4>3 DEF ReportType, Settled
      <3> QED BY <3>3, <3>4
    <2>9. NamesOwn(j, q)
      <3>1. q.at <= clock
        BY <1>1, <2>8 DEF NamesOwn
      <3>2. \/ q.activity \in {NoActivity, Echoed}
            \/ \E e \in 1..Len(efforts) : /\ q.activity \in RunIds(e) /\ IsOwn(j, e)
                                          /\ IsNative(q.kind) => efforts[e].kind # "Script"
        <4>1. CASE q.activity = a.id
          BY <2>2, <2>7, <2>8, <4>1
        <4>2. CASE q.activity = r.activity
          BY <1>1, <2>8, <4>2 DEF NamesOwn
        <4> QED BY <2>8, <4>1, <4>2
      <3>3. q.series \in {NoSeries, Echoed} \/ (q.series \in 1..Len(efforts) /\ IsOwn(j, q.series))
        <4>1. CASE q.series = a.series
          BY <2>2, <2>7, <4>1
        <4>2. CASE q.series = r.series
          BY <1>1, <4>2 DEF NamesOwn
        <4> QED BY <2>8, <4>1, <4>2
      <3>4. ASSUME IsNative(q.kind)
            PROVE  /\ q.series = NoSeries /\ q.activity # Echoed
                   /\ \A k \in 1..Len(activities) :
                        activities[k].id = q.activity => activities[k].time >= q.at - Slack
        <4>1. /\ r.series = NoSeries /\ r.activity # Echoed /\ a.series = NoSeries /\ a.time >= r.at - Slack
              /\ \A k \in 1..Len(activities) :
                        activities[k].id = r.activity => activities[k].time >= r.at - Slack
          BY <1>1, <2>2, <2>8, <3>4 DEF NamesOwn
        <4>2. q.series = NoSeries
          BY <2>8, <4>1
        <4>3. a.id # Echoed
          BY <2>4 DEF FeedType, Echoed
        <4>4. CASE q.activity = a.id
          BY <2>4, <2>8, <4>1, <4>2, <4>3, <4>4
        <4>5. CASE q.activity = r.activity
          BY <2>8, <4>1, <4>2, <4>5
        <4> QED BY <2>8, <4>4, <4>5
      <3>5. q.by # 0 => /\ q.by \in 1..Len(efforts) /\ IsOwn(j, q.by)
                        /\ q.state \in {"Completed", "Failed", "cleared"}
                        /\ q.state # "cleared" => efforts[q.by].state = q.state
        BY <1>2, <2>2, <2>7, <2>8 DEF Verdict
      <3> QED BY <3>1, <3>2, <3>3, <3>4, <3>5, Zenon DEF NamesOwn
    <2>10. /\ q.state \notin {"unborn", "cleared"}
           /\ q.state \notin Settled => ~PastTimeout(r, at)
      BY <2>8 DEF Verdict, Settled
    <2>11. IsNative(q.kind) => q.activity = r.activity \/ q.activity \notin claimed
      BY <2>2, <2>8
    <2> QED BY <2>6, <2>8, <2>9, <2>10, <2>11 DEF Carried
  <1> QED BY <1>3, <1>4

\* As time passes, runs and activities are added, and of what there is only the state of a
\* run that has not ended, and the code of a script's activity, change.
Later ==
    /\ clock <= clock'
    /\ Len(efforts) <= Len(efforts')
    /\ \A e \in 1..Len(efforts) :
         /\ efforts'[e].kind = efforts[e].kind /\ efforts'[e].job = efforts[e].job
         /\ efforts[e].state \in {"Completed", "Failed"} => efforts'[e].state = efforts[e].state
    /\ Len(activities) <= Len(activities')
    /\ \A i \in 1..Len(activities) :
         /\ activities'[i].id = activities[i].id /\ activities'[i].type = activities[i].type
         /\ activities'[i].time = activities[i].time /\ activities'[i].effort = activities[i].effort
         /\ activities'[i].code = activities[i].code \/ activities'[i].code \in {"COMPLETED", "FAILED"}
    /\ \A i \in 1..Len(activities') : i > Len(activities) => activities'[i].time = clock

\* A rival stays one.
LEMMA OwnStays ==
    ASSUME OutcomeTyped, FeedHeld, OutcomeTyped', Later, NEW j \in Jobs,
           report'[j].kind = report[j].kind, report'[j].at = report[j].at,
           NEW e \in 1..Len(efforts), IsOwn(j, e)
    PROVE  IsOwn(j, e)' /\ e \in 1..Len(efforts')
  <1>t. Len(efforts) \in Nat /\ Len(efforts') \in Nat /\ Len(activities) \in Nat /\ Len(activities') \in Nat
    BY DEF OutcomeTyped
  <1>1. e \in 1..Len(efforts')
    BY <1>t DEF Later
  <1>2. CASE efforts[e].job = j
    BY <1>2 DEF IsOwn, Later
  <1>3. CASE HasRival(j)
    <2>1. PICK i \in DOMAIN activities :
            /\ CanBeOf(report[j].kind, activities[i])
            /\ activities[i].time >= report[j].at - Slack
            /\ efforts[activities[i].effort].job # j
      BY <1>3 DEF HasRival
    <2>2. i \in 1..Len(activities) /\ i \in 1..Len(activities') /\ i \in DOMAIN activities'
      BY <1>t, <2>1 DEF OutcomeTyped, Later
    <2>3. activities[i].effort \in 1..Len(efforts)
      BY <2>2 DEF FeedHeld, TellsOfRun
    <2>4. /\ activities'[i].type = activities[i].type /\ activities'[i].time = activities[i].time
          /\ activities'[i].effort = activities[i].effort
          /\ activities'[i].code = activities[i].code \/ activities'[i].code \in {"COMPLETED", "FAILED"}
      BY <2>2 DEF Later
    <2>5. CanBeOf(report'[j].kind, activities'[i])
      BY <2>1, <2>4 DEF CanBeOf
    <2>6. efforts'[activities'[i].effort].job # j
      BY <2>1, <2>3, <2>4 DEF Later
    <2>7. \E k \in DOMAIN activities' :
            /\ CanBeOf(report'[j].kind, activities'[k])
            /\ activities'[k].time >= report'[j].at - Slack
            /\ efforts'[activities'[k].effort].job # j
      BY <2>1, <2>2, <2>4, <2>5, <2>6
    <2>8. HasRival(j)'
      BY <2>7, Zenon DEF HasRival
    <2> QED BY <2>8, <1>1 DEF IsOwn
  <1> QED BY <1>1, <1>2, <1>3 DEF IsOwn

LEMMA NamesStay ==
    ASSUME OutcomeTyped, FeedHeld, OutcomeTyped', Later, NEW j \in Jobs,
           report'[j].kind = report[j].kind, report'[j].at = report[j].at, NamesOwn(j, report'[j])
    PROVE  NamesOwn(j, report[j])'
  <1>t. /\ Len(efforts) \in Nat /\ Len(efforts') \in Nat /\ Len(activities) \in Nat
        /\ Len(activities') \in Nat /\ clock \in Nat /\ clock' \in Nat /\ Slack \in Nat
    BY OutcomesAssumption DEF OutcomeTyped
  <1>1. PICK r \in ReportType : r = report'[j]
    BY DEF OutcomeTyped
  <1>2. NamesOwn(j, r)
    BY <1>1
  <1>3. r.at \in Nat /\ r.kind = report[j].kind
    BY <1>1 DEF ReportType
  <1>4. r.at <= clock'
    BY <1>2, <1>3, <1>t DEF NamesOwn, Later
  <1>5. \/ r.activity \in {NoActivity, Echoed}
        \/ \E e \in 1..Len(efforts') : /\ r.activity \in RunIds(e) /\ IsOwn(j, e)'
                                       /\ IsNative(r.kind) => efforts'[e].kind # "Script"
    <2>1. CASE r.activity \in {NoActivity, Echoed}
      BY <2>1
    <2>2. CASE r.activity \notin {NoActivity, Echoed}
      <3>1. PICK e \in 1..Len(efforts) : /\ r.activity \in RunIds(e) /\ IsOwn(j, e)
                                         /\ IsNative(r.kind) => efforts[e].kind # "Script"
        BY <1>2, <2>2 DEF NamesOwn
      <3>2. IsOwn(j, e)' /\ e \in 1..Len(efforts')
        BY <3>1, OwnStays
      <3>3. efforts'[e].kind = efforts[e].kind
        BY DEF Later
      <3> QED BY <3>1, <3>2, <3>3
    <2> QED BY <2>1, <2>2
  <1>6. r.series \in {NoSeries, Echoed} \/ (r.series \in 1..Len(efforts') /\ IsOwn(j, r.series)')
    <2>1. CASE r.series \notin {NoSeries, Echoed}
      <3>1. PICK e \in 1..Len(efforts) : e = r.series /\ IsOwn(j, e)
        BY <1>2, <2>1 DEF NamesOwn
      <3>2. IsOwn(j, e)' /\ e \in 1..Len(efforts')
        BY <3>1, OwnStays
      <3> QED BY <3>1, <3>2 DEF IsOwn
    <2> QED BY <2>1
  <1>7. ASSUME IsNative(r.kind)
        PROVE  /\ r.series = NoSeries /\ r.activity # Echoed
               /\ \A i \in 1..Len(activities') :
                    activities'[i].id = r.activity => activities'[i].time >= r.at - Slack
    <2>1. ASSUME NEW i \in 1..Len(activities'), activities'[i].id = r.activity
          PROVE  activities'[i].time >= r.at - Slack
      <3>1. CASE i <= Len(activities)
        <4>1. i \in 1..Len(activities)
          BY <1>t, <3>1
        <4>2. activities'[i].id = activities[i].id /\ activities'[i].time = activities[i].time
          BY <4>1 DEF Later
        <4> QED BY <1>2, <1>7, <2>1, <4>1, <4>2 DEF NamesOwn
      <3>2. CASE ~(i <= Len(activities))
        <4>1. activities'[i].time = clock
          BY <1>t, <3>2 DEF Later
        <4>2. r.at <= clock
          BY <1>2 DEF NamesOwn
        <4> QED BY <1>t, <1>3, <4>1, <4>2
      <3> QED BY <3>1, <3>2
    <2> QED BY <1>2, <1>7, <2>1 DEF NamesOwn
  <1>8. ASSUME r.by # 0
        PROVE  /\ r.by \in 1..Len(efforts') /\ IsOwn(j, r.by)'
               /\ r.state \in {"Completed", "Failed", "cleared"}
               /\ r.state # "cleared" => efforts'[r.by].state = r.state
    <2>1. PICK e \in 1..Len(efforts) : e = r.by /\ IsOwn(j, e)
      BY <1>2, <1>8 DEF NamesOwn
    <2>2. IsOwn(j, e)' /\ e \in 1..Len(efforts')
      BY <2>1, OwnStays
    <2>3. /\ r.state \in {"Completed", "Failed", "cleared"}
          /\ r.state # "cleared" => efforts[e].state = r.state
      BY <1>2, <1>8, <2>1 DEF NamesOwn
    <2>4. r.state # "cleared" => efforts'[e].state = r.state
      BY <2>3 DEF Later
    <2>5. IsOwn(j, r.by)'
      BY <2>1, <2>2 DEF IsOwn
    <2> QED BY <2>1, <2>2, <2>3, <2>4, <2>5
  <1>9. IsOwn(j, report[j].by)' <=> IsOwn(j, r.by)'
    BY <1>1 DEF IsOwn
  <1>10. IsOwn(j, report[j].series)' <=> IsOwn(j, r.series)'
    BY <1>1 DEF IsOwn
  <1> QED BY <1>1, <1>4, <1>5, <1>6, <1>7, <1>8, <1>9, <1>10, Zenon DEF NamesOwn

\* What the jobs up to one have claimed, in a tick.
Claim(j, shown, before) ==
    IF j \in tick.pending
    THEN before \union ({Advanced(report[j], tick.at, shown, before).activity} \ {NoActivity})
    ELSE before
Claims(c, shown, n) == c = [j \in 0..n |-> IF j = 0 THEN tick.claimed ELSE Claim(j, shown, c[j - 1])]

LEMMA ClaimsExist ==
    ASSUME NEW shown, NEW n \in Nat
    PROVE  \E c : Claims(c, shown, n)
  <1> DEFINE S == {m \in Nat : \E c : Claims(c, shown, m)}
  <1>1. 0 \in S
    <2>1. Claims([j \in 0..0 |-> tick.claimed], shown, 0)
      BY DEF Claims
    <2> QED BY <2>1
  <1>2. ASSUME NEW m \in S PROVE m + 1 \in S
    <2>1. PICK c : Claims(c, shown, m)
      OBVIOUS
    <2>2. m \in Nat /\ m + 1 \in Nat
      OBVIOUS
    <2> DEFINE d == [j \in 0..(m + 1) |-> IF j <= m THEN c[j] ELSE Claim(m + 1, shown, c[m])]
    <2>3. ASSUME NEW j \in 0..(m + 1)
          PROVE  d[j] = IF j = 0 THEN tick.claimed ELSE Claim(j, shown, d[j - 1])
      <3>1. CASE j = 0
        <4>1. c[0] = tick.claimed
          BY <2>1, <2>2 DEF Claims
        <4> QED BY <2>2, <3>1, <4>1
      <3>2. CASE j # 0 /\ j <= m
        <4>1. j \in 0..m /\ j - 1 \in 0..(m + 1) /\ j - 1 <= m /\ j <= m
          BY <2>2, <3>2
        <4>2. c[j] = Claim(j, shown, c[j - 1])
          BY <2>1, <3>2, <4>1 DEF Claims
        <4>3. d[j] = c[j] /\ d[j - 1] = c[j - 1]
          BY <4>1
        <4> HIDE DEF d
        <4> QED BY <3>2, <4>2, <4>3
      <3>3. CASE j = m + 1
        <4>1. ~(m + 1 <= m) /\ (m + 1) - 1 = m /\ m \in 0..(m + 1) /\ m <= m /\ m + 1 \in 0..(m + 1)
          BY <2>2
        <4>2. d[m + 1] = Claim(m + 1, shown, c[m])
          BY <4>1
        <4>3. d[m] = c[m]
          BY <4>1
        <4> HIDE DEF d
        <4> QED BY <2>2, <3>3, <4>1, <4>2, <4>3
      <3> QED BY <2>2, <3>1, <3>2, <3>3
    <2>4. d = [j \in 0..(m + 1) |-> d[j]]
      OBVIOUS
    <2> HIDE DEF d
    <2>5. d = [j \in 0..(m + 1) |-> IF j = 0 THEN tick.claimed ELSE Claim(j, shown, d[j - 1])]
      BY <2>3, <2>4, Zenon
    <2>6. Claims(d, shown, m + 1)
      BY <2>5 DEF Claims
    <2> QED BY <2>2, <2>6
  <1>3. S \in SUBSET Nat
    OBVIOUS
  <1>4. S = Nat
    <2> HIDE DEF S
    <2> QED BY <1>1, <1>2, <1>3, Induction
  <1> QED BY <1>4

\* A later job sees all that the jobs before it, and the jobs of the store, have claimed.
LEMMA ClaimsGrow ==
    ASSUME NEW shown, NEW n \in Nat, NEW c, Claims(c, shown, n), NEW i \in 0..n, NEW k \in i..n
    PROVE  c[i] \subseteq c[k]
  <1>0. i \in Nat /\ i <= n /\ k \in Nat /\ k <= n /\ i <= k
    OBVIOUS
  <1> DEFINE S == {m \in Nat : i + m <= n => c[i] \subseteq c[i + m]}
  <1>1. 0 \in S
    BY <1>0
  <1>2. ASSUME NEW m \in S PROVE m + 1 \in S
    <2>1. CASE i + (m + 1) <= n
      <3>1. PICK p : p = i + (m + 1)
        OBVIOUS
      <3>2. /\ p \in 0..n /\ p # 0 /\ p - 1 = i + m /\ i + m <= n
        BY <1>0, <2>1, <3>1
      <3>3. c[p] = Claim(p, shown, c[p - 1])
        BY <3>2 DEF Claims
      <3>4. c[p - 1] \subseteq c[p]
        BY <3>3 DEF Claim
      <3>5. c[i] \subseteq c[i + m]
        BY <3>2
      <3>6. c[i] \subseteq c[p]
        BY <3>2, <3>4, <3>5
      <3> QED BY <3>1, <3>6
    <2>2. CASE ~(i + (m + 1) <= n)
      BY <2>2
    <2> QED BY <2>1, <2>2
  <1>3. S \in SUBSET Nat
    OBVIOUS
  <1>4. S = Nat
    <2> HIDE DEF S
    <2> QED BY <1>1, <1>2, <1>3, Induction
  <1>5. k - i \in Nat /\ i + (k - i) = k /\ i + (k - i) <= n
    BY <1>0
  <1>6. k - i \in S
    BY <1>4, <1>5
  <1> QED BY <1>5, <1>6

\* What a tick makes of the jobs: of each that is pending, what Carried says; and no two
\* native jobs share an activity.
LEMMA ResolvingIs ==
    ASSUME OutcomeInv, tick.pc = "reading", NEW shown \in SUBSET ToSet(activities)
    PROVE  \E res : /\ res = Resolved(shown) /\ res \in [Jobs -> ReportType]
                    /\ \A j \in Jobs : IF j \in tick.pending THEN Carried(j, res[j], tick.at, {})
                                       ELSE res[j] = report[j]
                    /\ \A j, k \in InStore :
                         j # k /\ IsNative(report[j].kind) /\ IsNative(report[k].kind) =>
                           res[j].activity = NoActivity \/ res[j].activity # res[k].activity
  <1>t. /\ LastJob \in Nat /\ report \in [Jobs -> ReportType] /\ tick.at \in Nat
        /\ tick.pending \subseteq PendingJobs /\ PendingJobs \subseteq InStore /\ InStore \subseteq Jobs
    BY OutcomesAssumption DEF OutcomeInv, OutcomeTyped, TickType, TickHeld, PendingJobs, InStore
  <1> DEFINE claimed[j \in 0..LastJob] ==
               IF j = 0 THEN tick.claimed
               ELSE IF j \in tick.pending
               THEN claimed[j - 1] \union
                      ({Advanced(report[j], tick.at, shown, claimed[j - 1]).activity} \ {NoActivity})
               ELSE claimed[j - 1]
             res == [j \in Jobs |-> IF j \in tick.pending
                                    THEN Advanced(report[j], tick.at, shown, claimed[j - 1]) ELSE report[j]]
  <1>1. Claims(claimed, shown, LastJob)
    <2>1. \E c : Claims(c, shown, LastJob)
      BY <1>t, ClaimsExist
    <2> QED BY <2>1, Zenon DEF Claims, Claim
  <1>2. res = Resolved(shown)
    BY DEF Resolved
  <1> HIDE DEF claimed
  <1>3. ASSUME NEW j \in tick.pending
        PROVE  /\ Carried(j, res[j], tick.at, claimed[j - 1])
               /\ res[j].activity # NoActivity => res[j].activity \in claimed[j]
    <2>0. j \in PendingJobs /\ j \in Jobs
      BY <1>t, Zenon
    <2>1. j \in PendingJobs /\ j \in Jobs /\ j \in 0..LastJob /\ j # 0
      BY <1>t, <2>0 DEF Jobs
    <2>2. res[j] = Advanced(report[j], tick.at, shown, claimed[j - 1])
      BY <2>1
    <2>3. claimed[j] = Claim(j, shown, claimed[j - 1])
      BY <1>1, <2>1 DEF Claims
    <2> HIDE DEF res
    <2>4. Carried(j, res[j], tick.at, claimed[j - 1])
      BY <1>t, <2>1, <2>2, AdvancingIs
    <2> QED BY <2>2, <2>3, <2>4 DEF Claim
  <1>4. ASSUME NEW j \in Jobs, j \notin tick.pending PROVE res[j] = report[j]
    BY <1>4
  <1>5. res \in [Jobs -> ReportType]
    <2>1. ASSUME NEW j \in Jobs PROVE res[j] \in ReportType
      <3>1. CASE j \in tick.pending
        BY <1>3, <3>1 DEF Carried
      <3>2. CASE j \notin tick.pending
        BY <1>4, <1>t, <3>2
      <3> QED BY <3>1, <3>2
    <2>2. res = [j \in Jobs |-> res[j]]
      OBVIOUS
    <2> HIDE DEF res
    <2> QED BY <2>1, <2>2
  <1> HIDE DEF res
  \* What a native job has, it had, or it is new to what was claimed before.
  <1>6. ASSUME NEW j \in InStore, IsNative(report[j].kind), res[j].activity # report[j].activity
        PROVE  j \in tick.pending /\ res[j].activity \notin claimed[j - 1]
    <2>1. j \in tick.pending
      BY <1>4, <1>6, <1>t
    <2> QED BY <1>3, <1>6, <2>1 DEF Carried
  <1>7. \A j, k \in 0..LastJob : j <= k => claimed[j] \subseteq claimed[k]
    <2> SUFFICES ASSUME NEW j \in 0..LastJob, NEW k \in 0..LastJob, j <= k
                 PROVE  claimed[j] \subseteq claimed[k]
      OBVIOUS
    <2>1. k \in j..LastJob
      BY <1>t
    <2> QED BY <1>t, <1>1, <2>1, ClaimsGrow
  <1>8. claimed[0] = tick.claimed /\ 0 \in 0..LastJob
    BY <1>1, <1>t DEF Claims
  <1>9. ASSUME NEW j \in InStore, NEW k \in InStore, j < k,
               IsNative(report[j].kind), IsNative(report[k].kind), res[j].activity = res[k].activity
        PROVE  res[j].activity = NoActivity
    <2>1. /\ j \in 0..LastJob /\ j - 1 \in 0..LastJob /\ k - 1 \in 0..LastJob /\ j <= k - 1 /\ 0 <= j - 1
          /\ 0 <= k - 1
      BY <1>9, <1>t DEF Jobs
    <2>2. report[j].activity \in tick.claimed \union {NoActivity}
          /\ report[k].activity \in tick.claimed \union {NoActivity}
      BY <1>9 DEF OutcomeInv, TickHeld
    <2>3. tick.claimed \subseteq claimed[j - 1] /\ tick.claimed \subseteq claimed[k - 1]
          /\ claimed[j] \subseteq claimed[k - 1]
      BY <1>7, <1>8, <2>1
    <2>4. CASE res[k].activity # report[k].activity
      <3>1. res[k].activity \notin claimed[k - 1]
        BY <1>6, <1>9, <2>4
      <3>2. CASE j \in tick.pending
        BY <1>3, <1>9, <2>3, <3>1, <3>2
      <3>3. CASE j \notin tick.pending
        BY <1>4, <1>t, <1>9, <2>2, <2>3, <3>1, <3>3
      <3> QED BY <3>2, <3>3
    <2>5. CASE res[k].activity = report[k].activity /\ res[j].activity # report[j].activity
      <3>1. res[j].activity \notin claimed[j - 1]
        BY <1>6, <1>9, <2>5
      <3> QED BY <1>9, <2>2, <2>3, <2>5, <3>1
    <2>6. CASE res[k].activity = report[k].activity /\ res[j].activity = report[j].activity
      <3>1. j # k
        BY <1>9, <1>t DEF Jobs
      <3>2. report[j].activity = NoActivity \/ report[j].activity # report[k].activity
        BY <1>9, <3>1 DEF OutcomeInv, NoneShared
      <3> QED BY <1>9, <2>6, <3>2
    <2> QED BY <2>4, <2>5, <2>6
  <1>10. ASSUME NEW j \in InStore, NEW k \in InStore, j # k,
                IsNative(report[j].kind), IsNative(report[k].kind)
         PROVE  res[j].activity = NoActivity \/ res[j].activity # res[k].activity
    <2>1. j \in Int /\ k \in Int
      BY <1>t DEF Jobs
    <2>2. CASE j < k
      BY <1>9, <1>10, <2>2
    <2>3. CASE k < j
      BY <1>9, <1>10, <2>3
    <2> QED BY <1>10, <2>1, <2>2, <2>3
  <1>11. \A j \in Jobs : IF j \in tick.pending THEN Carried(j, res[j], tick.at, {})
                         ELSE res[j] = report[j]
    BY <1>3, <1>4 DEF Carried
  <1> QED BY <1>2, <1>5, <1>10, <1>11

\* The activities are as they were, and so are their runs.
LEMMA FeedStays ==
    ASSUME OutcomeInv, OutcomeTyped', activities' = activities, clock <= clock',
           Len(efforts) <= Len(efforts'), \A e \in 1..Len(efforts) : efforts'[e] = efforts[e]
    PROVE  FeedHeld' /\ Later
  <1>t. /\ Len(efforts) \in Nat /\ Len(efforts') \in Nat /\ clock \in Nat /\ clock' \in Nat
        /\ Len(activities) \in Nat /\ FeedHeld
        /\ \A i \in 1..Len(activities) : activities[i] \in FeedType
    BY DEF OutcomeInv, OutcomeTyped
  <1>1. ASSUME NEW i \in 1..Len(activities) PROVE TellsOfRun(activities[i])'
    <2>1. TellsOfRun(activities[i]) /\ activities[i].time \in Nat
      BY <1>t DEF FeedHeld, FeedType
    <2>2. /\ activities[i].effort \in 1..Len(efforts) /\ activities[i].effort \in 1..Len(efforts')
          /\ efforts'[activities[i].effort] = efforts[activities[i].effort] /\ activities[i].time <= clock'
      BY <1>t, <2>1 DEF TellsOfRun
    <2> QED BY <2>1, <2>2 DEF TellsOfRun, Terminal, Verdict
  <1>2. FeedHeld'
    BY <1>1, <1>t DEF FeedHeld
  <1>3. Later
    BY <1>t DEF Later
  <1> QED BY <1>2, <1>3

LEMMA ReportsStay ==
    ASSUME OutcomeInv, OutcomeTyped', Later, \A j \in Jobs : report'[j] = report[j]
    PROVE  ReportsHeld'
  <1>1. ASSUME NEW j \in Jobs, report'[j].state # "unborn" PROVE NamesOwn(j, report[j])'
    <2>1. NamesOwn(j, report'[j]) /\ report'[j] = report[j]
      BY <1>1 DEF OutcomeInv, ReportsHeld
    <2> QED BY <2>1, NamesStay DEF OutcomeInv
  <1> QED BY <1>1 DEF ReportsHeld, Jobs

LEMMA TickStays ==
    ASSUME OutcomeInv, OutcomeTyped', clock <= clock', tick' = tick, report' = report
    PROVE  TickHeld' /\ NoneShared'
  <1>t. clock \in Nat /\ clock' \in Nat /\ tick.at \in Nat
    BY DEF OutcomeInv, OutcomeTyped, TickType
  <1>1. InStore' = InStore /\ PendingJobs' = PendingJobs
    BY DEF InStore, PendingJobs, Jobs
  <1>2. NoneShared'
    BY <1>1 DEF OutcomeInv, NoneShared, IsNative
  <1>3. TickHeld'
    BY <1>1, <1>t DEF OutcomeInv, TickHeld, PastTimeout, IsNative
  <1> QED BY <1>2, <1>3

LEMMA ClockStep == OutcomeInv /\ ClockTicks => OutcomeInv'
<1> SUFFICES ASSUME OutcomeInv, ClockTicks PROVE OutcomeInv'
  OBVIOUS
<1>1. /\ report' = report /\ tick' = tick /\ activities' = activities /\ efforts' = efforts
      /\ clock' = clock + 1 /\ clock \in Nat
  BY DEF ClockTicks, OutcomeInv, OutcomeTyped
<1>2. OutcomeTyped'
  BY <1>1 DEF OutcomeInv, OutcomeTyped, TickType, Jobs
<1>3. clock <= clock' /\ Len(efforts) <= Len(efforts')
  BY <1>1 DEF OutcomeInv, OutcomeTyped
<1>4. FeedHeld' /\ Later
  BY <1>1, <1>2, <1>3, FeedStays
<1>5. ReportsHeld'
  BY <1>1, <1>2, <1>4, ReportsStay
<1>6. TickHeld' /\ NoneShared'
  BY <1>1, <1>2, <1>3, TickStays
<1>7. EffortsHeld'
  BY <1>1 DEF OutcomeInv, EffortsHeld
<1> QED BY <1>2, <1>4, <1>5, <1>6, <1>7 DEF OutcomeInv

LEMMA BeginsStep == OutcomeInv /\ TickBegins => OutcomeInv'
<1> SUFFICES ASSUME OutcomeInv, TickBegins PROVE OutcomeInv'
  OBVIOUS
<1>1. /\ report' = report /\ activities' = activities /\ efforts' = efforts /\ clock' = clock
      /\ clock \in Nat /\ Len(efforts) \in Nat
      /\ \A j \in Jobs : report[j] \in ReportType
  BY DEF TickBegins, OutcomeInv, OutcomeTyped
<1> DEFINE named == {report[j].activity : j \in InStore} \ {NoActivity}
<1>2. tick' = [pc |-> "reading", at |-> clock, pending |-> PendingJobs, claimed |-> named]
  BY DEF TickBegins
<1>3. named \subseteq Int /\ PendingJobs \subseteq Jobs
  BY <1>1 DEF InStore, PendingJobs, ReportType
<1>n. \A j \in InStore : report[j].activity \in named \union {NoActivity}
  OBVIOUS
<1> HIDE DEF named
<1>4. OutcomeTyped'
  BY <1>1, <1>2, <1>3 DEF OutcomeInv, OutcomeTyped, TickType, Jobs
<1>5. FeedHeld' /\ Later
  BY <1>1, <1>4, FeedStays
<1>6. ReportsHeld'
  BY <1>1, <1>4, <1>5, ReportsStay
<1>7. EffortsHeld'
  BY <1>1 DEF OutcomeInv, EffortsHeld
<1>8. InStore' = InStore /\ PendingJobs' = PendingJobs
  BY <1>1 DEF InStore, PendingJobs, Jobs
<1>9. NoneShared'
  BY <1>1, <1>8 DEF OutcomeInv, NoneShared, IsNative
<1>10. /\ tick'.at = clock /\ tick'.pc = "reading" /\ tick'.pending = PendingJobs /\ tick'.claimed = named
  BY <1>2
<1>11. TickHeld'
  BY <1>1, <1>8, <1>10, <1>n DEF TickHeld
<1> QED BY <1>4, <1>5, <1>6, <1>7, <1>9, <1>11 DEF OutcomeInv

LEMMA ResolvesStep == OutcomeInv /\ TickResolves => OutcomeInv'
<1> SUFFICES ASSUME OutcomeInv, TickResolves PROVE OutcomeInv'
  OBVIOUS
<1>1. /\ tick.pc = "reading" /\ activities' = activities /\ efforts' = efforts /\ clock' = clock
      /\ clock \in Nat /\ Len(efforts) \in Nat /\ tick.at \in Nat
      /\ tick' = [NoTick EXCEPT !.at = tick.at]
      /\ report \in [Jobs -> ReportType] /\ tick.pending \subseteq PendingJobs
      /\ PendingJobs \subseteq InStore /\ InStore \subseteq Jobs
  BY DEF TickResolves, OutcomeInv, OutcomeTyped, TickType, TickHeld, InStore, PendingJobs
<1>2. /\ report' \in [Jobs -> ReportType]
      /\ \A j \in Jobs : IF j \in tick.pending THEN Carried(j, report'[j], tick.at, {})
                         ELSE report'[j] = report[j]
      /\ \A j, k \in InStore :
           j # k /\ IsNative(report[j].kind) /\ IsNative(report[k].kind) =>
             report'[j].activity = NoActivity \/ report'[j].activity # report'[k].activity
  <2>1. CASE report' = Resolved(Shown)
    <3>1. Shown \in SUBSET ToSet(activities)
      BY DEF Shown
    <3>2. PICK res : /\ res = Resolved(Shown) /\ res \in [Jobs -> ReportType]
                     /\ \A j \in Jobs : IF j \in tick.pending THEN Carried(j, res[j], tick.at, {})
                                        ELSE res[j] = report[j]
                     /\ \A j, k \in InStore :
                          j # k /\ IsNative(report[j].kind) /\ IsNative(report[k].kind) =>
                            res[j].activity = NoActivity \/ res[j].activity # res[k].activity
      BY <1>1, <3>1, ResolvingIs
    <3> QED BY <2>1, <3>2
  <2>2. CASE report' = [j \in Jobs |-> IF j \in tick.pending THEN WaitsOn(report[j], tick.at)
                                       ELSE report[j]]
    <3>1. ASSUME NEW j \in Jobs
          PROVE  /\ IF j \in tick.pending THEN Carried(j, report'[j], tick.at, {})
                    ELSE report'[j] = report[j]
                 /\ report'[j] \in ReportType /\ report'[j].activity = report[j].activity
      <4>1. CASE j \in tick.pending
        <5>1. j \in PendingJobs /\ report'[j] = WaitsOn(report[j], tick.at)
          BY <1>1, <2>2, <4>1
        <5>2. Carried(j, report'[j], tick.at, {})
          BY <1>1, <5>1, WaitingIs
        <5>3. WaitsOn(report[j], tick.at).activity = report[j].activity
          BY <1>1 DEF WaitsOn, ReportType
        <5> QED BY <4>1, <5>1, <5>2, <5>3 DEF Carried
      <4>2. CASE j \notin tick.pending
        BY <1>1, <2>2, <4>2
      <4> QED BY <4>1, <4>2
    <3>2. report' = [j \in Jobs |-> report'[j]]
      BY <2>2
    <3>3. report' \in [Jobs -> ReportType]
      BY <3>1, <3>2
    <3>4. \A j, k \in InStore :
            j # k /\ IsNative(report[j].kind) /\ IsNative(report[k].kind) =>
              report'[j].activity = NoActivity \/ report'[j].activity # report'[k].activity
      BY <1>1, <3>1 DEF OutcomeInv, NoneShared
    <3> QED BY <3>1, <3>3, <3>4
  <2> QED BY <2>1, <2>2 DEF TickResolves
<1>3. ASSUME NEW j \in Jobs
      PROVE  /\ report'[j].kind = report[j].kind /\ report'[j].at = report[j].at
             /\ j \in InStore' <=> j \in InStore
             /\ j \in tick.pending => NamesOwn(j, report'[j])
             /\ j \notin tick.pending => report'[j] = report[j]
  <2>1. CASE j \in tick.pending
    <3>1. Carried(j, report'[j], tick.at, {}) /\ j \in InStore
      BY <1>1, <1>2, <2>1
    <3>2. j \in InStore'
      BY <3>1 DEF Carried, InStore, Jobs
    <3> QED BY <2>1, <3>1, <3>2 DEF Carried
  <2>2. CASE j \notin tick.pending
    <3>1. report'[j] = report[j]
      BY <1>2, <2>2
    <3> QED BY <2>2, <3>1 DEF InStore, Jobs
  <2> QED BY <2>1, <2>2
<1>4. tick' \in TickType /\ tick'.at = tick.at /\ tick'.pc = "idle"
  BY <1>1 DEF NoTick, TickType
<1>5. OutcomeTyped'
  BY <1>1, <1>2, <1>4 DEF OutcomeInv, OutcomeTyped, TickType, Jobs
<1>6. FeedHeld' /\ Later
  BY <1>1, <1>5, FeedStays
<1>7. ReportsHeld'
  <2>1. ASSUME NEW j \in Jobs, report'[j].state # "unborn" PROVE NamesOwn(j, report[j])'
    <3>1. NamesOwn(j, report'[j])
      BY <1>3, <2>1 DEF OutcomeInv, ReportsHeld
    <3> QED BY <1>3, <1>5, <1>6, <3>1, NamesStay DEF OutcomeInv
  <2> QED BY <2>1 DEF ReportsHeld, Jobs
<1>8. EffortsHeld'
  BY <1>1 DEF OutcomeInv, EffortsHeld
<1>9. InStore' = InStore
  BY <1>3 DEF InStore, Jobs
<1>10. NoneShared'
  <2>1. \A j \in InStore : report'[j].kind = report[j].kind
    BY <1>1, <1>3
  <2> QED BY <1>2, <1>9, <2>1 DEF NoneShared, IsNative
<1>11. TickHeld'
  <2>1. ASSUME NEW j \in PendingJobs' PROVE ~PastTimeout(report'[j], tick.at)
    <3>1. j \in Jobs /\ report'[j].state \notin Settled /\ j \in InStore
      BY <1>1, <1>9, <2>1 DEF PendingJobs
    <3>2. CASE j \in tick.pending
      <4>1. ~PastTimeout(report[j], tick.at)
        BY <1>2, <3>1, <3>2 DEF Carried
      <4> QED BY <1>3, <3>1, <4>1 DEF PastTimeout
    <3>3. CASE j \notin tick.pending
      <4>1. report'[j] = report[j] /\ j \in PendingJobs
        BY <1>3, <3>1, <3>3 DEF PendingJobs
      <4>2. report[j].at >= tick.at
        BY <1>1, <3>3, <4>1 DEF OutcomeInv, TickHeld
      <4>3. report[j].at \in Nat /\ JobTimeout \in Nat \ {0}
        BY <1>1, <3>1, OutcomesAssumption DEF ReportType
      <4> QED BY <1>1, <4>1, <4>2, <4>3 DEF PastTimeout
    <3> QED BY <3>2, <3>3
  <2>2. \A j \in PendingJobs' : ~PastTimeout(report[j], tick.at)'
    BY <2>1, <1>4 DEF PastTimeout
  <2>3. tick'.at <= clock'
    BY <1>1, <1>4 DEF OutcomeInv, TickHeld
  <2> QED BY <1>4, <2>2, <2>3 DEF TickHeld
<1> QED BY <1>5, <1>6, <1>7, <1>8, <1>10, <1>11 DEF OutcomeInv

LEMMA ClearsStep == OutcomeInv /\ ClearsSettled => OutcomeInv'
<1> SUFFICES ASSUME OutcomeInv, ClearsSettled PROVE OutcomeInv'
  OBVIOUS
<1>1. /\ activities' = activities /\ efforts' = efforts /\ clock' = clock /\ tick' = tick
      /\ clock \in Nat /\ Len(efforts) \in Nat /\ report \in [Jobs -> ReportType]
      /\ report' = [j \in Jobs |-> IF report[j].state \in Settled
                                   THEN [report[j] EXCEPT !.state = "cleared"] ELSE report[j]]
  BY DEF ClearsSettled, OutcomeInv, OutcomeTyped
<1>2. ASSUME NEW j \in Jobs
      PROVE  /\ report'[j] \in ReportType /\ report'[j].kind = report[j].kind /\ report'[j].at = report[j].at
             /\ report'[j].activity = report[j].activity /\ report'[j].series = report[j].series
             /\ report'[j].by = report[j].by
             /\ IF report[j].state \in Settled THEN report'[j].state = "cleared"
                ELSE report'[j] = report[j]
  <2>1. PICK r \in ReportType : r = report[j]
    BY <1>1
  <2>2. CASE r.state \in Settled
    <3>1. report'[j] = [r EXCEPT !.state = "cleared"]
      BY <1>1, <2>1, <2>2
    <3> QED BY <2>1, <2>2, <3>1 DEF ReportType
  <2>3. CASE r.state \notin Settled
    BY <1>1, <2>1, <2>3
  <2> QED BY <2>2, <2>3
<1>3. report' \in [Jobs -> ReportType]
  <2>1. report' = [j \in Jobs |-> report'[j]]
    BY <1>1
  <2> QED BY <1>2, <2>1
<1>4. OutcomeTyped'
  BY <1>1, <1>3 DEF OutcomeInv, OutcomeTyped, TickType, Jobs
<1>5. FeedHeld' /\ Later
  BY <1>1, <1>4, FeedStays
<1>6. ReportsHeld'
  <2>1. ASSUME NEW j \in Jobs, report'[j].state # "unborn" PROVE NamesOwn(j, report[j])'
    <3>1. NamesOwn(j, report[j])
      BY <1>2, <2>1 DEF OutcomeInv, ReportsHeld, Settled
    <3>2. NamesOwn(j, report'[j])
      <4>1. CASE report[j].state \in Settled
        <5>1. report'[j].state = "cleared"
          BY <1>2, <4>1
        <5> QED BY <1>2, <3>1, <5>1 DEF NamesOwn
      <4>2. CASE report[j].state \notin Settled
        <5>1. report'[j] = report[j]
          BY <1>2, <4>2
        <5> QED BY <3>1, <5>1
      <4> QED BY <4>1, <4>2
    <3> QED BY <1>2, <1>4, <1>5, <3>2, NamesStay DEF OutcomeInv
  <2> QED BY <2>1 DEF ReportsHeld, Jobs
<1>7. EffortsHeld'
  BY <1>1 DEF OutcomeInv, EffortsHeld
<1>8. InStore' \subseteq InStore /\ InStore \subseteq Jobs
  BY <1>2 DEF InStore, Jobs, Settled
<1>9. PendingJobs' = PendingJobs /\ \A j \in PendingJobs : report'[j] = report[j]
  <2>1. ASSUME NEW j \in Jobs PROVE j \in PendingJobs' <=> j \in PendingJobs
    BY <1>2 DEF PendingJobs, InStore, Settled
  <2>2. PendingJobs' \subseteq Jobs /\ PendingJobs \subseteq Jobs
    BY DEF PendingJobs, InStore, Jobs
  <2>3. \A j \in PendingJobs : report'[j] = report[j]
    BY <1>2, <2>2 DEF PendingJobs
  <2> QED BY <2>1, <2>2, <2>3
<1>10. \A j \in InStore : report'[j].kind = report[j].kind /\ report'[j].activity = report[j].activity
  BY <1>2, <1>8
<1>11. NoneShared'
  BY <1>8, <1>10 DEF OutcomeInv, NoneShared, IsNative
<1>12. TickHeld'
  BY <1>1, <1>8, <1>9, <1>10 DEF OutcomeInv, TickHeld, IsNative, PastTimeout
<1> QED BY <1>4, <1>5, <1>6, <1>7, <1>11, <1>12 DEF OutcomeInv

LEMMA OthersStep ==
    ASSUME OutcomeInv, NEW kind \in OthersKinds, OthersAct(kind) PROVE OutcomeInv'
<1>1. /\ report' = report /\ tick' = tick /\ activities' = activities /\ clock' = clock
      /\ efforts' = Append(efforts, NewEffort(kind, NoJob, NoSeries)) /\ kind \in OutcomeKinds
      /\ clock \in Nat /\ efforts \in Seq(EffortType) /\ Len(efforts) \in Nat
  BY OutcomesAssumption DEF OthersAct, OutcomeInv, OutcomeTyped, OutcomeKinds
<1>2. PICK eff \in EffortType : /\ eff = NewEffort(kind, NoJob, NoSeries) /\ eff.series = NoSeries
  BY <1>1 DEF NewEffort, EffortType, NoJob, NoSeries
<1>3. /\ efforts' \in Seq(EffortType) /\ Len(efforts') = Len(efforts) + 1
      /\ \A e \in 1..Len(efforts) : efforts'[e] = efforts[e]
      /\ efforts'[Len(efforts) + 1] = eff
  BY <1>1, <1>2
<1>4. OutcomeTyped'
  BY <1>1, <1>3 DEF OutcomeInv, OutcomeTyped, TickType, Jobs
<1>5. clock <= clock' /\ Len(efforts) <= Len(efforts')
  BY <1>1, <1>3
<1>6. FeedHeld' /\ Later
  BY <1>1, <1>3, <1>4, <1>5, FeedStays
<1>7. ReportsHeld'
  BY <1>1, <1>4, <1>6, ReportsStay
<1>8. TickHeld' /\ NoneShared'
  BY <1>1, <1>4, <1>5, TickStays
<1>9. EffortsHeld'
  <2>1. \A e \in 1..(Len(efforts) + 1) : e \in 1..Len(efforts) \/ e = Len(efforts) + 1
    BY <1>1
  <2> QED BY <1>2, <1>3, <2>1 DEF OutcomeInv, EffortsHeld
<1> QED BY <1>4, <1>6, <1>7, <1>8, <1>9 DEF OutcomeInv

LEMMA DispatchStep ==
    ASSUME OutcomeInv, NEW j \in Jobs, NEW kind \in JobKinds, Dispatches(j, kind) PROVE OutcomeInv'
<1>0. PICK e \in Nat \ {0} : e = Len(efforts) + 1
  BY DEF OutcomeInv, OutcomeTyped
<1>1. /\ tick' = tick /\ activities' = activities /\ clock' = clock /\ kind \in OutcomeKinds
      /\ clock \in Nat /\ efforts \in Seq(EffortType) /\ Len(efforts) \in Nat /\ e \in Nat \ {0}
      /\ report \in [Jobs -> ReportType] /\ report[j] = Unborn /\ j \in Nat \ {0} /\ tick.at <= clock
      /\ tick.at \in Nat
  BY OutcomesAssumption DEF Dispatches, OutcomeInv, OutcomeTyped, OutcomeKinds, Jobs, TickHeld, TickType
<1>2. PICK act \in Int, ser \in Int :
        /\ <<act, ser>> \in IF IsNative(kind) THEN {<<NoActivity, NoSeries>>}
                            ELSE {<<StartId(e), NoSeries>>, <<Echoed, NoSeries>>, <<NoActivity, e>>,
                                  <<NoActivity, Echoed>>, <<NoActivity, NoSeries>>}
        /\ report' = [report EXCEPT ![j] = [Unborn EXCEPT !.state = "Queued", !.kind = kind,
                         !.at = clock, !.activity = act, !.series = ser]]
        /\ efforts' = Append(efforts, NewEffort(kind, j, IF ser = e THEN e ELSE NoSeries))
  <2>1. PICK named \in IF IsNative(kind) THEN {<<NoActivity, NoSeries>>}
                       ELSE {<<StartId(e), NoSeries>>, <<Echoed, NoSeries>>, <<NoActivity, e>>,
                             <<NoActivity, Echoed>>, <<NoActivity, NoSeries>>} :
          /\ report' = [report EXCEPT ![j] = [Unborn EXCEPT !.state = "Queued", !.kind = kind,
                           !.at = clock, !.activity = named[1], !.series = named[2]]]
          /\ efforts' = Append(efforts, NewEffort(kind, j, IF named[2] = e THEN e ELSE NoSeries))
    BY <1>0 DEF Dispatches
  <2>2. /\ StartId(e) \in Int /\ Echoed \in Int /\ NoActivity \in Int /\ NoSeries \in Int /\ e \in Int
    BY <1>1 DEF StartId, Echoed, NoActivity, NoSeries
  <2>3. named = <<named[1], named[2]>> /\ named[1] \in Int /\ named[2] \in Int
    BY <2>1, <2>2
  <2> QED BY <2>1, <2>3
<1>n. /\ IsNative(kind) => act = NoActivity /\ ser = NoSeries
      /\ act \in {NoActivity, Echoed, StartId(e)} /\ ser \in {NoSeries, Echoed, e}
  BY <1>2
<1>3. PICK rec \in ReportType :
        /\ rec = [Unborn EXCEPT !.state = "Queued", !.kind = kind, !.at = clock, !.activity = act, !.series = ser]
        /\ rec.state = "Queued" /\ rec.kind = kind /\ rec.at = clock /\ rec.activity = act
        /\ rec.series = ser /\ rec.by = 0
  <2>1. PICK rec : rec = [Unborn EXCEPT !.state = "Queued", !.kind = kind, !.at = clock,
                                        !.activity = act, !.series = ser]
    OBVIOUS
  <2>2. rec = [state |-> "Queued", kind |-> kind, at |-> clock, activity |-> act, series |-> ser,
               by |-> 0]
    BY <2>1 DEF Unborn, NoActivity
  <2>3. rec \in ReportType
    BY <1>1, <2>2 DEF ReportType
  <2>4. /\ rec.state = "Queued" /\ rec.kind = kind /\ rec.at = clock /\ rec.activity = act
        /\ rec.series = ser /\ rec.by = 0
    BY <2>2
  <2> QED BY <2>1, <2>3, <2>4, Zenon
<1>4. PICK eff \in EffortType :
        /\ eff = NewEffort(kind, j, IF ser = e THEN e ELSE NoSeries)
        /\ eff.kind = kind /\ eff.job = j /\ eff.series \in {NoSeries, e}
        /\ eff.series # NoSeries => ser = e
  <2>1. PICK went : went = IF ser = e THEN e ELSE NoSeries
    OBVIOUS
  <2>2. PICK eff : eff = NewEffort(kind, j, went)
    OBVIOUS
  <2>3. eff \in EffortType /\ eff.kind = kind /\ eff.job = j /\ eff.series = went
    BY <1>0, <1>1, <2>1, <2>2 DEF NewEffort, EffortType, NoSeries
  <2> QED BY <2>1, <2>2, <2>3
<1>5. /\ report' \in [Jobs -> ReportType] /\ report'[j] = rec
      /\ \A k \in Jobs : k # j => report'[k] = report[k]
  BY <1>1, <1>2, <1>3
<1>6. /\ efforts' \in Seq(EffortType) /\ Len(efforts') = e
      /\ \A f \in 1..Len(efforts) : efforts'[f] = efforts[f]
      /\ efforts'[e] = eff
  BY <1>1, <1>2, <1>4, <1>0
<1>7. OutcomeTyped'
  BY <1>1, <1>5, <1>6 DEF OutcomeInv, OutcomeTyped, TickType, Jobs
<1>8. clock <= clock' /\ Len(efforts) <= Len(efforts') /\ e \in 1..Len(efforts')
  BY <1>1, <1>6, <1>0
<1>9. FeedHeld' /\ Later
  BY <1>1, <1>6, <1>7, <1>8, FeedStays
<1>10. EffortsHeld'
  <2>1. \A f \in 1..e : f \in 1..Len(efforts) \/ f = e
    BY <1>1, <1>0
  <2>2. eff.series # NoSeries => eff.kind = "Script"
    BY <1>n, <1>4, <1>1 DEF IsNative, NoSeries
  <2> QED BY <1>4, <1>6, <2>1, <2>2 DEF OutcomeInv, EffortsHeld
<1>11. IsOwn(j, e)'
  BY <1>4, <1>6 DEF IsOwn
<1>12. NamesOwn(j, report[j])'
  <2>1. StartId(e) \in RunIds(e)
    BY DEF RunIds
  <2>2. efforts'[e].kind = kind
    BY <1>4, <1>6
  <2>3. ASSUME NEW i \in 1..Len(activities) PROVE activities[i].id # NoActivity
    <3>1. TellsOfRun(activities[i])
      BY DEF OutcomeInv, FeedHeld
    <3>2. activities[i].id \in RunIds(activities[i].effort) /\ activities[i].effort \in Nat \ {0}
      BY <1>1, <3>1 DEF TellsOfRun
    <3> QED BY <3>2, RunIdsDiffer DEF NoActivity
  <2>4. IsNative(kind) => act # Echoed
    BY <1>n DEF NoActivity, Echoed
  <2>5. ser = e => e \in 1..Len(efforts') /\ IsOwn(j, ser)'
    BY <1>8, <1>11 DEF IsOwn
  <2>6. ser \in {NoSeries, Echoed} \/ (ser \in 1..Len(efforts') /\ IsOwn(j, ser)')
    BY <1>n, <2>5
  <2>7. IsOwn(j, report[j].series)' <=> IsOwn(j, ser)'
    BY <1>3, <1>5 DEF IsOwn
  <2>8. \/ act \in {NoActivity, Echoed}
        \/ \E f \in 1..Len(efforts') : /\ act \in RunIds(f) /\ IsOwn(j, f)'
                                       /\ IsNative(kind) => efforts'[f].kind # "Script"
    <3>1. IsNative(kind) => kind # "Script"
      BY DEF IsNative
    <3> QED BY <1>n, <1>8, <1>11, <2>1, <2>2, <3>1
  <2>9. IsNative(kind) =>
         /\ ser = NoSeries /\ act # Echoed
         /\ \A i \in 1..Len(activities') :
              activities'[i].id = act => activities'[i].time >= rec.at - Slack
    BY <1>n, <1>1, <2>3, <2>4
  <2>10. rec.at <= clock'
    BY <1>1, <1>3
  <2> QED BY <1>3, <1>5, <2>6, <2>7, <2>8, <2>9, <2>10 DEF NamesOwn
<1>13. ReportsHeld'
  <2>1. ASSUME NEW k \in Jobs, report'[k].state # "unborn", k # j PROVE NamesOwn(k, report[k])'
    <3>1. report'[k] = report[k]
      BY <1>5, <2>1
    <3>2. NamesOwn(k, report'[k])
      BY <2>1, <3>1 DEF OutcomeInv, ReportsHeld
    <3> QED BY <1>7, <1>9, <3>1, <3>2, NamesStay DEF OutcomeInv
  <2> QED BY <1>12, <2>1 DEF ReportsHeld, Jobs
<1>14. /\ j \notin InStore /\ InStore' = InStore \union {j} /\ PendingJobs' = PendingJobs \union {j}
       /\ InStore \subseteq Jobs /\ PendingJobs \subseteq InStore
  <2>1. j \notin InStore /\ InStore \subseteq Jobs /\ PendingJobs \subseteq InStore
    BY <1>1 DEF InStore, Unborn, PendingJobs
  <2>2. ASSUME NEW k \in Jobs
        PROVE  /\ k \in InStore' <=> k \in InStore \/ k = j
               /\ k \in PendingJobs' <=> k \in PendingJobs \/ k = j
    <3>1. CASE k = j
      BY <1>3, <1>5, <3>1 DEF InStore, PendingJobs, Settled, Jobs
    <3>2. CASE k # j
      <4>1. report'[k] = report[k]
        BY <1>5, <3>2
      <4> QED BY <3>2, <4>1 DEF InStore, PendingJobs, Jobs
    <3> QED BY <3>1, <3>2
  <2>3. InStore' \subseteq Jobs /\ PendingJobs' \subseteq Jobs
    BY DEF InStore, PendingJobs, Jobs
  <2> QED BY <2>1, <2>2, <2>3
<1>15. \A k \in InStore : report'[k] = report[k]
  BY <1>5, <1>14
<1>16. NoneShared'
  <2>1. ASSUME NEW k \in InStore', NEW m \in InStore', k # m,
               IsNative(report'[k].kind), IsNative(report'[m].kind),
               report'[k].activity = report'[m].activity
        PROVE  report'[k].activity = NoActivity
    <3>1. CASE k = j
      BY <1>n, <1>3, <1>5, <2>1, <3>1
    <3>2. CASE m = j
      BY <1>n, <1>3, <1>5, <2>1, <3>2
    <3>3. CASE k # j /\ m # j
      <4>1. k \in InStore /\ m \in InStore /\ report'[k] = report[k] /\ report'[m] = report[m]
        BY <1>14, <1>15, <2>1, <3>3
      <4> QED BY <2>1, <4>1 DEF OutcomeInv, NoneShared
    <3> QED BY <3>1, <3>2, <3>3
  <2> QED BY <2>1, Zenon DEF NoneShared, IsNative
<1>17. TickHeld'
  <2>1. tick'.at <= clock'
    BY <1>1
  <2>2. ASSUME tick.pc = "reading"
        PROVE  /\ tick.pending \subseteq PendingJobs'
               /\ \A k \in PendingJobs' : k \in tick.pending \/ report'[k].at >= tick.at
               /\ \A k \in InStore' : IsNative(report'[k].kind) =>
                     report'[k].activity \in tick.claimed \union {NoActivity}
    <3>1. /\ tick.pending \subseteq PendingJobs
          /\ \A k \in PendingJobs : k \in tick.pending \/ report[k].at >= tick.at
          /\ \A k \in InStore : IsNative(report[k].kind) =>
                report[k].activity \in tick.claimed \union {NoActivity}
      BY <2>2 DEF OutcomeInv, TickHeld
    <3>2. report'[j].at >= tick.at /\ (IsNative(report'[j].kind) => report'[j].activity = NoActivity)
      BY <1>1, <1>n, <1>3, <1>5
    <3>3. \A k \in PendingJobs : report'[k] = report[k]
      BY <1>14, <1>15
    <3> QED BY <1>14, <1>15, <3>1, <3>2, <3>3
  <2>3. ASSUME tick.pc = "idle", NEW k \in PendingJobs' PROVE ~PastTimeout(report'[k], tick.at)
    <3>1. CASE k = j
      <4>1. report'[j].at = clock /\ JobTimeout \in Nat \ {0}
        BY <1>3, <1>5, OutcomesAssumption
      <4> QED BY <1>1, <3>1, <4>1 DEF PastTimeout
    <3>2. CASE k # j
      <4>1. k \in PendingJobs /\ report'[k] = report[k]
        BY <1>14, <1>15, <2>3, <3>2
      <4> QED BY <2>3, <4>1 DEF OutcomeInv, TickHeld
    <3> QED BY <3>1, <3>2
  <2>4. tick.pc = "idle" => \A k \in PendingJobs' : ~PastTimeout(report[k], tick.at)'
    BY <2>3, <1>1 DEF PastTimeout
  <2>5. tick' = tick
    BY <1>1
  <2> QED BY <2>1, <2>2, <2>4, <2>5 DEF TickHeld, IsNative
<1> QED BY <1>7, <1>9, <1>10, <1>13, <1>16, <1>17 DEF OutcomeInv

\* Run e goes on, and writes what is new in the feed.
LEMMA FeedGrows ==
    ASSUME OutcomeInv, OutcomeTyped', NEW e \in 1..Len(efforts),
           report' = report, tick' = tick, clock' = clock, Len(efforts') = Len(efforts),
           \A f \in 1..Len(efforts) : f # e => efforts'[f] = efforts[f],
           /\ efforts'[e].kind = efforts[e].kind /\ efforts'[e].job = efforts[e].job
           /\ efforts'[e].series = efforts[e].series
           /\ efforts[e].state \in {"queued", "running"} /\ efforts'[e].state # "queued",
           Len(activities) <= Len(activities'),
           \A i \in 1..Len(activities) : activities'[i] = activities[i],
           \A i \in 1..Len(activities') : i > Len(activities) =>
              /\ activities'[i].effort = e /\ activities'[i].time = clock
              /\ activities'[i].type = TypeOfKind(efforts[e].kind)
              /\ activities'[i].series = efforts[e].series
              /\ activities'[i].id \in RunIds(e)
              /\ activities'[i].id = EndId(e) => Terminal(activities'[i])
              /\ Terminal(activities'[i]) => efforts'[e].state = Verdict(activities'[i])
              /\ efforts[e].state = "queued" \/ activities'[i].id = EndId(e),
           \A i, k \in 1..Len(activities') :
              i > Len(activities) /\ k > Len(activities) /\ activities'[i].id = activities'[k].id => i = k
    PROVE  OutcomeInv'
  <1>t. /\ Len(efforts) \in Nat /\ Len(activities) \in Nat /\ Len(activities') \in Nat /\ clock \in Nat
        /\ FeedHeld /\ EffortsHeld
        /\ \A i \in 1..Len(activities) : activities[i] \in FeedType
        /\ e \in Nat \ {0}
    BY DEF OutcomeInv, OutcomeTyped
  <1>1. Later
    <2>1. ASSUME NEW f \in 1..Len(efforts)
          PROVE  /\ efforts'[f].kind = efforts[f].kind /\ efforts'[f].job = efforts[f].job
                 /\ efforts[f].state \in {"Completed", "Failed"} => efforts'[f].state = efforts[f].state
      BY <2>1
    <2> QED BY <1>t, <2>1 DEF Later
  <1>2. \A i \in 1..Len(activities') : i \in 1..Len(activities) \/ i > Len(activities)
    BY <1>t
  <1>3. ASSUME NEW i \in 1..Len(activities)
        PROVE  /\ activities[i].effort \in 1..Len(efforts) /\ activities[i].effort \in Nat \ {0}
               /\ activities[i].id \in RunIds(activities[i].effort) /\ TellsOfRun(activities[i])
               /\ activities[i].effort = e => efforts[e].state = "running" /\ ~Terminal(activities[i])
    <2>1. TellsOfRun(activities[i])
      BY <1>t DEF FeedHeld
    <2>2. /\ activities[i].effort \in 1..Len(efforts) /\ activities[i].effort \in Nat \ {0}
          /\ activities[i].id \in RunIds(activities[i].effort)
      BY <1>t, <2>1 DEF TellsOfRun
    <2>3. activities[i].effort = e => efforts[e].state = "running" /\ ~Terminal(activities[i])
      BY <2>1 DEF TellsOfRun, Verdict
    <2> QED BY <2>1, <2>2, <2>3
  <1>4. ASSUME NEW i \in 1..Len(activities') PROVE TellsOfRun(activities[i])'
    <2>1. CASE i \in 1..Len(activities)
      <3>1. PICK a \in FeedType : a = activities[i]
        BY <1>t, <2>1
      <3>2. activities'[i] = a
        BY <2>1, <3>1
      <3>3. TellsOfRun(a) /\ (a.effort = e => ~Terminal(a)) /\ a.effort \in 1..Len(efforts)
        BY <1>3, <2>1, <3>1
      <3>4. CASE a.effort = e
        BY <3>2, <3>3, <3>4 DEF TellsOfRun, Terminal, Verdict
      <3>5. CASE a.effort # e
        <4>1. efforts'[a.effort] = efforts[a.effort]
          BY <3>3, <3>5
        <4> QED BY <3>2, <3>3, <4>1 DEF TellsOfRun, Terminal, Verdict
      <3> QED BY <3>4, <3>5
    <2>2. CASE i > Len(activities)
      <3>1. PICK a : a = activities'[i]
        OBVIOUS
      <3>2. /\ a.effort = e /\ a.time = clock /\ a.type = TypeOfKind(efforts[e].kind)
            /\ a.series = efforts[e].series /\ a.id \in RunIds(e)
            /\ a.id = EndId(e) => Terminal(a)
            /\ Terminal(a) => efforts'[e].state = Verdict(a)
        BY <2>2, <3>1
      <3> QED BY <1>t, <3>1, <3>2 DEF TellsOfRun, Terminal, Verdict
    <2> QED BY <1>2, <2>1, <2>2
  <1>5. ASSUME NEW i \in 1..Len(activities), NEW k \in 1..Len(activities'), k > Len(activities),
               activities'[i].id = activities'[k].id
        PROVE  FALSE
    <2>1. PICK id : id = activities'[k].id
      OBVIOUS
    <2>2. /\ activities[i].id = id /\ id \in RunIds(e)
          /\ efforts[e].state = "queued" \/ id = EndId(e)
      BY <1>5, <2>1
    <2>3. id \in RunIds(activities[i].effort) /\ activities[i].effort \in Nat \ {0}
      BY <1>3, <2>2
    <2>4. activities[i].effort = e
      BY <1>t, <2>2, <2>3, RunIdsDiffer
    <2>5. id = EndId(e) /\ ~Terminal(activities[i]) /\ TellsOfRun(activities[i])
      BY <1>3, <2>2, <2>4
    <2> QED BY <2>2, <2>4, <2>5 DEF TellsOfRun
  <1>6. \A i, k \in 1..Len(activities') : activities'[i].id = activities'[k].id => i = k
    <2> SUFFICES ASSUME NEW i \in 1..Len(activities'), NEW k \in 1..Len(activities'),
                        activities'[i].id = activities'[k].id
                 PROVE  i = k
      OBVIOUS
    <2>1. CASE i \in 1..Len(activities) /\ k \in 1..Len(activities)
      <3>1. activities[i].id = activities[k].id
        BY <2>1
      <3> QED BY <1>t, <2>1, <3>1 DEF FeedHeld
    <2>2. CASE i > Len(activities) /\ k > Len(activities)
      BY <2>2
    <2>3. CASE i \in 1..Len(activities) /\ k > Len(activities)
      BY <1>5, <2>3
    <2>4. CASE i > Len(activities) /\ k \in 1..Len(activities)
      BY <1>5, <2>4
    <2> QED BY <1>2, <2>1, <2>2, <2>3, <2>4
  <1>7. FeedHeld'
    BY <1>4, <1>6 DEF FeedHeld
  <1>8. ReportsHeld'
    BY <1>1, ReportsStay
  <1>9. TickHeld' /\ NoneShared'
    BY <1>t, TickStays
  <1>10. EffortsHeld'
    BY <1>t DEF EffortsHeld
  <1> QED BY <1>7, <1>8, <1>9, <1>10 DEF OutcomeInv

LEMMA StartsStep ==
    ASSUME OutcomeInv, NEW e \in 1..Len(efforts), EffortStarts(e) PROVE OutcomeInv'
<1>1. PICK eff \in EffortType : eff = efforts[e] /\ eff.state = "queued"
  BY DEF EffortStarts, OutcomeInv, OutcomeTyped
<1>2. /\ report' = report /\ tick' = tick /\ clock' = clock /\ clock \in Nat
      /\ efforts \in Seq(EffortType) /\ activities \in Seq(FeedType)
      /\ Len(efforts) \in Nat /\ Len(activities) \in Nat /\ e \in Nat \ {0}
      /\ eff.kind \in OutcomeKinds /\ eff.series \in Nat
  BY <1>1, SMTT(30) DEF EffortStarts, OutcomeInv, OutcomeTyped, EffortType
<1> DEFINE Told(id, code) == [id |-> id, type |-> TypeOfKind(eff.kind), code |-> code, time |-> clock,
                              series |-> eff.series, effort |-> e]
<1>3. ASSUME NEW id \in RunIds(e), NEW code \in FeedCodes
      PROVE  /\ Activity(e, id, code) = Told(id, code) /\ Told(id, code) \in FeedType
             /\ Told(id, code).effort = e /\ Told(id, code).time = clock
             /\ Told(id, code).type = TypeOfKind(eff.kind) /\ Told(id, code).series = eff.series
             /\ Told(id, code).id = id /\ Told(id, code).code = code
  <2>1. id \in Nat
    BY <1>2, RunIdsDiffer
  <2>2. TypeOfKind(eff.kind) \in {"PATCH_MANAGEMENT", "SYSTEM", "SCRIPTING"}
    BY <1>2, KindsAreTold
  <2> QED BY <1>1, <1>2, <2>1, <2>2 DEF Activity, FeedType
<1> HIDE DEF Told
<1>4. /\ StartId(e) \in RunIds(e) /\ PatchId(e) \in RunIds(e) /\ EndId(e) \in RunIds(e)
      /\ StartId(e) # EndId(e) /\ PatchId(e) # EndId(e) /\ StartId(e) # PatchId(e)
  BY <1>2 DEF RunIds, StartId, PatchId, EndId
<1>5. "INSTALL_FAILED" \in FeedCodes /\ "REBOOTED" \in FeedCodes /\ StartCode(eff.kind) \in FeedCodes
  BY <1>2, KindsAreTold DEF FeedCodes
<1>6. PICK start \in FeedType : start = Activity(e, StartId(e), StartCode(eff.kind)) /\
                                start = Told(StartId(e), StartCode(eff.kind))
  BY <1>3, <1>4, <1>5
<1>7. PICK patch \in FeedType : patch = Activity(e, PatchId(e), "INSTALL_FAILED") /\
                                patch = Told(PatchId(e), "INSTALL_FAILED")
  BY <1>3, <1>4, <1>5
<1>8. PICK over \in FeedType : over = Activity(e, EndId(e), "REBOOTED") /\
                               over = Told(EndId(e), "REBOOTED")
  BY <1>3, <1>4, <1>5
<1>9. /\ \A a \in {start, patch, over} : /\ a.effort = e /\ a.time = clock
                                         /\ a.type = TypeOfKind(eff.kind) /\ a.series = eff.series
                                         /\ a.id \in RunIds(e)
      /\ start.id = StartId(e) /\ patch.id = PatchId(e) /\ over.id = EndId(e)
      /\ start.code = StartCode(eff.kind) /\ patch.code = "INSTALL_FAILED" /\ over.code = "REBOOTED"
  BY <1>3, <1>4, <1>5, <1>6, <1>7, <1>8
<1>10. ~Terminal(start) /\ ~Terminal(patch) /\ Terminal(over) /\ Verdict(over) = "Completed"
  BY <1>9, <1>2 DEF Terminal, Verdict, StartCode, OutcomeKinds
<1>11. PICK to \in {"Completed", "running"}, new \in Seq(FeedType) :
         /\ efforts' = [efforts EXCEPT ![e].state = to]
         /\ activities' = activities \o new
         /\ new \in {<<over>>, <<start>>, <<start, patch>>}
         /\ new = <<over>> => to = "Completed"
  <2>1. CASE eff.kind = "Reboot"
    <3>1. efforts' = [efforts EXCEPT ![e].state = "Completed"] /\ activities' = Append(activities, over)
      BY <1>1, <1>8, <2>1 DEF EffortStarts
    <3>2. Append(activities, over) = activities \o <<over>> /\ <<over>> \in Seq(FeedType)
      BY <1>2
    <3> QED BY <3>1, <3>2
  <2>2. CASE eff.kind # "Reboot"
    <3>1. /\ efforts' = [efforts EXCEPT ![e].state = "running"]
          /\ activities' = activities \o (IF eff.kind = "OsPatchApply" THEN <<start, patch>> ELSE <<start>>)
      BY <1>1, <1>6, <1>7, <2>2 DEF EffortStarts
    <3>2. <<start, patch>> \in Seq(FeedType) /\ <<start>> \in Seq(FeedType)
      OBVIOUS
    <3>3. <<start, patch>> # <<over>> /\ <<start>> # <<over>>
      BY <1>10
    <3> QED BY <3>1, <3>2, <3>3
  <2> QED BY <2>1, <2>2
<1>12. /\ Len(new) \in {1, 2}
       /\ \A i \in 1..Len(new) : new[i] \in {start, patch, over} /\ (new[i] = over => to = "Completed")
       /\ \A i, k \in 1..Len(new) : new[i].id = new[k].id => i = k
  <2>1. CASE new = <<over>>
    BY <1>11, <2>1
  <2>2. CASE new = <<start>>
    BY <1>10, <2>2
  <2>3. CASE new = <<start, patch>>
    <3>1. Len(new) = 2 /\ new[1] = start /\ new[2] = patch /\ start # over /\ patch # over
      BY <1>10, <2>3
    <3>2. start.id # patch.id
      BY <1>4, <1>9
    <3> QED BY <3>1, <3>2
  <2> QED BY <1>11, <2>1, <2>2, <2>3
<1>13. /\ activities' \in Seq(FeedType) /\ Len(activities') = Len(activities) + Len(new)
       /\ \A i \in 1..Len(activities) : activities'[i] = activities[i]
       /\ \A i \in 1..Len(activities') : i > Len(activities) =>
            i - Len(activities) \in 1..Len(new) /\ activities'[i] = new[i - Len(activities)]
  BY <1>2, <1>11
<1>14. /\ efforts' \in Seq(EffortType) /\ Len(efforts') = Len(efforts)
       /\ \A f \in 1..Len(efforts) : f # e => efforts'[f] = efforts[f]
       /\ efforts'[e].kind = eff.kind /\ efforts'[e].job = eff.job /\ efforts'[e].series = eff.series
       /\ efforts'[e].state = to
  <2>1. PICK went : went = [eff EXCEPT !.state = to]
    OBVIOUS
  <2>2. /\ went \in EffortType /\ went.kind = eff.kind /\ went.job = eff.job /\ went.series = eff.series
        /\ went.state = to
    BY <1>1, <2>1 DEF EffortType
  <2>3. efforts' = [efforts EXCEPT ![e] = went]
    BY <1>1, <1>11, <2>1
  <2> QED BY <1>2, <2>2, <2>3
<1>15. OutcomeTyped'
  BY <1>2, <1>13, <1>14 DEF OutcomeInv, OutcomeTyped, TickType, Jobs, ReportType
<1>16. ASSUME NEW i \in 1..Len(activities'), i > Len(activities)
       PROVE  /\ activities'[i].effort = e /\ activities'[i].time = clock
              /\ activities'[i].type = TypeOfKind(efforts[e].kind)
              /\ activities'[i].series = efforts[e].series
              /\ activities'[i].id \in RunIds(e)
              /\ activities'[i].id = EndId(e) => Terminal(activities'[i])
              /\ Terminal(activities'[i]) => efforts'[e].state = Verdict(activities'[i])
  <2>1. PICK a \in {start, patch, over} : a = activities'[i] /\ (a = over => to = "Completed")
    BY <1>12, <1>13, <1>16
  <2>2. /\ a.effort = e /\ a.time = clock /\ a.type = TypeOfKind(eff.kind) /\ a.series = eff.series
        /\ a.id \in RunIds(e)
    BY <1>9
  <2>3. (a.id = EndId(e) => a = over) /\ (Terminal(a) => a = over)
    BY <1>4, <1>9, <1>10
  <2>4. (a.id = EndId(e) => Terminal(a)) /\ (Terminal(a) => efforts'[e].state = Verdict(a))
    BY <1>10, <1>14, <2>1, <2>3
  <2> QED BY <1>1, <2>1, <2>2, <2>4
<1>17. ASSUME NEW i \in 1..Len(activities'), NEW k \in 1..Len(activities'),
              i > Len(activities), k > Len(activities), activities'[i].id = activities'[k].id
       PROVE  i = k
  <2>1. i - Len(activities) = k - Len(activities)
    <3>1. PICK p, q \in 1..Len(new) : p = i - Len(activities) /\ q = k - Len(activities)
      BY <1>13, <1>17
    <3>2. activities'[i] = new[p] /\ activities'[k] = new[q]
      BY <1>13, <1>17, <3>1
    <3> QED BY <1>12, <1>17, <3>1, <3>2
  <2> QED BY <1>2, <1>17, <2>1
<1>18. Len(activities) <= Len(activities')
  BY <1>2, <1>12, <1>13
<1> QED BY <1>1, <1>2, <1>13, <1>14, <1>15, <1>16, <1>17, <1>18, FeedGrows

LEMMA EndsStep ==
    ASSUME OutcomeInv, NEW e \in 1..Len(efforts), EffortEnds(e) PROVE OutcomeInv'
<1>1. PICK eff \in EffortType : eff = efforts[e] /\ eff.state = "running"
  BY DEF EffortEnds, OutcomeInv, OutcomeTyped
<1>2. /\ report' = report /\ tick' = tick /\ clock' = clock /\ clock \in Nat
      /\ efforts \in Seq(EffortType) /\ activities \in Seq(FeedType)
      /\ Len(efforts) \in Nat /\ Len(activities) \in Nat /\ e \in Nat \ {0}
      /\ eff.kind \in OutcomeKinds /\ eff.series \in Nat /\ FeedHeld /\ EffortsHeld
  BY <1>1 DEF EffortEnds, OutcomeInv, OutcomeTyped, EffortType
<1>3. PICK code \in EndCodes(eff.kind) :
        /\ activities' = IF IsNative(eff.kind)
                         THEN Append(activities, Activity(e, EndId(e), code))
                         ELSE [i \in DOMAIN activities |->
                                 IF activities[i].effort = e THEN [activities[i] EXCEPT !.code = code]
                                 ELSE activities[i]]
        /\ efforts' = [efforts EXCEPT ![e].state = IF code \in {"FAILED", "FAILURE"}
                                                   THEN "Failed" ELSE "Completed"]
  BY <1>1 DEF EffortEnds
<1>4. /\ code \in {"COMPLETED", "FAILED", "SCAN_COMPLETED", "APPLY_COMPLETED", "REBOOTED", "FAILURE"}
      /\ code \in FeedCodes
      /\ ~IsNative(eff.kind) => code \in {"COMPLETED", "FAILED"}
  BY <1>2, <1>3 DEF EndCodes, OutcomeKinds, FeedCodes, IsNative
<1>5. PICK to \in {"Completed", "Failed"} :
        to = IF code \in {"FAILED", "FAILURE"} THEN "Failed" ELSE "Completed"
  OBVIOUS
<1>6. /\ efforts' \in Seq(EffortType) /\ Len(efforts') = Len(efforts)
      /\ \A f \in 1..Len(efforts) : f # e => efforts'[f] = efforts[f]
      /\ efforts'[e].kind = eff.kind /\ efforts'[e].job = eff.job /\ efforts'[e].series = eff.series
      /\ efforts'[e].state = to
  <2>1. PICK went : went = [eff EXCEPT !.state = to]
    OBVIOUS
  <2>2. /\ went \in EffortType /\ went.kind = eff.kind /\ went.job = eff.job /\ went.series = eff.series
        /\ went.state = to
    BY <1>1, <2>1 DEF EffortType
  <2>3. efforts' = [efforts EXCEPT ![e] = went]
    BY <1>1, <1>3, <1>5, <2>1
  <2> QED BY <1>2, <2>2, <2>3
<1>7. CASE IsNative(eff.kind)
  <2>1. PICK over : over = [id |-> EndId(e), type |-> TypeOfKind(eff.kind), code |-> code,
                            time |-> clock, series |-> eff.series, effort |-> e]
    OBVIOUS
  <2>2. EndId(e) \in RunIds(e) /\ EndId(e) \in Nat
    BY <1>2 DEF RunIds, EndId
  <2>3. TypeOfKind(eff.kind) \in {"PATCH_MANAGEMENT", "SYSTEM", "SCRIPTING"}
    BY <1>2, KindsAreTold
  <2>4. over \in FeedType /\ activities' = Append(activities, over)
    BY <1>1, <1>2, <1>3, <1>4, <1>7, <2>1, <2>2, <2>3 DEF FeedType, Activity
  <2>5. /\ over.effort = e /\ over.time = clock /\ over.type = TypeOfKind(eff.kind)
        /\ over.series = eff.series /\ over.id = EndId(e) /\ over.code = code
    BY <2>1
  <2>6. Terminal(over) /\ Verdict(over) = to
    BY <1>4, <1>5, <2>5 DEF Terminal, Verdict
  <2>7. /\ activities' \in Seq(FeedType) /\ Len(activities') = Len(activities) + 1
        /\ \A i \in 1..Len(activities) : activities'[i] = activities[i]
        /\ activities'[Len(activities) + 1] = over
    BY <1>2, <2>4
  <2>8. OutcomeTyped'
    BY <1>2, <1>6, <2>7 DEF OutcomeInv, OutcomeTyped, TickType, Jobs, ReportType
  <2>9. \A i \in 1..Len(activities') : i > Len(activities) => i = Len(activities) + 1
    BY <1>2, <2>7
  <2>10. Len(activities) <= Len(activities')
    BY <1>2, <2>7
  <2>11. ASSUME NEW i \in 1..Len(activities'), i > Len(activities)
         PROVE  /\ activities'[i].effort = e /\ activities'[i].time = clock
                /\ activities'[i].type = TypeOfKind(efforts[e].kind)
                /\ activities'[i].series = efforts[e].series
                /\ activities'[i].id \in RunIds(e) /\ activities'[i].id = EndId(e)
                /\ Terminal(activities'[i]) /\ efforts'[e].state = Verdict(activities'[i])
    <3>1. activities'[i] = over
      BY <2>7, <2>9, <2>11
    <3> QED BY <1>1, <1>6, <2>2, <2>5, <2>6, <3>1
  <2> QED BY <1>1, <1>2, <1>6, <2>7, <2>8, <2>9, <2>10, <2>11, FeedGrows
<1>8. CASE ~IsNative(eff.kind)
  <2>1. ASSUME NEW i \in 1..Len(activities)
        PROVE  /\ activities'[i] \in FeedType /\ activities'[i].id = activities[i].id
               /\ activities'[i].type = activities[i].type /\ activities'[i].time = activities[i].time
               /\ activities'[i].effort = activities[i].effort
               /\ activities'[i].series = activities[i].series
               /\ activities'[i].code = IF activities[i].effort = e THEN code ELSE activities[i].code
    <3>1. PICK a \in FeedType : a = activities[i]
      BY <1>2
    <3>2. CASE a.effort = e
      <4>1. i \in DOMAIN activities /\ activities[i].effort = e
        BY <1>2, <3>1, <3>2
      <4>2. activities'[i] = [activities[i] EXCEPT !.code = code]
        BY <1>3, <1>8, <4>1
      <4>3. activities'[i] = [a EXCEPT !.code = code]
        BY <3>1, <4>2
      <4> QED BY <1>4, <3>1, <3>2, <4>3 DEF FeedType
    <3>3. CASE a.effort # e
      <4>1. activities'[i] = a
        BY <1>2, <1>3, <1>8, <3>1, <3>3
      <4> QED BY <3>1, <3>3, <4>1
    <3> QED BY <3>2, <3>3
  <2>2. activities' \in Seq(FeedType) /\ Len(activities') = Len(activities)
    <3>1. activities' = [i \in 1..Len(activities) |-> activities'[i]]
      BY <1>2, <1>3, <1>8
    <3> QED BY <1>2, <2>1, <3>1
  <2>3. OutcomeTyped'
    BY <1>2, <1>6, <2>2 DEF OutcomeInv, OutcomeTyped, TickType, Jobs, ReportType
  <2>4. Later
    <3>1. ASSUME NEW f \in 1..Len(efforts)
          PROVE  /\ efforts'[f].kind = efforts[f].kind /\ efforts'[f].job = efforts[f].job
                 /\ efforts[f].state \in {"Completed", "Failed"} => efforts'[f].state = efforts[f].state
      BY <1>1, <1>6
    <3>2. ASSUME NEW i \in 1..Len(activities)
          PROVE  activities'[i].code = activities[i].code \/ activities'[i].code \in {"COMPLETED", "FAILED"}
      BY <1>4, <1>8, <2>1
    <3>3. clock <= clock' /\ Len(efforts) <= Len(efforts') /\ Len(activities) <= Len(activities')
      BY <1>2, <1>6, <2>2
    <3>4. \A i \in 1..Len(activities') : ~(i > Len(activities))
      BY <1>2, <2>2
    <3> QED BY <2>1, <3>1, <3>2, <3>3, <3>4 DEF Later
  <2>5. ASSUME NEW i \in 1..Len(activities) PROVE TellsOfRun(activities[i])'
    <3>1. PICK b \in FeedType : b = activities'[i]
      BY <2>1
    <3>2. PICK a \in FeedType : a = activities[i]
      BY <1>2
    <3>3. TellsOfRun(a)
      BY <1>2, <3>2 DEF FeedHeld
    <3>4. /\ b.id = a.id /\ b.type = a.type /\ b.time = a.time /\ b.effort = a.effort
          /\ b.series = a.series /\ b.code = IF a.effort = e THEN code ELSE a.code
      BY <2>1, <3>1, <3>2
    <3>5. CASE a.effort = e
      <4>1. Terminal(b) /\ Verdict(b) = to
        BY <1>4, <1>5, <3>4, <3>5 DEF Terminal, Verdict
      <4>2. TellsOfRun(b)'
        BY <1>1, <1>2, <1>6, <3>3, <3>4, <3>5, <4>1 DEF TellsOfRun, Terminal, Verdict
      <4> QED BY <3>1, <4>2 DEF TellsOfRun, Terminal, Verdict
    <3>6. CASE a.effort # e
      <4>1. efforts'[b.effort] = efforts[a.effort]
        BY <1>6, <3>3, <3>4, <3>6 DEF TellsOfRun
      <4>2. Terminal(b) = Terminal(a) /\ Verdict(b) = Verdict(a)
        BY <3>4, <3>6 DEF Terminal, Verdict
      <4> QED BY <1>2, <1>6, <3>1, <3>3, <3>4, <4>1, <4>2 DEF TellsOfRun, Terminal, Verdict
    <3> QED BY <3>5, <3>6
  <2>6. FeedHeld'
    <3>1. \A i, k \in 1..Len(activities') : activities'[i].id = activities'[k].id => i = k
      BY <1>2, <2>1, <2>2 DEF FeedHeld
    <3> QED BY <2>2, <2>5, <3>1 DEF FeedHeld
  <2>7. ReportsHeld'
    BY <1>2, <2>3, <2>4, ReportsStay
  <2>8. TickHeld' /\ NoneShared'
    BY <1>2, <2>3, TickStays
  <2>9. EffortsHeld'
    BY <1>1, <1>2, <1>6 DEF EffortsHeld
  <2> QED BY <2>3, <2>6, <2>7, <2>8, <2>9 DEF OutcomeInv
<1> QED BY <1>7, <1>8

LEMMA OutcomeStarts == OutcomeInit => OutcomeInv
<1> SUFFICES ASSUME OutcomeInit PROVE OutcomeInv
  OBVIOUS
<1>1. Unborn \in ReportType /\ NoTick \in TickType
  <2>1. Unborn \in ReportType
    BY DEF Unborn, ReportType, OutcomeKinds, NoActivity, NoSeries
  <2>2. NoTick \in TickType
    BY DEF NoTick, TickType
  <2> QED BY <2>1, <2>2
<1>2. /\ activities = <<>> /\ efforts = <<>> /\ clock = 0 /\ tick = NoTick
      /\ report = [j \in Jobs |-> Unborn]
  BY DEF OutcomeInit
<1>3. OutcomeTyped
  BY <1>1, <1>2 DEF OutcomeTyped
<1>4. \A j \in Jobs : report[j].state = "unborn"
  BY <1>2 DEF Unborn
<1>5. InStore = {} /\ PendingJobs = {}
  BY <1>4 DEF InStore, PendingJobs
<1>6. tick.pc = "idle" /\ tick.at = 0
  BY <1>2 DEF NoTick
<1>7. EffortsHeld /\ FeedHeld
  BY <1>2 DEF EffortsHeld, FeedHeld
<1>8. TickHeld /\ NoneShared
  BY <1>2, <1>5, <1>6 DEF TickHeld, NoneShared
<1>9. ReportsHeld
  BY <1>4 DEF ReportsHeld
<1> QED BY <1>3, <1>7, <1>8, <1>9 DEF OutcomeInv

LEMMA OutcomeStep == OutcomeInv /\ [OutcomeNext]_outcomeVars => OutcomeInv'
<1> SUFFICES ASSUME OutcomeInv, [OutcomeNext]_outcomeVars PROVE OutcomeInv'
  OBVIOUS
<1>1. CASE TickBegins
  BY <1>1, BeginsStep
<1>2. CASE TickResolves
  BY <1>2, ResolvesStep
<1>3. CASE ClockTicks
  BY <1>3, ClockStep
<1>4. CASE ClearsSettled
  BY <1>4, ClearsStep
<1>5. ASSUME NEW j \in Jobs, NEW kind \in JobKinds, Dispatches(j, kind) PROVE OutcomeInv'
  BY <1>5, DispatchStep
<1>6. ASSUME NEW kind \in OthersKinds, OthersAct(kind) PROVE OutcomeInv'
  BY <1>6, OthersStep
<1>7. ASSUME NEW e \in DOMAIN efforts, EffortStarts(e) \/ EffortEnds(e) PROVE OutcomeInv'
  <2>1. e \in 1..Len(efforts)
    BY DEF OutcomeInv, OutcomeTyped
  <2> QED BY <1>7, <2>1, StartsStep, EndsStep
<1>8. CASE UNCHANGED outcomeVars
  <2>1. /\ report' = report /\ tick' = tick /\ activities' = activities /\ efforts' = efforts
        /\ clock' = clock /\ clock \in Nat /\ Len(efforts) \in Nat
    BY <1>8 DEF outcomeVars, OutcomeInv, OutcomeTyped
  <2>2. OutcomeTyped'
    BY <2>1 DEF OutcomeInv, OutcomeTyped, TickType, Jobs
  <2>3. FeedHeld' /\ Later
    BY <2>1, <2>2, FeedStays
  <2>4. ReportsHeld'
    BY <2>1, <2>2, <2>3, ReportsStay
  <2>5. TickHeld' /\ NoneShared'
    BY <2>1, <2>2, TickStays
  <2>6. EffortsHeld'
    BY <2>1 DEF OutcomeInv, EffortsHeld
  <2> QED BY <2>2, <2>3, <2>4, <2>5, <2>6 DEF OutcomeInv
<1> QED BY <1>1, <1>2, <1>3, <1>4, <1>5, <1>6, <1>7, <1>8 DEF OutcomeNext

LEMMA OutcomesHold == OutcomeInv => JobsEndAsTheirRuns
<1> SUFFICES ASSUME OutcomeInv PROVE JobsEndAsTheirRuns
  OBVIOUS
<1>1. ASSUME NEW j \in InStore, report[j].by # 0, ~HasRival(j)
      PROVE  efforts[report[j].by].job = j /\ efforts[report[j].by].state = report[j].state
  <2>1. j \in Jobs /\ report[j].state \notin {"unborn", "cleared"}
    BY DEF InStore
  <2>2. NamesOwn(j, report[j])
    BY <2>1 DEF OutcomeInv, ReportsHeld
  <2> QED BY <1>1, <2>1, <2>2 DEF NamesOwn, IsOwn
<1>2. tick.pc = "idle" => \A j \in PendingJobs : ~PastTimeout(report[j], tick.at)
  BY DEF OutcomeInv, TickHeld
<1>3. NoneShared
  BY DEF OutcomeInv
<1> QED BY <1>1, <1>2, <1>3, Zenon DEF JobsEndAsTheirRuns, NoneShared

\* A job that no other run can be mistaken for ends as its own run did, two native jobs
\* never share an activity, and a tick leaves no job pending past its timeout
\* (activity.rs:159-173, 219-256).
THEOREM JobsEndRight == OutcomeSpec => []JobsEndAsTheirRuns
<1>1. OutcomeInv => JobsEndAsTheirRuns
  BY OutcomesHold
<1> QED BY <1>1, OutcomeStarts, OutcomeStep, PTL DEF OutcomeSpec
=============================================================================
