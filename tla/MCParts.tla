------------------------------ MODULE MCParts -------------------------------
(***************************************************************************)
(* Small instances of the parts that share no state with each other.  One  *)
(* of them moves in a behaviour and the others stay where they began, so   *)
(* the states are the sum of theirs and not the product.                   *)
(***************************************************************************)
EXTENDS FirstSeen, RunHistory, Exploits, SlicedFeed, Answers, ActionBar, JobOutcomes,
        RunChanges, SavedSettings, QueryForm, ResultView, JobBoard, TLC

VARIABLE part
partsVars == <<part, ledgerVars, historyVars, exploitVars, feedVars, answer, barVars,
               outcomeVars, changeVars, settingsVars, formVars, viewVars, boardVars>>

PartNames == {"ledger", "history", "exploits", "feed", "answers", "bar", "outcomes",
              "changes", "settings", "form", "view", "board"}

-----------------------------------------------------------------------------
(* Answers: a fleet, its feeds and histories, and the queries.             *)

MCFleets ==
    {[d \in 1..3 |-> [org |-> IF d = 3 THEN 2 ELSE 1, os |-> IF d = 1 THEN 1 ELSE 2,
                      online |-> d # 2, patchable |-> d # 3]]}
MCPatch(d, f, t, p, s, st, age, app) ==
    [device |-> d, family |-> f, title |-> t, product |-> p, severity |-> s,
     status |-> st, age |-> age, app |-> app, installed |-> Never]
MCPatches ==
    {MCPatch(d, "OS", 1, 0, 7, st, 2, 5) : d \in {1, 2, 3}, st \in {"none", "FAILED"}}
    \union {MCPatch(d, "SOFTWARE", t, 1, 5, "APPROVED", age, Never) : d \in {1, 2}, t \in {2, 3}, age \in {2, 40}}
    \union {MCPatch(d, "OS", 4, 0, 5, "MANUAL", Never, Never) : d \in {0, 9, 1}}
    \union {MCPatch(3, "SOFTWARE", 3, 0, 5, "APPROVED", 2, Never)}
    \union {MCPatch(1, "OS", 1, 0, 4, st, 2, Never) : st \in {"REJECTED", "NEW"}}
MCFeeds == {<<>>} \union {<<r, q>> : r \in MCPatches, q \in MCPatches}
MCInstall(d, st, age, ins) == [MCPatch(d, "SOFTWARE", 3, 1, 4, st, age, Never) EXCEPT !.installed = ins]
MCHistories == {<<>>, <<MCInstall(1, "none", 2, 1), MCInstall(2, "FAILED", 4, 2)>>,
                <<MCInstall(9, "FAILED", Never, 9), MCInstall(0, "INSTALLED", 5, Never)>>}
MCQuery == [orgs |-> {}, groups |-> {}, os |-> {}, families |-> {"OS", "SOFTWARE"},
            statuses |-> {"MANUAL", "APPROVED", "REJECTED", "INSTALLED", "FAILED"},
            titles |-> {}, severities |-> {}, seenWithin |-> Never, lookback |-> 8, exploitedOnly |-> FALSE]
MCQueries == {MCQuery, [MCQuery EXCEPT !.orgs = {1}, !.statuses = {"FAILED"}],
              [MCQuery EXCEPT !.families = {"OS"}, !.exploitedOnly = TRUE],
              [MCQuery EXCEPT !.groups = {1, 3}, !.titles = {1, 3}],
              [MCQuery EXCEPT !.os = {2}, !.severities = {7, 5}, !.statuses = {"MANUAL"}, !.seenWithin = 4]}

-----------------------------------------------------------------------------
(* ActionBar: the rows shown, the options set and what a plan reads.       *)

MCOs(kb, n) == [os |-> TRUE, kb |-> kb, name |-> n]
MCSoftware(n) == [os |-> FALSE, kb |-> NoKb, name |-> n]
MCBarRows == {<<0, MCOs(1, 1)>>, <<1, MCOs(1, 1)>>, <<1, MCSoftware(3)>>, <<2, MCOs(2, 4)>>, <<2, MCOs(NoKb, 5)>>}
MCPlain == [kbTargeting |-> FALSE, includeOffline |-> FALSE, overrideWindow |-> FALSE, dryRun |-> FALSE,
            reboot |-> FALSE, runAs |-> "", forced |-> FALSE, reason |-> TRUE, script |-> NoScript, typed |-> FALSE]
MCBarOptions ==
    {[MCPlain EXCEPT !.includeOffline = TRUE, !.dryRun = TRUE, !.script = 5, !.kbTargeting = TRUE],
     [MCPlain EXCEPT !.script = 5, !.typed = TRUE, !.dryRun = TRUE],
     [MCPlain EXCEPT !.script = 5, !.typed = TRUE, !.runAs = "admin", !.reboot = TRUE]}
MCGuards == [maxDevices |-> 2, maxOrgs |-> 2, windowRequired |-> FALSE, days |-> {1}, start |-> 3, end |-> 1,
             allowOverride |-> TRUE, allowOffline |-> TRUE, osScript |-> 5, softwareScript |-> 6,
             runAs |-> "system", kbScripts |-> {5}]
MCWorld == [settings |-> MCGuards, day |-> 2, minute |-> 0,
            fleet |-> (1 :> [org |-> 1, online |-> TRUE] @@ 2 :> [org |-> 2, online |-> FALSE]),
            library |-> (5 :> TRUE @@ 6 :> FALSE), isCached |-> FALSE, cached |-> {}]
MCWorlds == {MCWorld, [MCWorld EXCEPT !.settings.windowRequired = TRUE, !.day = 1, !.library = NoLibrary],
             [MCWorld EXCEPT !.settings.windowRequired = TRUE, !.day = 1, !.minute = 3,
                             !.settings.runAs = "other", !.settings.allowOffline = FALSE]}

-----------------------------------------------------------------------------
(* RunChanges: the titles of a fleet, before and after.                    *)

MCTitle(n, os, kb, p, name) == [need |-> n, os |-> os, kb |-> kb, product |-> p, name |-> name]
MCChangeRow(d, t, s) == [device |-> d, title |-> t, status |-> s]
MCScopes == {{"MANUAL", "APPROVED", "DELAYED"}, {"FAILED", "APPROVED", "MANUAL"}, {"INSTALLED", "FAILED"}}
MCChangeFleets ==
    {{MCChangeRow(1, MCTitle(1, FALSE, 0, 7, 41), "MANUAL"), MCChangeRow(1, MCTitle(2, TRUE, 5, 0, 50), "APPROVED")},
     {MCChangeRow(1, MCTitle(1, FALSE, 0, 7, 42), "MANUAL"), MCChangeRow(1, MCTitle(2, TRUE, 5, 0, 50), "FAILED")},
     {MCChangeRow(1, MCTitle(1, FALSE, 0, 7, 42), "FAILED"), MCChangeRow(1, MCTitle(2, TRUE, 5, 0, 51), "MANUAL"),
      MCChangeRow(2, MCTitle(3, TRUE, 0, 0, 52), "INSTALLED")},
     {MCChangeRow(2, MCTitle(3, TRUE, 0, 0, 52), "APPROVED"), MCChangeRow(2, MCTitle(1, FALSE, 0, 7, 42), "REJECTED")}}

-----------------------------------------------------------------------------
(* SavedSettings: what can be typed, and what a hand edit leaves.          *)

MCUrls == {[scheme |-> "http", host |-> "us"], [scheme |-> "https", host |-> "us"]}
MCHandEdits == {[DefaultSettings EXCEPT !.url = [scheme |-> "http", host |-> "eu"], !.sla = 9, !.days = <<1, 0, 1>>,
                    !.band = 0, !.presets = {[name |-> "p", filter |-> 7]}],
                [DefaultSettings EXCEPT !.days = <<>>]}

-----------------------------------------------------------------------------
(* QueryForm: the lookups of two tenants, and the presets and links.       *)

MCOrgsOf == 1 :> {1, 2} @@ 2 :> {3}
MCLocation(i, o) == [id |-> i, org |-> o]
MCLocationsOf == 1 :> {MCLocation(1, 1), MCLocation(2, 2), MCLocation(3, 0)} @@ 2 :> {MCLocation(1, 3)}
MCGroupsOf == 1 :> {1} @@ 2 :> {2}
MCFilter == FilterOf(DefaultForm)
MCView(k, h, f, s, d, m) == [kind |-> k, host |-> h, filter |-> f, statuses |-> s, days |-> d, meant |-> m]
MCOwnView(k, f, s, d) == MCView(k, 1, f, s, d, [filter |-> f, statuses |-> s, days |-> d])
MCOldPresets ==
    {MCView("old", 1, [MCFilter EXCEPT !.orgs = {2}, !.locs = {2}, !.to = 29], {}, 0, NoQuery),
     MCOwnView("preset", [MCFilter EXCEPT !.groups = {1}, !.seenAfter = 10, !.from = 10, !.to = 29], {"FAILED", "PENDING"}, 3)}
MCOldLinks ==
    {MCOwnView("link", [MCFilter EXCEPT !.orgs = {1, 9}, !.locs = {1}], {"FAILED"}, 30),
     MCView("link", 2, [MCFilter EXCEPT !.orgs = {0, 3}, !.locs = {1}, !.within = 5, !.seenAfter = 3, !.from = 13],
            {"FAILED", "NEW"}, 0, NoQuery)}
MCDates == {Unset, 1, 2}

-----------------------------------------------------------------------------
(* ResultView and JobBoard: what queries find, and one dispatch's jobs.    *)

MCRow(d, p) == [device |-> d, patch |-> p]
MCResults == {<<MCRow(1, 2), MCRow(2, 1), MCRow(2, 2)>>, <<MCRow(2, 1)>>}
MCBatchOf == "j1" :> 1 @@ "j2" :> 1

-----------------------------------------------------------------------------
(* The parts together.                                                     *)

\* The fleet begins with one patch pending at one tenant; and when another part moves,
\* with nobody at a location and no preset or link.
OnePatchPending ==
    appeared = [t \in LedgerTenant |-> [f \in Family |-> [p \in Patch |-> IF t = "t1" /\ p = 1 THEN 1 ELSE 0]]]
NobodyPlaced == location = [d \in Device |-> Nowhere]
EveryCopy == copies = OldPresets \union OldLinks

Init ==
    /\ part \in PartNames
    /\ LedgerInit /\ OnePatchPending
    /\ FeedInit /\ (part # "feed" => NobodyPlaced)
    /\ HistoryInit /\ ExploitInit /\ AnswersInit /\ BarInit /\ OutcomeInit /\ ChangesInit
    /\ QueryFormInit /\ (IF part = "form" THEN EveryCopy ELSE copies = {})
    /\ SettingsInit /\ ResultViewInit /\ JobBoardInit

Next ==
    /\ UNCHANGED part
    /\ part # "ledger" => UNCHANGED ledgerVars
    /\ part # "history" => UNCHANGED historyVars
    /\ part # "exploits" => UNCHANGED exploitVars
    /\ part # "feed" => UNCHANGED feedVars
    /\ part # "answers" => UNCHANGED answer
    /\ part # "bar" => UNCHANGED barVars
    /\ part # "outcomes" => UNCHANGED outcomeVars
    /\ part # "changes" => UNCHANGED changeVars
    /\ part # "settings" => UNCHANGED settingsVars
    /\ part # "form" => UNCHANGED formVars
    /\ part # "view" => UNCHANGED viewVars
    /\ part # "board" => UNCHANGED boardVars
    /\ \/ part = "ledger" /\ LedgerNext
       \/ part = "history" /\ HistoryNext
       \/ part = "exploits" /\ ExploitNext
       \/ part = "feed" /\ FeedNext
       \/ part = "answers" /\ AnswersNext
       \/ part = "bar" /\ BarNext
       \/ part = "outcomes" /\ OutcomeNext
       \/ part = "changes" /\ ChangesNext
       \/ part = "settings" /\ SettingsNext
       \/ part = "form" /\ QueryFormNext
       \/ part = "view" /\ ResultViewNext
       \/ part = "board" /\ JobBoardNext

Spec == Init /\ [][Next]_partsVars

\* The view: what the part that moves holds. The others hold what they began with, so two
\* states that agree on it are the same state.
Moving ==
    CASE part = "ledger" -> <<part, ledgerVars>>
      [] part = "history" -> <<part, historyVars>>
      [] part = "exploits" -> <<part, exploitVars>>
      [] part = "feed" -> <<part, feedVars>>
      [] part = "answers" -> <<part, answer>>
      [] part = "bar" -> <<part, barVars>>
      [] part = "outcomes" -> <<part, outcomeVars>>
      [] part = "changes" -> <<part, changeVars>>
      [] part = "settings" -> <<part, settingsVars>>
      [] part = "form" -> <<part, formVars>>
      [] part = "view" -> <<part, viewVars>>
      [] part = "board" -> <<part, boardVars>>

\* Every part keeps its types, and the flags that say what is under way are of it: the
\* exploit data's refresh flag is up while its task runs, and not after.
PartsTypeOK ==
    /\ part = "ledger" => LedgerTypeOK
    /\ part = "history" => HistoryTypeOK
    /\ part = "exploits" => ExploitTypeOK
    /\ part = "feed" => FeedTypeOK
    /\ part = "bar" => BarTypeOK
    /\ part = "outcomes" => OutcomeTypeOK
    /\ part = "changes" => ChangesTypeOK
    /\ part = "settings" => SettingsTypeOK
    /\ part = "form" => QueryFormTypeOK
=============================================================================
