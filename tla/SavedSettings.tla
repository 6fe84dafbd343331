--------------------------- MODULE SavedSettings ----------------------------
(***************************************************************************)
(* The settings: the panel's form (web-rs/src/app/settings.rs, with its    *)
(* parsing in util), the commands that save them and the presets           *)
(* (src-tauri/src/commands/settings.rs, state.rs write_settings) and the   *)
(* file (settings.rs), which a save may fail to write, a crash interrupt,  *)
(* a hand edit or a disk spoil between two launches, and a launch fail to  *)
(* read or to move aside.                                                  *)
(*                                                                         *)
(* A field of each sort stands for those like it: the SLA for the numbers, *)
(* a band for the optional ones.  A URL is a scheme and a host.            *)
(***************************************************************************)
EXTENDS Integers, FiniteSets, Sequences, SequencesExt

CONSTANTS Urls,          \* [scheme, host] that can be typed: "https", "http" or "bad"
          TypedNumbers,  \* what can be typed for a number
          TypedMinutes,  \* and for a time
          PresetNames,
          HandEdits,     \* settings that a hand edit may leave in the file
          MaxWindowDays,
          MaxCalls,      \* bound: saves in one launch
          MaxEdits,      \* bound: controls used in one launch
          MaxLaunches    \* bound

\* What is a URL, and what are settings.
IsUrl(u) == u = [scheme |-> u.scheme, host |-> u.host]
IsSettings(s) ==
    /\ s = [url |-> s.url, sla |-> s.sla, band |-> s.band, days |-> s.days, start |-> s.start,
            end |-> s.end, required |-> s.required, presets |-> s.presets]
    /\ IsUrl(s.url)

ASSUME SettingsAssumption ==
    /\ MaxWindowDays \in Nat \ {0} /\ MaxCalls \in Nat /\ MaxEdits \in Nat
    /\ MaxLaunches \in Nat \ {0}
    /\ \A u \in Urls : IsUrl(u)
    /\ TypedNumbers \subseteq Int
    /\ \A s \in HandEdits : IsSettings(s)

VARIABLES file,      \* settings.json
          aside,     \* the files moved aside
          inUse,     \* the settings in memory, NotRunning when there is no process
          panel,     \* the panel
          calls,     \* the saves of this launch
          edits,     \* the controls used in this launch
          launches,
          spoilt,    \* the files that were spoilt, for the properties
          passedBy,  \* the files that a launch did without and left in place, each with
                     \* its launch
          kept       \* what was loaded, with the saves that were answered since

settingsVars == <<file, aside, inUse, panel, calls, edits, launches, spoilt, passedBy, kept>>

Blank == -1             \* no override for a band
Junk == -2              \* typed, and no number
NotRunning == [running |-> FALSE]
Absent == [is |-> "absent"]

DefaultSettings ==
    [url |-> [scheme |-> "https", host |-> "default"], sla |-> 1, band |-> Blank, days |-> <<1>>,
     start |-> 0, end |-> 1, required |-> FALSE, presets |-> {}]

FormOf(s) == [url |-> s.url, sla |-> s.sla, band |-> s.band, days |-> s.days,
              start |-> s.start, end |-> s.end, required |-> s.required]

SettingsInit ==
    /\ file = Absent
    /\ aside = {}
    /\ inUse = DefaultSettings
    /\ panel = FormOf(DefaultSettings)
    /\ calls = <<>>
    /\ edits = 0
    /\ launches = 1
    /\ spoilt = {}
    /\ passedBy = {}
    /\ kept = DefaultSettings

-----------------------------------------------------------------------------
(* Loading and validation.                                                 *)

IsCleartextRemote(url) == url.scheme = "http" /\ url.host # "localhost"

\* parse: a plaintext remote instance becomes https.
Parsed(s) == IF IsCleartextRemote(s.url) THEN [s EXCEPT !.url.scheme = "https"] ELSE s

\* What a file that could be read gives, if only the defaults (parse, load_or_quarantine).
LoadedFrom(f) == IF f.is = "whole" THEN Parsed(f.value) ELSE DefaultSettings

InRange(days) == days \in 1..MaxWindowDays

\* require_https_instance, validate_settings_input and validate_action_settings.
SaveAccepts(args) ==
    /\ args.url.scheme # "bad" /\ ~IsCleartextRemote(args.url)
    /\ InRange(args.sla) /\ (args.band # Blank => InRange(args.band))
    /\ args.start # args.end
    /\ args.required => args.days # <<>>

SortedDays(days) == SetToSortSeq(days, LAMBDA a, b : a < b)

\* merge_settings with normalize_window_days, save_preset and delete_preset: the edit that
\* a call makes to the settings it finds.
EditBy(call, s) ==
    CASE call.kind = "save"   -> [s EXCEPT !.url = call.args.url, !.sla = call.args.sla,
                                   !.band = call.args.band, !.days = SortedDays(ToSet(call.args.days)),
                                   !.start = call.args.start, !.end = call.args.end,
                                   !.required = call.args.required]
      [] call.kind = "preset" -> [s EXCEPT !.presets = {p \in @ : p.name # call.args.name} \union {call.args}]
      [] call.kind = "delete" -> [s EXCEPT !.presets = {p \in @ : p.name # call.args.name}]

-----------------------------------------------------------------------------
(* The panel.                                                              *)

ClampTo(n, low, high) == IF n < low THEN low ELSE IF n > high THEN high ELSE n

\* parse_clamped and parse_optional_days: what is no number leaves the field.
ParseClamped(raw, current) == IF raw \in {Blank, Junk} THEN current ELSE ClampTo(raw, 1, MaxWindowDays)
ParseOptionalDays(raw, current) ==
    IF raw = Blank THEN Blank ELSE IF raw = Junk THEN current ELSE ClampTo(raw, 1, MaxWindowDays)

\* parse_hhmm: None keeps the time.
ParseMinutes(raw, current) == IF raw \in {Blank, Junk} THEN current ELSE raw

ToggleWindowDay(days, day, on) ==
    SortedDays((ToSet(days) \ {day}) \union (IF on THEN {day} ELSE {}))

\* Mutant of WindowProblem: days are asked for only if the window is enforced on save.
WindowProblemOfTimes(f) == f.start = f.end

\* window_settings_problem
WindowProblem(f) == f.start = f.end \/ (f.required /\ f.days = <<>>)

\* The forms that one control makes of a form.
Edited(f) ==
    {[f EXCEPT !.url = u] : u \in Urls}
    \union {[f EXCEPT !.sla = ParseClamped(n, @)] : n \in TypedNumbers}
    \union {[f EXCEPT !.band = ParseOptionalDays(n, @)] : n \in TypedNumbers}
    \union {[f EXCEPT !.days = ToggleWindowDay(@, d, on)] : d \in {0, 1}, on \in BOOLEAN}
    \union {[f EXCEPT !.start = ParseMinutes(m, @)] : m \in TypedMinutes}
    \union {[f EXCEPT !.end = ParseMinutes(m, @)] : m \in TypedMinutes}
    \union {[f EXCEPT !.required = on] : on \in BOOLEAN}

EditsForm ==
    /\ inUse # NotRunning /\ edits < MaxEdits
    /\ panel' \in Edited(panel) \ {panel}
    /\ edits' = edits + 1
    /\ UNCHANGED <<file, aside, inUse, calls, launches, spoilt, passedBy, kept>>

\* Save and Clear stored secret send the whole form, a preset's buttons the preset. One
\* Save at a time; what is refused changes nothing.
Call(kind, args) == [kind |-> kind, args |-> args, at |-> "waiting"]

Asks ==
    /\ inUse # NotRunning /\ Len(calls) < MaxCalls
    /\ \/ /\ SaveAccepts(panel)
          /\ ~\E i \in DOMAIN calls : calls[i].kind = "save" /\ calls[i].at \in {"waiting", "writing", "written"}
          /\ calls' = Append(calls, Call("save", panel))
       \/ \E n \in PresetNames :
             calls' = Append(calls, Call("preset", [name |-> n, filter |-> 1]))
       \/ \E p \in inUse.presets : calls' = Append(calls, Call("delete", p))
    /\ UNCHANGED <<file, aside, inUse, panel, edits, launches, spoilt, passedBy, kept>>

-----------------------------------------------------------------------------
(* write_settings                                                          *)

Writing == {i \in DOMAIN calls : calls[i].at \in {"writing", "written"}}

\* Mutant of WriteStarts: a writer does not wait for the one before it.
WriteStartsUnlocked(i) ==
    /\ inUse # NotRunning /\ calls[i].at = "waiting"
    /\ calls' = [calls EXCEPT ![i] = [kind |-> @.kind, args |-> @.args, at |-> "writing",
                                      next |-> EditBy(@, inUse)]]
    /\ UNCHANGED <<file, aside, inUse, panel, edits, launches, spoilt, passedBy, kept>>

\* The writer lock is taken, and a copy of the settings edited.
WriteStarts(i) ==
    /\ inUse # NotRunning /\ calls[i].at = "waiting" /\ Writing = {}
    /\ calls' = [calls EXCEPT ![i] = [kind |-> @.kind, args |-> @.args, at |-> "writing",
                                      next |-> EditBy(@, inUse)]]
    /\ UNCHANGED <<file, aside, inUse, panel, edits, launches, spoilt, passedBy, kept>>

\* save_to: written beside and renamed over, or the file is what it was.
WritesFile(i) ==
    /\ inUse # NotRunning /\ calls[i].at = "writing"
    /\ \/ /\ file' = [is |-> "whole", value |-> calls[i].next]
          /\ calls' = [calls EXCEPT ![i].at = "written"]
       \/ /\ calls' = [calls EXCEPT ![i].at = "failed"]
          /\ UNCHANGED file
    /\ UNCHANGED <<aside, inUse, panel, edits, launches, spoilt, passedBy, kept>>

\* Published, and answered: the panel takes the view over what was typed meanwhile
\* (apply_settings_view), a preset's menu its presets.
PublishesSave(i) ==
    /\ inUse # NotRunning /\ calls[i].at = "written"
    /\ inUse' = calls[i].next
    /\ calls' = [calls EXCEPT ![i].at = "done"]
    /\ panel' = IF calls[i].kind = "save" THEN FormOf(calls[i].next) ELSE panel
    /\ kept' = EditBy(calls[i], kept)
    /\ UNCHANGED <<file, aside, edits, launches, spoilt, passedBy>>

-----------------------------------------------------------------------------
(* Launches.                                                               *)

Ends ==
    /\ inUse # NotRunning /\ launches < MaxLaunches
    /\ inUse' = NotRunning
    /\ calls' = <<>>
    /\ edits' = 0
    /\ panel' = FormOf(DefaultSettings)
    /\ UNCHANGED <<file, aside, launches, spoilt, passedBy, kept>>

\* A hand edit, or a spoilt disk, while nothing runs. What is spoilt nobody repairs.
Spoils ==
    /\ inUse = NotRunning /\ file.is # "spoilt"
    /\ \/ \E s \in HandEdits : file' = [is |-> "whole", value |-> s] /\ UNCHANGED spoilt
       \/ /\ file' = [is |-> "spoilt", id |-> launches]
          /\ spoilt' = spoilt \union {launches}
    /\ UNCHANGED <<aside, inUse, panel, calls, edits, launches, passedBy, kept>>

\* load_or_quarantine of a file that could be read: what cannot be parsed is moved aside
\* before the defaults are used.
ReadsFile ==
    /\ inUse' = LoadedFrom(file)
    /\ IF file.is = "spoilt" THEN aside' = aside \union {file.id} /\ file' = Absent
       ELSE UNCHANGED <<aside, file>>
    /\ UNCHANGED passedBy

\* Of a file that could not be read, locked or not permitted or no UTF-8, whatever is in it;
\* or that could not be parsed, nor moved aside. It stays where it is, and the defaults are
\* used.
LeavesFile ==
    /\ file # Absent
    /\ inUse' = DefaultSettings
    /\ passedBy' = passedBy \union {<<launches', file>>}
    /\ UNCHANGED <<aside, file>>

\* load_or_recover
Launches ==
    /\ inUse = NotRunning /\ launches < MaxLaunches
    /\ launches' = launches + 1
    /\ ReadsFile \/ LeavesFile
    /\ panel' = FormOf(inUse')
    /\ kept' = inUse'
    /\ UNCHANGED <<calls, edits, spoilt>>

SettingsNext ==
    \/ EditsForm \/ Asks \/ Ends \/ Spoils \/ Launches
    \/ \E i \in DOMAIN calls : WriteStarts(i) \/ WritesFile(i) \/ PublishesSave(i)

SettingsSpec == SettingsInit /\ [][SettingsNext]_settingsVars

-----------------------------------------------------------------------------
(* Properties.                                                             *)

SettingsTypeOK ==
    /\ file.is \in {"absent", "whole", "spoilt"}
    /\ aside \subseteq spoilt
    /\ \A i \in DOMAIN calls : calls[i].at \in {"waiting", "writing", "written", "done", "failed"}
    /\ launches \in 1..MaxLaunches

\* The spoilt file that is in place, and those of them that a launch left there.
InPlace == IF file.is = "spoilt" THEN {file.id} ELSE {}
SpoiltAndLeft == {l[2].id : l \in {x \in passedBy : x[2].is = "spoilt"}}

\* While it runs the settings are those it loaded with every save that was answered since,
\* a preset's and the panel's, in whatever order they ran and failed: no writer undoes
\* another. A launch that could read the file would find the same, or the one that is being
\* written with it, unless this one left a file in place and no save of it has replaced
\* that. And a file that could not be parsed is in place or aside, but for one that a launch
\* could not read or move (state.rs:404-429, settings.rs:386-438, 503-521).
AnsweredSavesSurvive ==
    /\ inUse # NotRunning =>
         /\ inUse = kept
         /\ \/ LoadedFrom(file) \in {kept} \union {EditBy(calls[i], kept) : i \in Writing}
            \/ <<launches, file>> \in passedBy /\ kept = DefaultSettings
    /\ spoilt \ (aside \union InPlace) \subseteq SpoiltAndLeft

\* The panel says beforehand what a save would refuse: a save of it is refused only for a
\* URL, for a number that the file had and that nobody touched, or for what the panel
\* says; what it says is always refused. And with nothing typed since a save, it shows what
\* was saved (guardrails.rs:63-74; filters.rs:187-199; commands/settings.rs:136-208).
PanelSaysWhatIsRefused ==
    inUse # NotRunning =>
        /\ WindowProblem(panel) => ~SaveAccepts(panel)
        /\ ~SaveAccepts(panel) =>
             \/ WindowProblem(panel)
             \/ panel.url.scheme = "bad" \/ IsCleartextRemote(panel.url)
             \/ ~InRange(panel.sla) /\ panel.sla = inUse.sla
             \/ panel.band # Blank /\ ~InRange(panel.band) /\ panel.band = inUse.band
=============================================================================
