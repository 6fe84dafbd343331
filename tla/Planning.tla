------------------------------ MODULE Planning -------------------------------
(***************************************************************************)
(* The planner of the backend: which devices a request reaches, what stops *)
(* it, what is sent to each device (src-tauri/src/actions/planning.rs,     *)
(* kind.rs, parameters.rs; commands/actions/plan.rs).                      *)
(*                                                                         *)
(* A request q is what the frontend sends. A world w is what a plan reads  *)
(* when it is made: Settings, the clock, the inventory, the script library *)
(* and the current-patch cache. A target is a number; Garbled stands for a *)
(* text that is no KB number.                                              *)
(***************************************************************************)
EXTENDS Integers, Sequences, FiniteSets

CONSTANT MinutesPerDay      \* 1440 in the code

ASSUME ClockAssumption == MinutesPerDay \in Nat \ {0}

DaysPerWeek == 7
Garbled == 0
NoScript == 0
BuiltIn == -1               \* a built-in action, named by a uid
NoLibrary == [id \in {} |-> FALSE]

Scans == {"OsPatchScan", "SoftwarePatchScan"}
Applies == {"OsPatchApply", "SoftwarePatchApply"}
Remediations == {"OsPatchRemediate", "SoftwarePatchRemediate"}
ActionKind == Scans \union Applies \union Remediations \union {"Reboot", "Script"}

\* is_mutating, exceeds_selection, is_remediation, runs_a_script and supports_dry_run.
IsMutating(kind) == kind \notin Scans
ExceedsSelection(kind) == kind \in Applies
RunsAScript(kind) == kind \in Remediations \union {"Script"}

\* uses_kb_encoding: every kind but the software ones.
UsesKbs(kind) == kind \notin {"SoftwarePatchScan", "SoftwarePatchApply", "SoftwarePatchRemediate"}

RemediationScript(kind, settings) ==
    IF kind = "OsPatchRemediate" THEN settings.osScript
    ELSE IF kind = "SoftwarePatchRemediate" THEN settings.softwareScript ELSE NoScript

\* cond => the set of that one thing.
If(cond, what) == IF cond THEN {what} ELSE {}

-----------------------------------------------------------------------------
(* The maintenance window.                                                 *)

\* Mutant of WindowIsOpen: after midnight the day looked at is the one it is now.
WindowIsOpenToday(s, day, minute) ==
    IF s.start <= s.end THEN day \in s.days /\ s.start <= minute /\ minute < s.end
    ELSE day \in s.days /\ (s.start <= minute \/ minute < s.end)

\* A window that starts after it ends wraps past midnight, and belongs to the day it
\* opened on.
WindowIsOpen(s, day, minute) ==
    IF s.start <= s.end THEN day \in s.days /\ s.start <= minute /\ minute < s.end
    ELSE \/ day \in s.days /\ s.start <= minute
         \/ (day + 6) % DaysPerWeek \in s.days /\ minute < s.end

-----------------------------------------------------------------------------
(* The devices.                                                            *)

Requested(q) == {q.devices[i] : i \in DOMAIN q.devices}

\* An offline device is reached only if both the request and Settings say so.
Eligible(q, w) ==
    {d \in Requested(q) : /\ d \in DOMAIN w.fleet
                          /\ \/ w.fleet[d].online
                             \/ q.includeOffline /\ w.settings.allowOffline}
Skipped(q, w) == Requested(q) \ Eligible(q, w)

\* The devices in the order of the request, once for each time it names one.
Turns(q, w) == SelectSeq(q.devices, LAMBDA d : d \in Eligible(q, w))
Organizations(q, w) == {w.fleet[d].org : d \in Eligible(q, w)}

-----------------------------------------------------------------------------
(* The parameters.                                                         *)

\* typed_parameters: they count for a hand-picked script only, and not if blank.
IsTyped(q) == q.kind = "Script" /\ q.typed

TargetsOf(q, d) == IF d \in DOMAIN q.targets THEN q.targets[d] ELSE {}

\* composed_targets: those of devices in this request, none beside typed parameters.
ComposedTargets(q) ==
    IF RunsAScript(q.kind) /\ ~IsTyped(q)
    THEN UNION {TargetsOf(q, d) : d \in Requested(q)} ELSE {}

NoParameters == [typed |-> FALSE, targets |-> {}, reboot |-> FALSE, dryRun |-> FALSE]
Verbatim == [NoParameters EXCEPT !.typed = TRUE]

\* build_parameters: a target that is no KB never reaches a kbAllowList.
BuildParameters(kind, targets, reboot, dryRun) ==
    [typed |-> FALSE, targets |-> targets \ If(UsesKbs(kind), Garbled),
     reboot |-> reboot, dryRun |-> dryRun]

\* per_device_parameters, for one device.
Parameters(q, d) ==
    IF ~RunsAScript(q.kind) THEN NoParameters
    ELSE IF IsTyped(q) THEN Verbatim
    ELSE BuildParameters(q.kind, TargetsOf(q, d), q.reboot, q.dryRun)

ResolveRunAs(q, settings) ==
    IF ~RunsAScript(q.kind) THEN "none" ELSE IF q.runAs # "" THEN q.runAs ELSE settings.runAs

\* A remediation runs the script of Settings, whatever the request says.
ResolveScript(q, settings) ==
    IF q.kind \in Remediations THEN RemediationScript(q.kind, settings) ELSE q.script

-----------------------------------------------------------------------------
(* Dry runs.                                                               *)

\* dry_run_support. A library that could not be read confirms nothing.
DryRunSupport(q, script, library) ==
    IF IsTyped(q) THEN "TypedParameters"
    ELSE IF script = BuiltIn THEN "BuiltInAction"
    ELSE IF script = NoScript THEN "NotChecked"
    ELSE IF script \notin DOMAIN library THEN "Unverified"
    ELSE IF library[script] THEN "Declared" ELSE "NotDeclared"

\* Mutant of DryRunRefused: only a library entry is looked at.
DryRunRefusedByLibrary(q, w) ==
    q.dryRun /\ ~(RunsAScript(q.kind) /\ (IsTyped(q) \/
        DryRunSupport(q, ResolveScript(q, w.settings), w.library) = "Declared"))

\* A native endpoint has no preview, and a script must say that it takes dryRun.
DryRunRefused(q, w) ==
    q.dryRun /\ ~(RunsAScript(q.kind) /\
        DryRunSupport(q, ResolveScript(q, w.settings), w.library) = "Declared")

-----------------------------------------------------------------------------
(* The plan.                                                               *)

UntargetedDevices(q, w) == {d \in Eligible(q, w) : TargetsOf(q, d) = {}}

WindowIsShut(q, w) ==
    /\ IsMutating(q.kind) /\ w.settings.windowRequired
    /\ ~WindowIsOpen(w.settings, w.day, w.minute)
WindowOverridden(q, w) ==
    WindowIsShut(q, w) /\ q.overrideWindow /\ w.settings.allowOverride

\* plan: what stops any action, ...
ActionBlockers(q, w) ==
    UNION {If(Eligible(q, w) = {}, "no device"),
           If(Len(q.devices) # Cardinality(Requested(q)), "device repeated"),
           If(UsesKbs(q.kind) /\ Garbled \in ComposedTargets(q), "not a KB"),
           If(IsMutating(q.kind) /\ Len(Turns(q, w)) > w.settings.maxDevices, "too many devices"),
           If(IsMutating(q.kind) /\ Cardinality(Organizations(q, w)) > w.settings.maxOrgs,
              "too many organizations"),
           If(WindowIsShut(q, w) /\ ~WindowOverridden(q, w), "window shut"),
           If(DryRunRefused(q, w), "no dry run")}

\* ... a remediation, ...
RemediationBlockers(q, w) ==
    IF q.kind \notin Remediations THEN {}
    ELSE If(RemediationScript(q.kind, w.settings) = NoScript, "no remediation script")
         \union If(ComposedTargets(q) = {}, "no target")

\* ... and, in build_plan, what the planner does not see.
RequestBlockers(q, w) ==
    UNION {If(q.kind = "Script" /\ q.script = NoScript, "no script"),
           If(/\ q.kind \in Remediations /\ ComposedTargets(q) # {}
              /\ UntargetedDevices(q, w) # {}, "device without target"),
           If(q.kind = "Reboot" /\ ~q.reason, "no reason")}

Blockers(q, w) == ActionBlockers(q, w) \union RemediationBlockers(q, w) \union RequestBlockers(q, w)

\* apply_preview: the approved and the pending patches of each device, when the feed of
\* the family is in the cache.
ApplyPreview(q, w) ==
    [d \in Eligible(q, w) |->
        [s \in {"APPROVED", "MANUAL"} |->
            Cardinality({p \in w.cached : p.device = d /\ p.kb = UsesKbs(q.kind) /\ p.status = s})]]

\* rejected_targets_warning: the targets NinjaOne holds as rejected on the device.
RejectedTargets(q, w) ==
    {p \in w.cached : /\ p.device \in Eligible(q, w) /\ p.kb = UsesKbs(q.kind)
                      /\ p.status = "REJECTED" /\ p.target \in TargetsOf(q, p.device)}

RebootExpected(q) ==
    ~q.dryRun /\ \/ q.kind = "Reboot" \/ ExceedsSelection(q.kind)
                 \/ RunsAScript(q.kind) /\ q.reboot

\* What a plan that is not stopped tells.
Warnings(q, w) ==
    UNION {If(WindowOverridden(q, w), "window overridden"),
           If(ExceedsSelection(q.kind), "installs every approved patch"),
           If(/\ ExceedsSelection(q.kind) /\ w.isCached
              /\ \E d \in Eligible(q, w) : ApplyPreview(q, w)[d]["APPROVED"] = 0, "nothing approved"),
           If(RebootExpected(q), "may restart"),
           If(\E d \in Eligible(q, w) : ~w.fleet[d].online, "offline included"),
           If(q.kind \in Remediations /\ w.isCached /\ RejectedTargets(q, w) # {}, "rejected"),
           If(q.kind = "Script" /\ DOMAIN q.targets # {} /\ UntargetedDevices(q, w) # {}, "empty list")}
=============================================================================
