---------------------------- MODULE PatchSelection ----------------------------
(***************************************************************************)
(* What the operator has ticked, the request the action bar makes of it,   *)
(* and the request that sends failed jobs again (web-rs/src/app/util:      *)
(* selection.rs, guardrails.rs, jobs.rs).                                  *)
(*                                                                         *)
(* A selection is a function from the devices ticked to their patches. A   *)
(* patch is [os, kb, name].                                                *)
(***************************************************************************)
EXTENDS Planning

OrphanDevice == 0
NoKb == -1                  \* an OS row without a KB number
NothingTicked == [d \in {} |-> {}]

-----------------------------------------------------------------------------
(* Ticking.                                                                *)

\* row_selectable: a row without a device can be shown but never acted upon.
RowSelectable(device) == device # OrphanDevice

\* sel with the patches of d replaced; a device leaves with its last ticked row.
Ticked(sel, d) == IF d \in DOMAIN sel THEN sel[d] ELSE {}
WithTicks(sel, d, patches) ==
    [e \in IF patches = {} THEN (DOMAIN sel) \ {d} ELSE (DOMAIN sel) \union {d} |->
        IF e = d THEN patches ELSE sel[e]]

\* apply_rows_selection, of rows of one device.
RowsTicked(sel, d, patches) ==
    IF RowSelectable(d) THEN WithTicks(sel, d, Ticked(sel, d) \union patches) ELSE sel
RowsUnticked(sel, d, patches) == WithTicks(sel, d, Ticked(sel, d) \ patches)

\* Mutant of PrunedFromReads: a device stays when its last ticked patch is gone.
PrunedToNothing(sel, reads) ==
    [d \in DOMAIN sel |-> IF d \in DOMAIN reads THEN sel[d] \intersect reads[d] ELSE sel[d]]

\* prune_selection_from_reads: what a device's rows no longer list is unticked. A read
\* cut off at its limit is left out of reads: what it does not list may still be there.
PrunedFromReads(sel, reads) ==
    LET left == [d \in DOMAIN sel |->
                    IF d \in DOMAIN reads THEN sel[d] \intersect reads[d] ELSE sel[d]]
    IN  [d \in {e \in DOMAIN sel : left[e] # {}} |-> left[d]]

-----------------------------------------------------------------------------
(* The request.                                                            *)

\* Mutant of TargetsByDevice: every device is told all that is ticked.
TargetsForAll(sel, wantOs) ==
    LET targets == UNION {
            {IF wantOs THEN p.kb ELSE p.name : p \in {x \in sel[d] : x.os = wantOs}} \ {NoKb} :
            d \in DOMAIN sel}
    IN  [d \in {e \in DOMAIN sel : targets # {}} |-> targets]

\* targets_by_device: OS patches by KB, software by name.
TargetsByDevice(sel, wantOs) ==
    LET targets == [d \in DOMAIN sel |->
            {IF wantOs THEN p.kb ELSE p.name : p \in {x \in sel[d] : x.os = wantOs}} \ {NoKb}]
    IN  [d \in {e \in DOMAIN sel : targets[e] # {}} |-> targets[d]]

RemediationTargets(sel, kind) == TargetsByDevice(sel, kind = "OsPatchRemediate")

\* ActionRequest::new.
NewRequest(kind, devices) ==
    [kind |-> kind, devices |-> devices, targets |-> NothingTicked, script |-> NoScript,
     typed |-> FALSE, runAs |-> "", reboot |-> FALSE, forced |-> FALSE, reason |-> FALSE,
     includeOffline |-> FALSE, overrideWindow |-> FALSE, dryRun |-> FALSE]

\* A set of devices in their order, as the keys of a BTreeMap.
InOrder(S) ==
    [i \in 1..Cardinality(S) |-> CHOOSE d \in S : Cardinality({e \in S : e <= d}) = i]

\* build_action_request, with the options opts of the bar.
BuildActionRequest(kind, sel, opts) ==
    LET targets == IF kind \in Remediations THEN RemediationTargets(sel, kind)
                   ELSE IF kind = "Script" /\ opts.kbTargeting THEN TargetsByDevice(sel, TRUE)
                   ELSE NothingTicked
        scripted == RunsAScript(kind)
    IN  [NewRequest(kind, InOrder(IF kind \in Remediations THEN DOMAIN targets ELSE DOMAIN sel))
           EXCEPT !.targets = targets,
                  !.includeOffline = opts.includeOffline,
                  !.overrideWindow = opts.overrideWindow,
                  !.dryRun = scripted /\ opts.dryRun,
                  !.reboot = scripted /\ opts.reboot,
                  !.runAs = IF scripted THEN opts.runAs ELSE "",
                  !.forced = kind = "Reboot" /\ opts.forced,
                  !.reason = kind = "Reboot" /\ opts.reason,
                  !.script = IF kind = "Script" THEN opts.script ELSE NoScript,
                  !.typed = kind = "Script" /\ opts.typed]

\* device_selection_allows: devices ticked without rows can be restarted and scanned.
DeviceSelectionAllows(kind) == kind \in Scans \union {"Reboot"}

-----------------------------------------------------------------------------
(* Why a button is disabled, from the Settings and the library on screen.  *)

\* kind_disabled_reason.
KindDisabled(kind, sel, settings) ==
    kind \in Remediations /\ \/ RemediationScript(kind, settings) = NoScript
                             \/ DOMAIN RemediationTargets(sel, kind) = {}

\* dry_run_disabled_reason: a script that is not listed is not spoken of.
DryRunDisabled(kind, opts, settings, library) ==
    LET script == IF kind \in Remediations THEN RemediationScript(kind, settings) ELSE opts.script
    IN  /\ opts.dryRun /\ RunsAScript(kind)
        /\ \/ kind = "Script" /\ opts.typed
           \/ script \in DOMAIN library /\ ~library[script]

\* window_override_offered and offline_targets_offered: a tick whose box is not on offer
\* does not count; nor does KB targeting for a script without a kbAllowList.
Offered(opts, settings) ==
    [opts EXCEPT !.overrideWindow = opts.overrideWindow /\ settings.windowRequired /\ settings.allowOverride,
                 !.includeOffline = opts.includeOffline /\ settings.allowOffline,
                 !.kbTargeting = opts.kbTargeting /\ opts.script \in settings.kbScripts]

-----------------------------------------------------------------------------
(* Retrying.                                                               *)

\* Mutant of JobRequest: the identity as asked for, not as resolved.
JobRequestAsAsked(q, runAs, d) ==
    [script |-> q.script, typed |-> IsTyped(q), runAs |-> q.runAs, reboot |-> q.reboot,
     forced |-> q.forced, reason |-> q.reason, includeOffline |-> q.includeOffline,
     targets |-> TargetsOf(q, d)]

\* job_request (commands/actions/mod.rs): what a job records of what it was sent: the
\* resolved identity, its own targets, and no override.
JobRequest(q, runAs, d) ==
    [script |-> q.script, typed |-> IsTyped(q), runAs |-> runAs, reboot |-> q.reboot,
     forced |-> q.forced, reason |-> q.reason, includeOffline |-> q.includeOffline,
     targets |-> TargetsOf(q, d)]

\* retry_blocked_reason: only a job that failed and says what it was sent.
Retryable(job) == job.state = "Failed"

\* retry_request, of the jobs of the devices in retried, a set of one batch.
RetryRequest(jobs, retried) ==
    LET first == jobs[CHOOSE d \in retried : \A e \in retried : d <= e]
        record == first.record
    IN  [NewRequest(first.kind, InOrder(retried))
           EXCEPT !.targets = [d \in {e \in retried : jobs[e].record.targets # {}} |->
                                  jobs[d].record.targets],
                  !.script = record.script, !.typed = record.typed, !.runAs = record.runAs,
                  !.reboot = record.reboot, !.forced = record.forced, !.reason = record.reason,
                  !.includeOffline = record.includeOffline, !.dryRun = first.dryRun]

\* can_confirm_action: not blocked, not busy, no spent token; a forced reboot is typed out.
CanConfirm(pending) == pending.blockers = {} /\ ~pending.spent
=============================================================================
