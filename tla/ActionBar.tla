------------------------------ MODULE ActionBar -------------------------------
(***************************************************************************)
(* From the rows ticked to what is sent: the action bar and the dialog of  *)
(* the frontend (web-rs/src/app/state/actions.rs, selection.rs, query.rs)  *)
(* over plan_action and run_action (commands/actions/mod.rs, dispatch.rs). *)
(*                                                                         *)
(* Between one step and the next anything a plan reads may have changed:   *)
(* each plan and each run reads a world of its own. Tokens, sessions and   *)
(* the job store are Approval's and ActionJobs'; here a token stands for   *)
(* what it was issued for. Bound: while a batch is listed only its retries *)
(* are planned, and it is cleared from the list before anything else.      *)
(***************************************************************************)
EXTENDS PatchSelection

CONSTANTS
    BarDevice,      \* the devices shown, and the orphans' 0
    BarRows,        \* the rows shown: pairs of a device and a patch
    BarKinds,       \* the buttons
    BarOptions,     \* what the bar may be set to
    Worlds          \* what a plan may read

\* What the bar may be set to, and what validate_action_settings lets a save leave in
\* Settings: times within the day, and an identity. A library entry has an id.
IsOptions(opts) ==
    opts \in [kbTargeting : BOOLEAN, includeOffline : BOOLEAN, overrideWindow : BOOLEAN,
              dryRun : BOOLEAN, reboot : BOOLEAN, runAs : STRING, forced : BOOLEAN,
              reason : BOOLEAN, script : Int, typed : BOOLEAN]
IsWorld(w) ==
    /\ w.settings.start \in 0..(MinutesPerDay - 1) /\ w.settings.end \in 0..(MinutesPerDay - 1)
    /\ w.settings.days \subseteq Int /\ w.settings.runAs # ""
    /\ w.day \in 0..(DaysPerWeek - 1) /\ w.minute \in 0..(MinutesPerDay - 1)
    /\ {NoScript, BuiltIn} \intersect DOMAIN w.library = {}

ASSUME BarAssumption ==
    /\ BarDevice \subseteq Nat /\ IsFiniteSet(BarDevice) /\ BarKinds \subseteq ActionKind
    /\ \A row \in BarRows : row[1] \in BarDevice
    /\ \A opts \in BarOptions : IsOptions(opts)
    /\ \A w \in Worlds : IsWorld(w)

VARIABLES
    selected,     \* the rows ticked on the Patches tab
    override,     \* the tick of the window override
    consent,      \* whether it was set since the last dispatch
    pending,      \* the plan in the dialog
    batch         \* the last batch sent: its request, its world and its jobs

barVars == <<selected, override, consent, pending, batch>>

NoPlanShown == [request |-> "none"]
NoBatch == [request |-> "none", jobs |-> NothingTicked]
NothingSent == [payload |-> "none"]

BarInit ==
    /\ selected = NothingTicked
    /\ override = FALSE
    /\ consent = FALSE
    /\ pending = NoPlanShown
    /\ batch = NoBatch

-----------------------------------------------------------------------------
(* The selection. The dialog covers the page, a refresh goes on behind it. Of the     *)
(* devices ticked on the Needs Reboot tab a plan takes any.                            *)

RowsOf(d) == {row[2] : row \in {r \in BarRows : r[1] = d}}

TicksRows ==
    /\ pending = NoPlanShown /\ batch = NoBatch
    /\ \E row \in BarRows :
         selected' \in {RowsTicked(selected, row[1], {row[2]}), RowsUnticked(selected, row[1], {row[2]})}
    /\ UNCHANGED <<override, consent, pending, batch>>

TicksOverride ==
    /\ pending = NoPlanShown
    /\ override' = ~override
    /\ consent' = ~override
    /\ UNCHANGED <<selected, pending, batch>>

\* An automatic refresh: the ticked devices are read again, those with too many rows
\* in part, which says nothing of them.
Refreshes ==
    /\ batch = NoBatch
    /\ \E d \in DOMAIN selected : \E rows \in SUBSET RowsOf(d) :
         selected' = PrunedFromReads(selected, [e \in {d} |-> rows])
    /\ UNCHANGED <<override, consent, pending, batch>>

\* A run of another scope.
ClearsSelection ==
    /\ batch = NoBatch
    /\ selected' = NothingTicked
    /\ UNCHANGED <<override, consent, pending, batch>>

\* clear_session.
BarSessionEnds ==
    /\ selected' = NothingTicked
    /\ override' = FALSE
    /\ consent' = FALSE
    /\ pending' = NoPlanShown
    /\ batch' = NoBatch

-----------------------------------------------------------------------------
(* The plan.                                                               *)

\* What a token is issued for.
Payload(q, w) == [script |-> ResolveScript(q, w.settings), runAs |-> ResolveRunAs(q, w.settings)]

\* plan_request, and plan_action. For the properties: what was ticked for it, and what
\* a retry sent the first time.
Shows(q, w, meant, retried) ==
    pending' = [request |-> q, blockers |-> Blockers(q, w), warnings |-> Warnings(q, w),
                payload |-> Payload(q, w), spent |-> FALSE, meant |-> meant, retried |-> retried]

\* open_plan, from the Patches tab and from the Needs Reboot tab. The bar's settings are
\* those on screen.
OpensPlan ==
    /\ pending = NoPlanShown /\ batch = NoBatch
    /\ \E kind \in BarKinds, opts \in BarOptions, w \in Worlds :
         LET offered == Offered([opts EXCEPT !.overrideWindow = override], w.settings)
         IN  \/ /\ DOMAIN selected # {}
                /\ ~KindDisabled(kind, selected, w.settings)
                /\ ~DryRunDisabled(kind, opts, w.settings, w.library)
                /\ Shows(BuildActionRequest(kind, selected, offered), w, selected, NothingTicked)
             \/ /\ DeviceSelectionAllows(kind)
                /\ \E devices \in (SUBSET (BarDevice \ {OrphanDevice})) \ {{}} :
                     LET chosen == [d \in devices |-> {}]
                     IN  Shows(BuildActionRequest(kind, chosen, offered), w, chosen, NothingTicked)
    /\ UNCHANGED <<selected, override, consent, batch>>

\* retry_jobs, of one failed job or of all of a batch.
RetriesJobs ==
    /\ pending = NoPlanShown
    /\ LET failed == {d \in DOMAIN batch.jobs : Retryable(batch.jobs[d])}
       IN  \E retried \in {failed} \union {{d} : d \in failed}, w \in Worlds :
             /\ retried # {}
             /\ Shows(RetryRequest(batch.jobs, retried), w, batch.meant,
                      [d \in retried |-> batch.jobs[d].sent])
    /\ batch' = NoBatch
    /\ UNCHANGED <<selected, override, consent>>

\* cancel_plan.
CancelsPlan ==
    /\ pending # NoPlanShown
    /\ pending' = NoPlanShown
    /\ UNCHANGED <<selected, override, consent, batch>>

\* replan: the same request.
Replans ==
    /\ pending # NoPlanShown
    /\ \E w \in Worlds : Shows(pending.request, w, pending.meant, pending.retried)
    /\ UNCHANGED <<selected, override, consent, batch>>

-----------------------------------------------------------------------------
(* The dispatch.                                                           *)

\* perform: what one device is sent. It refuses once more what a plan stops.
Perform(q, payload, d) ==
    LET parameters == Parameters(q, d)
        refused == \/ q.kind \in Remediations /\ TargetsOf(q, d) = {}
                   \/ q.dryRun /\ ~parameters.dryRun
    IN  [sent |-> IF refused THEN NothingSent
                  ELSE [payload |-> payload, parameters |-> parameters, forced |-> q.forced,
                        reason |-> q.reason],
         state |-> IF refused THEN "Failed" ELSE "Queued"]

\* The job of each device: what it is sent, what is recorded of it, and what a retry
\* of it was sent before.
Job(q, w, retried, d) ==
    LET skipped == d \in Skipped(q, w)
        performed == Perform(q, Payload(q, w), d)
    IN  [kind |-> q.kind, dryRun |-> q.dryRun,
         record |-> JobRequest(q, ResolveRunAs(q, w.settings), d),
         sent |-> IF skipped THEN NothingSent ELSE performed.sent,
         state |-> IF skipped THEN "Skipped" ELSE performed.state,
         before |-> IF d \in DOMAIN retried THEN retried[d] ELSE NothingSent]

\* Mutant of ConfirmsPlan: the override stays ticked.
ConfirmsKeepingOverride ==
    /\ pending # NoPlanShown /\ CanConfirm(pending)
    /\ \E w \in Worlds :
         LET q == pending.request
             stopped == \/ Blockers(q, w) # {}
                        \/ IsMutating(q.kind) /\ Payload(q, w) # pending.payload
         IN  IF stopped
             THEN pending' = [pending EXCEPT !.spent = TRUE] /\ UNCHANGED <<override, consent, batch>>
             ELSE /\ pending' = NoPlanShown
                  /\ batch' = [request |-> q, world |-> w, meant |-> pending.meant, consent |-> consent,
                               jobs |-> [d \in Requested(q) |-> Job(q, w, pending.retried, d)]]
                  /\ consent' = FALSE
                  /\ UNCHANGED override
    /\ UNCHANGED selected

\* confirm_plan, and run_action: planned again as things are now; an error stays in the
\* dialog, whose token is spent. The override was for this dispatch.
ConfirmsPlan ==
    /\ pending # NoPlanShown /\ CanConfirm(pending)
    /\ \E w \in Worlds :
         LET q == pending.request
             stopped == \/ Blockers(q, w) # {}
                        \/ IsMutating(q.kind) /\ Payload(q, w) # pending.payload
         IN  IF stopped
             THEN pending' = [pending EXCEPT !.spent = TRUE] /\ UNCHANGED <<override, consent, batch>>
             ELSE /\ pending' = NoPlanShown
                  /\ batch' = [request |-> q, world |-> w, meant |-> pending.meant, consent |-> consent,
                               jobs |-> [d \in Requested(q) |-> Job(q, w, pending.retried, d)]]
                  /\ override' = FALSE
                  /\ consent' = FALSE
    /\ UNCHANGED selected

\* NinjaOne's answers, all at once: some jobs failed.
JobsEnd ==
    /\ \E d \in DOMAIN batch.jobs : batch.jobs[d].state = "Queued"
    /\ \E failing \in SUBSET {d \in DOMAIN batch.jobs : batch.jobs[d].state = "Queued"} :
         batch' = [batch EXCEPT !.jobs = [d \in DOMAIN batch.jobs |->
                     IF batch.jobs[d].state # "Queued" THEN batch.jobs[d]
                     ELSE [batch.jobs[d] EXCEPT !.state = IF d \in failing THEN "Failed" ELSE "Completed"]]]
    /\ UNCHANGED <<selected, override, consent, pending>>

\* clear_job_history, once every job is settled.
ClearsJobs ==
    /\ batch # NoBatch /\ \A d \in DOMAIN batch.jobs : batch.jobs[d].state # "Queued"
    /\ batch' = NoBatch
    /\ UNCHANGED <<selected, override, consent, pending>>

BarNext ==
    \/ TicksRows \/ TicksOverride \/ Refreshes \/ ClearsSelection \/ BarSessionEnds
    \/ OpensPlan \/ RetriesJobs \/ CancelsPlan \/ Replans \/ ConfirmsPlan \/ JobsEnd \/ ClearsJobs

BarSpec == BarInit /\ [][BarNext]_barVars
-----------------------------------------------------------------------------
(* Properties.                                                             *)

BarTypeOK ==
    /\ DOMAIN selected \subseteq BarDevice \ {OrphanDevice}
    /\ \A d \in DOMAIN selected : selected[d] \subseteq RowsOf(d)
    /\ override \in BOOLEAN /\ consent \in BOOLEAN

WasSent(job) == job.sent # NothingSent

\* Whatever was ticked, refreshed, planned again or retried since, a device is acted
\* upon only if it was ticked for that plan, once, while it was online or the queue of
\* offline devices allowed; it is told of patches ticked on it alone, a remediation of
\* one at least; and what is called a dry run is told so, by a script that says it
\* listens (selection.rs:100-125, 216-226; dispatch.rs:418-445).
TargetsWereTicked ==
    /\ \A d \in DOMAIN selected : selected[d] # {}
    /\ \A d \in DOMAIN batch.jobs :
         LET job == batch.jobs[d]
             q == batch.request
             w == batch.world
         IN  WasSent(job) =>
               /\ d \in DOMAIN batch.meant
               /\ Cardinality({i \in DOMAIN q.devices : q.devices[i] = d}) = 1
               /\ w.fleet[d].online \/ w.settings.allowOffline
               /\ job.sent.parameters.targets \subseteq
                    UNION {{p.kb, p.name} : p \in batch.meant[d]}
               /\ job.kind \in Remediations => job.sent.parameters.targets # {}
               /\ job.dryRun = job.sent.parameters.dryRun
               /\ job.dryRun => w.library[job.sent.payload.script]

\* A retry sends a device what its failed job was sent, whatever was ticked or set
\* since, but for the remediation script, which is that of Settings; and it overrides
\* no window (commands/actions/mod.rs:386-427, util/jobs.rs:145-207).
RetriesWhatWasSent ==
    \A d \in DOMAIN batch.jobs :
        LET job == batch.jobs[d]
        IN  job.before # NothingSent /\ WasSent(job) =>
              /\ ~WindowOverridden(batch.request, batch.world)
              /\ job.sent = IF job.kind \in Remediations
                            THEN [job.before EXCEPT !.payload.script = job.sent.payload.script]
                            ELSE job.before

\* What reaches a device is what was ticked for it in the plan that was confirmed, and a
\* retry repeats what was sent.
SendsWhatWasMeant == TargetsWereTicked /\ RetriesWhatWasSent

\* The window as the days and minutes of Settings describe it: it opens on each of its
\* days, and is open for as long as from its start to its end.
InWindow(s, day, minute) ==
    \E d \in s.days :
        ((day - d) * MinutesPerDay + minute - s.start) % (DaysPerWeek * MinutesPerDay)
            < (s.end - s.start) % MinutesPerDay

\* A change is sent outside a required window only when Settings allows it and the
\* override was ticked for that very dispatch (planning.rs:448-478, 660-681,
\* state/actions.rs:353-355).
HonoursTheWindow ==
    \A d \in DOMAIN batch.jobs :
        LET s == batch.world.settings
        IN  /\ WasSent(batch.jobs[d]) /\ IsMutating(batch.request.kind) /\ s.windowRequired
            /\ ~InWindow(s, batch.world.day, batch.world.minute)
            => s.allowOverride /\ batch.consent

\* A button is disabled when the planner would stop the plan for that reason, and only
\* then, as long as both read one Settings and one library (guardrails.rs:143-170,
\* selection.rs:453-485, planning.rs:485-495, 551-578).
BarAgreesWithPlanner ==
    pending = NoPlanShown /\ batch = NoBatch /\ DOMAIN selected # {} =>
        \A kind \in BarKinds, opts \in BarOptions, w \in Worlds :
            LET q == BuildActionRequest(kind, selected, Offered(opts, w.settings))
                stops == Blockers(q, w)
                script == ResolveScript(q, w.settings)
                pointless == stops \intersect {"no remediation script", "no target", "device without target"}
            IN  /\ "device repeated" \notin stops
                /\ KindDisabled(kind, selected, w.settings) <=> pointless # {}
                /\ DryRunDisabled(kind, opts, w.settings, w.library) => "no dry run" \in stops
                /\ "no dry run" \in stops /\ script \in DOMAIN w.library
                     => DryRunDisabled(kind, opts, w.settings, w.library)
=============================================================================
