# NinjaOne Patch Toolkit: models and proofs

The toolkit is a desktop program (Tauri: a Rust backend in `src-tauri/`, a
Leptos frontend in `web-rs/`) with which an operator reads the patch state of a
NinjaOne fleet, and scans, patches, reboots or runs scripts on its devices. This
directory holds TLA+ models of it, the TLC configurations that check them, and
proofs that TLAPS checks. Paths below are relative to `src/`.

    tlasany M.tla                        parse a module
    tlc -workers 2 -config X.cfg MCM.tla check a run
    tlapm MProofs.tla                    check a module's proofs

`PROJECT.json` lists the components, the runs, for every property a mutant of
the model that breaks it, the lines each definition translates, the hazards, the
findings and the theorems.


## 1. The system

### Components

Paths in this table are relative to `src-tauri/src/`, except the frontend's.

| Component | State | Operations | Modelled by |
|---|---|---|---|
| Tenant caches (`state/cache.rs`) | per family a slot, an epoch, a fetch lock | `get_or_fetch`, `invalidate` | TenantCache |
| Sessions (`commands/auth.rs`, `commands/settings.rs`, `state/jobs.rs`) | tenant of the settings, job epoch, result epoch | `sign_in`, `reauthorize`, `sign_out`, `save_settings`, `clear_jobs` | Session, and the same flows as QueryRuns sees them |
| Auth (`auth.rs`) | tokens in memory, refresh token in the keyring, session number, refresh and persist locks | `access_token`, `access_token_for`, refresh, `login_pkce`, `logout`, `apply_settings` | AuthGrant (partly: not the client secret, the scope, old entries) |
| API client (`api/mod.rs`) | the shared 429 pause, retry budgets | `send_with_retry`, the send guard, the decoders | Requests; its writes also in Approval and ActionJobs |
| API paging (`api/paging.rs`, `api/patches.rs`) | a cursor per scan, slices of locations | page loops, restarts, re-reads; the sliced software feed | Paging, SlicedFeed |
| Query lifecycle and result cache (`commands/patches.rs`, `state.rs`) | query generation, result epoch, last result with its memos | `query_patches`, pages, orders, groupings, `clear_last_result` | QueryRuns, ResultView |
| Rows, rollups, compliance, grouping (`rows/`) | none: functions of what was fetched | `assemble_result` and its passes | PatchRows, Rollups, RowGroups, Answers (partly: not the reboot and exposure summaries) |
| Filters and scoping (`filter.rs`) | none | which devices and patches a query keeps | PatchRows, QueryForm |
| Changes baseline (`changes.rs`) | one snapshot file per tenant and scope, the last saved one in memory | `load`, `diff`, `save`, `prune` | RunChanges, and QueryRuns |
| First-seen ledger (`first_seen.rs`) | one tenant's ledger in memory, a file per tenant | base, commit, rebuild, cap | FirstSeen |
| Run history (`history.rs`) | a JSON-lines file | append, trim, read | RunHistory (partly: not the trend's sampling) |
| Exploit data (`exploits.rs`, `exploits/`) | months and catalog on disk, an index in memory | refresh, prune, swap | Exploits (partly: not the parsing and the CVE match) |
| Action planning (`actions/planning.rs`, `kind.rs`, `parameters.rs`) | none | eligibility, maintenance window, caps, what is sent | Planning |
| Action approval (`commands/actions/mod.rs`, `confirm.rs`) | one pending confirmation | `plan_action`, `run_action` up to the send | Approval |
| Dispatch, job store, poller (`commands/actions/dispatch.rs`, `poller.rs`, `state/jobs.rs`) | job rows, who polls | dispatch of a batch, append, trim, ticks, clear | ActionJobs |
| Activity correlation (`actions/activity.rs`, `api/activities.rs`) | claimed activity ids | which activity settles which job | JobOutcomes |
| Action audit log (`actions/audit.rs`) | an append-only file | opening and closing records | AuditTrail (partly: the pairing, not the file) |
| Settings (`settings.rs`, `commands/settings.rs`) | a JSON file, the settings in memory, the panel's form | load with recovery, validate, save, presets | SavedSettings |
| Frontend state (`web-rs/src/app/state*`, `util/`) | query stamp and queue; form, lookups, presets, links; table, pages, groups; selection and bar; Jobs tab | all that a control or a reply does to them | QueryRuns, QueryForm, ResultView, PatchSelection, ActionBar, JobBoard (partly: not the theme, the CVE drill-down, the other toasts) |
| Export and reports; shell, windows, diagnostics; demo fixtures; scripts and tooling | window placement | formatting, I/O | not modelled: section 7 |

### How they interact

A *query* runs from the frontend's Run button or its refresh clock:
`query_patches` takes a token (generation, tenant, result epoch), fetches
through the tenant caches and the API client for anything up to minutes, ages
its patches by the first-seen ledger, compares itself with the last run of its
scope, stores its rows in the one result cache if the token still holds, saves
the ledger, the snapshot and a line of history, and answers with a summary.
Pages, sorts, groupings, exports and reports then read the cache, not the
answer.

An *action* begins with rows ticked in the table. The bar refuses what its own
copy of the guardrails forbids, and makes a request of the rest. The request is
planned (`plan_action`), reviewed, and confirmed (`run_action`) with the token
of the plan. The second call plans again from scratch and goes on only if the
payload hash, the session and the token still match. It writes an opening audit
record per device, sends with a few permits, writes a closing record for what
failed, and appends the rest to the job store, where one poller watches
NinjaOne's activities until each job settles, at 45 minutes at the latest. Its
events, and the replies of three commands, bring the rows to the Jobs tab.

All of it runs under a *session*, which three kinds of command end: a sign-in
or re-authorization, a sign-out, and a save that points the app at another
tenant. Ending one takes several steps in several places (settings, AuthState,
keyring, epochs, slots, frontend), and queries and actions in flight live
across them.

### What is hard, and what makes it right

- *Stale results stored late.* A fetch of minutes spans an invalidation, a
  sign-out, a switch. Right: a slot never holds what is older than an
  invalidation that has returned (`NoStaleStore`), a result never that of an
  older run (`NeverOlder`) or of another operator (`OnlyOwnRows`), a keyring
  entry never an ended grant (`EndedStaysEnded`).
- *Replies applied late.* Every read of the frontend is a call whose reply may
  land after the next click. Right: page, sort, groups and dialog show the
  result that is held (`ScreenFitsResult`), the Jobs tab ends up with what the
  store holds (`BoardCatchesUp`), a batch is announced once and when it is over
  (`ToldOnceSettled`).
- *Approval and dispatch apart in time.* Right: what is sent is what was ticked
  (`SendsWhatWasMeant`) and approved, under the grant that approved it
  (`SentAsApproved`), in a window or under an override that was confirmed
  (`HonoursTheWindow`), once (`OneRunPerApproval`, `ActsOnce`).
- *Lost replies, retries, panics.* A write whose reply is lost may have acted.
  Right: what is reported is what happened (`ReportsWhatHappened`), every job
  stays accounted for (`NoJobForgotten`, `KeepsTrail`).
- *A server that keeps the position.* A cursor may stall, repeat or end early,
  and a lost page may have moved it. Right: what a fetch returns is the whole
  feed (`ReturnsTheWholeFeed`, `EveryRowOnce`), and it ends (`FetchesEnd`).
- *Verdicts by guess.* NinjaOne's native endpoints name no activity. Right: a
  job that reports an end reports its own (`JobsEndAsTheirRuns`).
- *Files under crashes, failed writes and two writers.* Right: dates stand
  (`DatesStand`), the newest lines are kept (`KeepsTheNewest`), a copy is not
  held as complete before it is (`HoldsWhatItFetched`), a save that was answered
  is not lost (`AnsweredSavesSurvive`), a baseline is a run that was saved
  (`ReportsWhatMoved`).
- *One truth written twice.* A dozen passes over one feed (`FiguresAgree`), a
  mirror of the guardrails in the frontend (`BarAgreesWithPlanner`,
  `PanelSaysWhatIsRefused`), a query as form, preset and link
  (`FormSaysWhatItAsks`, `ViewReopens`), tokens in memory and keyring
  (`LiveGrantIsKept`), table and cache (`ScreenIsReadable`).
- *One worker, many who need it.* One poller (`NoLostWakeup`), one refresh
  (`PresentsTheNewest`), one queued run (`NoClickLost`), one fetch per cold slot
  (theorem `OneFetchAtATime`); nobody may wait for one that has gone.

`PROJECT.json` lists the hazards line by line.


## 2. The modules

    FreshRead      what a cache promises            <-- TenantCache implements it
    AuditTrail     what the audit log promises      <-- ActionJobs implements it
    Session        the flows that end a session     <-- extended by Approval, ActionJobs
    AuthGrant      tokens, keyring, OAuth server
    QueryRuns      Run button to table, and the session's ends under it
    Requests       one call of the API client       <-- extended by Paging
    PatchRows      rows of a query                  <-- Rollups, RowGroups <-- Answers
    Planning       the planner                      <-- PatchSelection <-- ActionBar
    FirstSeen, RunHistory, Exploits, SlicedFeed, JobOutcomes, RunChanges,
    SavedSettings, QueryForm, ResultView, JobBoard  a component each
    MC*            the instances for TLC
    *Proofs        the theorems

### The concurrent core

**TenantCache** is `state/cache.rs`. A caller is one `get_or_fetch`; its steps
are what runs between two points where others can run: `Enter` (epoch load),
`Probe`, `TakeGate`, the probe under the gate, the fetch with its read of
NinjaOne's data and its failure, `Store` (the compare under the slot's lock). An
invalidator is one `invalidate`, its two steps the bump and the take. NinjaOne's
data is a version number, time is counted in units of `DEGRADED_TTL`. The lookups, the device
inventory and the two current-patch families are instances of it.

**Session** holds the tenant of the settings, the job epoch, AuthState as the
write path sees it, the keyring, and the flows: a `Saver` publishes its
settings, applies them to AuthState, bumps the epoch, empties the slots; a
`Signer` bumps, empties, logs out, signs in. Two constants, `StartsMidSave` and
`StartsMidSign`, say whether the operator may start a plan or a run while such a
flow is between its first and last step. The shipped frontend does not forbid
it everywhere, so both values are looked at: what needs them FALSE says so.
Here a logout is one step; AuthGrant shows what its halves allow.

**Approval** is the two-step write path: plan, store the token, expire, take it
once, compare payload and session, then each attempt with its token, its guard
and its reply. A payload is what `request_hash` covers: the request, and the
choices the plan resolves from Settings, which a save may change meanwhile.

**ActionJobs** is a batch from its first record to its last: the refusals of
`run_action`, the opening records, each device's turn with a permit, the send
guard, the possible replies and retries, a task's panic, the append with its
trim, the poller's claim, its ticks and its exit, the clear by hand, and the end
of a session. What a tick concludes from NinjaOne's activities is left open
here (any unsettled row may settle or not); JobOutcomes says what it concludes.

**AuthGrant** is `auth.rs` with the OAuth server as environment: the server
issues, rotates and kills grants; a caller checks the token in memory, waits for
`refresh_lock`, reads grant and keyring, posts, and stores in two halves
(memory, keyring) joined by `persist_lock`; a sign-in and a sign-out have their
halves too. A caller may be cancelled at any await, which a query's abandoned
leg is; a store or discard already handed to a blocking thread runs on. A
keyring write may fail.

**QueryRuns** is the query path and the frontend together: the frontend's queue
and stamps, `begin_query`, the fetches under whatever grant AuthState holds by
then, the comparison with the baseline, the tenant check before the lock and the
generation and epoch checks under it, snapshot and memory, the reply and what
becomes of it (`Overtakes`, `Paints`, `ShowsError`), the memos offered back for
a result that may have gone, and the ends of a session with their clears, their
browser sign-in (one at a time, `login_gate`), and their failures. A row is
known by the tenant and the operator it was fetched from and under. `newest`,
`overlapped`, `stranded` and the `mid` of a result are history: no action reads
them but the properties do.

**Requests** is one call of the client: `send_with_retry` by the replay class of
the call (`Idempotent`, `CursorPage`, `ActOnce`), its attempts and backoffs, the
pause that a 429 sets for all, the guard that refuses an acting call whose
session has ended, and what the decoders report of a reply. `served` counts what
NinjaOne really did.

**Paging** reads a feed through it, page by page, in both styles (a list with
`after`, a report with a cursor the server keeps): `OnArray`, `OnEnvelope`,
`OnEnd`, `OnError`, `Restart` are the arms of the loop. `Answers` is the server:
honest pages, pages sent twice, cursors that repeat or stand still, an early
end, a body that is neither shape.

### The parts

**FirstSeen**: a query takes the ledger of its tenant (`Loads`: the one in memory, or
the file), fetches, and if its result is stored merges what it saw, ages it,
caps it and writes it; a write may fail, a file be spoilt, the app be restarted.
The dates that are right are the fleet's own (`appeared`).

**RunHistory**: the append, the read, rewrite and rename of a trim by any
number of tasks, a crash at each step, a torn last line.

**Exploits**: the refresh in the background: due or not, one at a time, the
months and the catalog each fetched, kept or failed, the prune, the new index,
a restart. The feeds revise their documents.

**SlicedFeed**: `api/patches.rs` divides the locations, asks for the size of each
slice and of the whole, reads the slices if these add up, and counts what they
returned again; where a sum fails the feed is read whole. Devices are moved
between the slices meanwhile. A slice's own scan is Paging's.

**PatchRows, Rollups, RowGroups, Answers**: what `assemble_result` makes of a
fleet, its feeds and histories and a query, as operators, one for each pass of
the code. Answers has one action, the assembly; its properties compare the
passes with each other and with what the query asked for.

**Planning, PatchSelection, ActionBar**: `Planning` is the planner as operators
(whom a request reaches, what stops it, what is sent to each device, the
maintenance window), `PatchSelection` the frontend's selection, the request it
makes and the request that sends failed jobs again. ActionBar is their state
machine: tick, tick a page, land a new result (which prunes the selection), set
options, plan, confirm, run, retry. Settings, clock, inventory, script library
and patch cache may change between any two steps: each plan reads a world of its
own. Bound: one batch at a time is listed.

**JobOutcomes**: a device, its jobs, and NinjaOne's activity feed as
environment, in which other people's actions of the same kinds appear too. A
tick is `resolve` with its three tiers (the returned activity id; the series or
job it was bound to; the guess by kind, device and time), the claims that keep
two jobs from one activity, the status mapping, the timeout and the clears.

**RunChanges**: scope, diff, save, prune by number and by size, and the memory
of what was last saved, with saves that fail and restarts. **SavedSettings**: the panel's
form with its parsing and its mirrored checks, the commands that save settings
and presets under the write lock, the temporary file, a crash, and at the next
launch `load_or_recover`: a file that it reads (`ReadsFile`), moving aside what it
cannot parse, or one that it can neither read nor move and leaves where it is
(`LeavesFile`). **QueryForm**: the filters on screen, the
lookups behind the pickers with their replies in any order, presets, links, the
end of a session, and the query all of it makes. **ResultView**: the Patches
table; each read (page, headers, members, device dialog, drill-down) is a call
with a stamp, answered from the result held at one moment and landing at
another, while runs land. **JobBoard**: the rows of the Jobs tab by the four ways they
come, events in order and replies not, and the announcement of a settled batch.

**MCParts** composes these twelve. They share no state (what joins them is in
the modules of the core), so a product of their states would show nothing more:
in a behaviour one part moves and the others keep their initial value. `Moving`,
the VIEW, is the state of the part that moves; two states that agree on it are
equal, the rest being constant in a behaviour and, but for the ledger's,
feed's and form's inputs, the same in all. Those three are fixed to one value
unless their part moves (`OnePatchPending`, `NobodyPlaced`, `EveryCopy`).


## 3. The runs

| Run | Instance | States | What it shows |
|---|---|---|---|
| TenantCache | 2 callers, 2 invalidators, 2 tenants, a TTL beyond the cap of a degraded entry | 382k | the slot is never older than a returned invalidation; callers get their tenant's data, no older than what had been invalidated when they called; under fairness calls return, and the cache implements FreshRead |
| Approval | 2 plans, 2 runs, a save, a sign-in flow, 2 settings | 113k | what is sent was approved, once, by the live session |
| ApprovalMidSave | 1 plan, 1 run, a save, `StartsMidSave` | violation | finding 1 |
| ActionJobs | 2 runs of 1 device, a save, a sign-in flow | 1.74M | no job forgotten, closed or acted on twice, shown to another session, or left without a poller |
| ActionJobsLive | 1 run of 2 devices sharing a permit | 56k | under fairness, every opening record is closed: AuditTrail is implemented |
| AuthGrant | 2 callers, a sign-in, a sign-out, 2 tenants | 1.76M | tokens stay with their tenant, ended grants stay ended, live ones are kept, no spent token is presented |
| AuthSignOut | the same, with the keyring read across a session's end | violation | finding 2 |
| AuthSwitch | the same as AuthGrant | violation | finding 3 |
| QueryRuns | 2 runs that may overlap, a reader, a save, a sign-in flow, 2 tenants | 1.64M | table and cache agree, rows are the operator's own, results do not go back, no click is lost |
| Paging | a fetch of 5 rows in pages of 2, an action beside it, 1 retry, 1 re-read, 1 restart | 361k | what is reported is what happened, what is returned is the whole feed, every fetch ends |
| Parts | the twelve parts, each alone | 1318k | the properties of the next table |
| FormSwitch | the instance of Parts | violation | finding 4 |

| Part of Parts | Instance | States | Properties |
|---|---|---|---|
| FirstSeen | 2 queries, 2 tenants, 2 patches, a cap of 1 | 172k | `DatesStand` |
| RunHistory | 2 tasks, 5 records, 2 lines kept and 1 over | 1k | `KeepsTheNewest` |
| Exploits | 2 queries, 2 months, one revised | 25k | `HoldsWhatItFetched` |
| SlicedFeed | 3 devices, 3 locations, 2 slices, a move | 4k | `EveryRowOnce` |
| Answers | 3 devices, every pair of 15 current records, 3 histories, 5 queries | 6k | `FiguresAgree` |
| ActionBar | 3 devices, 5 rows, 5 kinds, 3 sets of options, 3 worlds | 106k | `SendsWhatWasMeant`, `HonoursTheWindow`, `BarAgreesWithPlanner` |
| JobOutcomes | 2 jobs, 3 kinds, a run by somebody else, 2 runs in all | 209k | `JobsEndAsTheirRuns` |
| RunChanges | 3 scopes, 4 fleets, 2 snapshots kept, 3 runs | 52k | `ReportsWhatMoved` |
| SavedSettings | 2 launches of 2 saves and 1 control, 2 hand edits | 47k | `AnsweredSavesSurvive`, `PanelSaysWhatIsRefused` |
| QueryForm | 2 tenants, a saved sign-in of one, 2 sessions, 2 controls, 4 presets and links | 448k | `FormSaysWhatItAsks`, `ViewReopens` |
| ResultView | 2 results of 3 rows and 1, pages of 1, 2 runs, 2 controls | 181k | `ScreenFitsResult` |
| JobBoard | 2 jobs of a batch, 1 list asked for, 1 toast | 67k | `BoardCatchesUp`, `ToldOnceSettled` |

`PartsTypeOK` holds the types of all parts. The types of the other models are
theorems.

*Bounds, and why they are enough.* The stamps are compared for equality and
counted up by one, so what matters is how many actors can fall between the
sampling of a stamp and its use, and each actor is a process here rather than a
counter. Two callers suffice for a race on a gate (one holds, one waits), two
invalidators for an overlap, two plans and two runs for a replaced and a twice
used token, one save and one sign-in flow for each order in which a session can
end under a call, two tenants for a switch and the way back. `MaxVersion`,
`MaxEpoch` and `MaxAge` bound TenantCache's data, invalidations and time: the
age stops at the first one past every TTL. `Permits = 1` makes dispatch tasks
wait; `MaxJobs = 1` makes the store trim; `MaxRetries = 1` allows a retry.
`MaxIssued`, `MaxLost` and `MaxSwitches` bound a grant's access tokens, the
grants whose newest token a fault drops, and the changes of tenant; with
`MaxIssued = 2` a spent refresh token can be presented. `MaxRuns = 2` bounds
the runs started: an older and a newer one. Paging's five rows are two full
pages and a short one, `MaxPages = 6` is more than an honest feed needs and
less than one that goes on for ever, and each budget of 1 is met and exceeded.
Of the parts, every limit of the code (entries, lines, months, snapshots, page
size, list lengths) is set where the instance goes past it, every clock where
an age can lie on each side of each threshold, and `MinutesPerDay = 4` keeps a
window that passes midnight, its day before and its day after.

Larger instances have been checked outside of the list, without error: three runs in
turn and two sign-in flows (QueryRuns), and larger instances of FirstSeen (757k
states under symmetry, and both families of one patch: 338k), ResultView (three controls, 3.5M), JobBoard (813k)
and SavedSettings (three launches, 944k).

Symmetry is used for actors that are alike, in runs without liveness. Deadlock
is checked in every run but Parts, where the bounds on steps stop a part: a
waiting operator is a step of QueryRuns (`Waits`), and the other models have an
operation that is always possible.

*Fairness* is in TenantCache, ActionJobsLive and Paging. A step that a running
task can take is taken (weak fairness per caller, run, poller, fetch): every
await ends, as reqwest has timeouts, a 429's pause and a retry's backoff are
capped, and the poller's sleep is bounded. Taking a contended gate or permit is
strongly fair: tokio's Mutex and Semaphore queue their waiters in order. A call
asleep in a pause wakes (strong fairness of `Runs`): the sleep is a timer's,
not a contest with the calls whose 429s prolong the pause. The
pause runs down (`Passes`). A session's end runs to its end. A job is settled by
some tick: 45 minutes after its start every tick settles it. Nothing is assumed
of the operator, of NinjaOne's data, or of the order of replies.


## 4. What is proved

Every theorem holds for all values of the constants that satisfy the named
assumptions of the module: any number of callers, tenants, devices, runs, and any
rows, texts and dates of their kind. Most assumptions only say what kind a
constant is (disjoint names, bounds that are natural numbers). Those that say more:

- `SettingsAssumption`: an address typed or in a file is a URL record, and a
  settings file edited by hand still holds one value of its kind per field; those
  that do not load are the action `Spoils`.
- `ViewAssumption`: a result is a sequence of rows.
- `BarAssumption`: the settings of a world passed `validate_action_settings`. A
  settings file edited by hand to what a save would refuse is outside of it.
- `FormAssumption`: a preset of the file, of this version or an earlier one, was
  saved by a form; a link may hold any ids, days and words.

**TenantCacheProofs.** `IInv` is the type invariant, `SingleFlight`,
`NoStaleStore`, and two strengthenings: `Ordered` (what callers sampled is no
newer than what is) and `FetchedIsFresh` (a caller that the store would accept
carries data at least as new as every invalidation returned so far). The second
is why the epoch is sampled before the fetch and compared under the slot's
lock: `NoStaleStore` alone does not say what a fetch in flight will store. From `IInv`: `NeverStale`,
`OneFetchAtATime`, `CallersReadSettles`, and `ImplementsFreshRead`, that every
step is one of FreshRead or leaves its state alone.

**SessionProofs** (lemmas). `SessionInv`: saves run in turn, and AuthState lags
the settings only during a save. `HeldBySaves` and `HeldBySigns`: a session sampled
outside a flow is, once such a flow begins, stale from then on or about to be.

**ApprovalProofs.** `OnceInv`, whatever starts when: a token in the slot was
shown, a confirmed run had it, each was used once. It gives `ApprovedOnce` and
`ApprovalEndsWithItsSession`. `IInv` adds that every plan and run holds a
session in the sense of `HeldBySaves` and `HeldBySigns`, and under `~StartsMidSave`
and `~StartsMidSign` gives `WhatIsSentWasApproved`. Both hypotheses are needed: finding 1
violates it without the first, and the same happens without the second, to a
run begun between a sign-out's bump and its logout (`commands/auth.rs:69`).

**ActionJobsProofs.** `BatchInv`, unconditional: where a job can be, that the
closed are the settled, that a poller reads unsettled rows only; it gives
`NeverActsTwice` and `ImplementsAuditTrail` (the safety half of the refinement).
`IInv` adds `RowsHeld` (rows are of the store's tenant, and gone before a save
that leaves it is over) and under `~StartsMidSave` gives `EveryJobIsSomebodys`,
`RowsAreTheSessions` and `RowsArePolled`.

**AuthGrantProofs.** `IInv` is the types and locks with `Owned`: each place that holds a token
is a place for the tenant whose server issued it. It gives
`NoTenantsTokenGoesToAnother`. `EndInv` adds that whatever still carries an
ended grant carries a stamp that its store will refuse; under
`~ReadsAcrossSessions` it gives `SignOutSticks`. Finding 2 is what happens
without that hypothesis.

`LiveInv`, on top of both, says where the newest token of each grant that is still
alive is: saved under its tenant, unless the sign-in that gets it has not saved it
yet or the refresh that holds the lock carries the server's reply
(`LiveIsFiled`); that memory and whatever a caller presents is of it
(`MemoryIsNewest`, `CallsAreNewest`); and that a sign-out about to delete an entry
has ended all that the entry may hold (`LeaversTakeAll`). A sign-in ends the grants before
it (`Superseded`) only when it has saved its own. It gives `LiveGrantsAreKept` and
`NewestIsPresented`, again under `~ReadsAcrossSessions`: a refresh that reads an
ended grant's token stores it over the live one.

**QueryRunsProofs.** `OwnInv` says of every run the cache would accept what
`OnlyOwnRows` says of the cache: its tenant is the present one and its rows are
the present operator's; and that nobody is signed in while a browser is awaited,
which is one browser at most. It gives `CacheHoldsOwnRows`. `ResultsAreNeverOlder`,
`MemosFit` and `QueuedRunIsStarted` follow from the types (no stamp is ahead of
its counter) and a short invariant each. `ScreenInv` is what each place of a run implies
for slot, stamps and screen: the slot is of the tenant unless a save is on its
way (`SlotFits`), one run at a time is in flight (`OneAtATime`), a run that has not
stored is not the slot's and one that replies is, unless a command that dropped it is
still to return (`RunsFollow`, `Owing`). It gives `TheScreenIsReadable`. None of them
has a hypothesis: runs may overlap (which `ScreenIsReadable` itself excuses), and as
many saves and sign-ins as one likes may run together.

**PagingProofs.** `ReportsWhatHappened` speaks of calls that are over.
`UnservedWhileOpen` is what makes it inductive: a call that must not be handled
twice and is still open has not been handled at all, since each attempt that
might have been handled ended it. `TruthfulInv` says the same call by call, so
that each step of a call is one lemma on a record. It gives `ReportsAreTrue`, for
any number of calls and retries and whatever the pages of a scan bring.

The same module has the proofs about two parts of the frontend. *JobBoard*: the
Jobs tab lags the store, and what makes up for the lag is in flight. `BoardInv` says so job by
job: nobody is ahead of the store (`NobodyAhead`), what has settled is settled on
the tab or an event with it is coming (`SettledComes`, `GoneComes`), and otherwise the
tab agrees or a list that replaces it is on its way (`InStep`, `Heals`); a watched dispatch
waits for something that is coming (`WatchedWaits`) and was never announced
(`WatchedOnce`). Hence `TheBoardCatchesUp` and `DispatchesAreTold`. *QueryForm*:
`FormInv` is five parts that need each other. `LocationInv`: the locations fit the
organizations, which `SetsForm` makes true of whatever it is given. `SessionInv`: the
calls of this session are counted and are for its tenant, a list that was asked for
is in or has a call (`AskedFor`), and a status that names another tenant means
nothing is in flight. `ListsInv`, `AppliedInv` and `ViewsInv`: no list is another tenant's, and the
query on screen and every view of this version were made by a form. From it
`TheFormSaysWhatItAsks`, whose second half compares two functions of a query
(`Canonical` in the frontend, `Effective` in the backend) over all queries that
forms make, and `AViewReopens`, which composes the inverses of the form's fields:
a day has one first and one last second, and either gives back the day
(`QFDayOfDate`).

**PartsProofs.** Three theorems on the two stores that queries extend while they
run. `ExploitDataIsHeld`: `HoldsWhatItFetched` is inductive with `TaskKnows`
(what a task has read of the files by each of its places) and `RestIsKnown` (a
pause from fetching is accounted for by the last check or the last failure).
`LedgerMirrors`: memory mirrors disk (`MemoryMirrorsDisk`, which the run of Parts
also satisfies and which is left out of its list). `MirrorInv` has one tenant at a time, one
commit at a time, a file read and not yet kept is still as it was read, and a
record that is written and not yet in memory mirrors the file already; the
step that needs thought is a commit that is not written, since it may only move
the time of the last merge (`UnchangedMirrors`). `TheDatesStand`: what is
owed is kept in memory, on disk and in the record a commit holds (`DateInv`),
for which one must know that a late observation, which did not see a patch that
is owed a date now, finds a later one merged already (`LateIsNotMerged`), and so
is refused; and what the cap does to a record (`RecordsAreSound`: it has at most the
cap's entries, none later than its last merge). A merge adds only later dates, so
what was dated and is still pending stays among the cap's oldest (`RebuiltKeeps`, by
`CapSpares`), and what is new is dated or finds the room taken by patches seen no
later (`Crowded`), since the cap fills the record before it drops anything (`CapFills`,
from `FirstOfOrder`: of a finite set in strict order, those with fewer than n before
them are n, or all). One hypothesis is named in the theorems, `~SwitchesMidRun`:
without it the crossing under "Ledger" in section 6 is possible. The cap may be any.

And on two stores of the app itself. *SavedSettings*: `SettingsInv` has one writer at
a time and what it writes as its own edit of the settings in memory, which the file
holds or is about to (`OneWriterAtATime`, `FileFollows`), and that what memory
holds would load as it is (`Loadable`). A launch that cannot read its file, or cannot move it
aside, is the exception that `FileFollows` names: it runs on the defaults with the file it
left still in place, until a save replaces it (`IsLeft`); and a spoilt file is in place or aside
or one that a launch left so (`SpoiltAreKnown`). It gives `SavesSurvive`, for any
number of saves, edits, crashes and launches, read or not, and `PanelSays`, where a number that a save
refuses without a word from the panel is one that the settings hold already
(`PanelNumbers`). *ResultView*: `ViewInv` says of every read in flight that still has the
newest stamp that it is of the page, order, grouping and device on screen
(`Stamped`), and of everything shown that it is of the result on screen or such a
read is in flight (`TableFit`, `OpenHeld`, `DialogFit`); while a run has stored and not landed,
only the first is asked. Hence `TheTableFits`, for any results and numbers of reads.

**ApprovalProofs, the bar.** `BarInv` of ActionBar: the override is ticked only
with the operator's consent for this dispatch (`SelectionInv`), a plan on screen
asks for what was ticked, no more (`PlanInv`), and a batch was planned without a
blocker in the world it was sent in, with each job repeating its request for its device
(`BatchInv`). `TheWindowIsHonoured`, `WhatWasMeantIsSent` and `TheBarAgrees`
hold for every window, clock, library and set of rows that the assumption allows.

**Induction over data.** What follows speaks of sequences that are filtered, folded,
cut or summed, of any length. The library's induction theorems take an operator, which
none of the installed provers can instantiate. The lemma `Induction` says the same of a
set: naturals that hold zero and with each its next are all of them. It follows from the
library's well-founded order of the naturals, and each use names a set, such as the lengths
up to which two sums agree. A recursive definition (`SumTo`, `Total`, SelectSeq, the claims
of a tick) is a CHOOSE of a function; each has a lemma that such a function exists, by
`Induction`, and from there its equation is a fact. No module declares a RECURSIVE operator.

*Paging* (PagingProofs). `HeldInv` says of each fetch and its server where the two stand.
A scan by id has exactly the rows up to its last id (`ArrayHeld`). A scan by cursor has the
rows up to where the server is, or it has asked for a page again, which the server may have
answered with the next one, and then has fewer than the server gave (`WithScan`): so the
count announced on the first page will show it. What it holds of a page that is still to be
read is part of the invariant, since the server moves when it serves and the fetch when it
hears. `WholeFeedReturned` follows for any feed, page size and budgets. The one excuse is the
property's own: an end that the server announces, with no count, before the feed ends.

*SlicedFeed* (PagingProofs). `SlicedInv`: the slices name every occupied location once
(`PlanIs`, from the greedy distribution over however many slices), so a device that did not
move is in exactly one slice, read or not. `RowsComeOnce` has the hypothesis
`MaxMoves <= 1`: one device moved while the feed is read is in two slices or in none, and
the sum then differs from the size of the whole. Two devices moved in opposite
directions cancel out in every number the code compares, and their rows are lost
and doubled: the size check cannot see it.

*RunHistory* (PartsProofs). `HistoryInv` numbers the records of the file: each line that is
not torn is the next number, up to the last record written whole, and the file starts with
the first unless it has reached its cap; who holds the lock is the one task that is trimming,
and what it will leave is still the end of the file. Hence `TheNewestAreKept`, however
many lines a crash has torn.

*JobOutcomes* (PartsProofs). `OutcomeInv`: an activity tells the truth of its run and ids are
not shared (`FeedHeld`); whatever a job's record names is its own run's, or that of a run
that could be taken for its own, and a state that came from a run is that run's (`ReportsHeld`); a tick
knows every claim of the jobs it does not look at (`TickHeld`), so that no two native jobs
have one activity (`NoneShared`). The claims within a tick are a fold over its jobs; that a job
claims nothing that one before it has claimed is an induction over the jobs. `JobsEndRight`
is for any number of jobs, runs and activities.

*RunChanges* (TenantCacheProofs). `ChangesHeld`: the files are those of the latest runs
written of their scopes, newest first (`InOrder`); a latest run without a file may have been evicted,
by the number of scopes written since or by their sizes (`FilesHeld`); the copy held is of
the last run saved of its scope, but for the one being saved (`MemoryHeld`). A file past a limit
of size is where sums are compared: the sizes of the files before it are at most those
of all the runs written since (`PastALimit`), as the files are a selection of these runs.
What a run tells is compared with the rows by a bijection between the keys and the needs
(`AsManyNeeds`). `RunsReportWhatMoved` has two hypotheses. `~RunsOverlap`: no run starts
before the last one's save has ended, as the frontend's guard has it (the instance
of Parts has it too). `KeysTellNeeds`: two rows of the fleets have one patch key exactly when they are
one need. Where NinjaOne spells one need by two keys the counts differ from what moved, and no code
could tell.

*Only model-checked.* The liveness of both refinements and of Paging (`KeepsPromise`,
`KeepsTrail`, `FetchesEnd`), since liveness under fairness and ENABLED are out of
the prover's reach. `FiguresAgree`, which compares some fifteen sums, groupings and sorts of
one answer with each other: every one is a function of the data alone, made in one step, and what
is uncertain is whether these functions agree, which the run asks of every pair of records
in its fleets; a proof would need a theory of sums over partitions, of sorting and of
paging, for which the library has nothing. And `PartsTypeOK`, a conjunction over the parts of a composition that
exists for the run alone; each proof above has the types it needs of its part in its
invariant.


## 5. Findings

1. *ApprovalMidSave* (`commands/settings.rs:304`). `save_settings` publishes the
   tenant, applies it to AuthState, and only then bumps the job epoch. A session
   sampled in between pairs the new tenant with the epoch in force, and is
   accepted; the comment on `job_session` has that pair stale either way.
2. *AuthSignOut* (`auth.rs:710`). Between a sign-out's new session number and
   its delete, a refresh finds the saved token under the new number, and
   stores the ended grant again.
3. *AuthSwitch* (`auth.rs:895`). A reply that rotated the token arrives after a
   switch, and is dropped: the previous tenant keeps a spent token.
4. *FormSwitch* (`web-rs/src/app.rs:164`). A save that moves to an instance whose
   sign-in the keyring still holds empties the lists behind the pickers. The
   status read after it says signed in, as before, and the effect that loads the lists is
   keyed on that changing: the pickers stay empty. It came up as a proof that failed:
   "a session that is signed in and waits for nothing has its lists" is not
   inductive, and with a saved sign-in in the instance TLC shows why.

Each is stated with the text it contradicts in `PROJECT.json`.


## 6. Observations

What the models showed besides, or had to be told to leave aside. Each is a case that a property excuses or
a constant shuts out.

*Reads.* An empty body in the middle of a scan ends a fetch with what it has
(`api/paging.rs:501`); `lied` excuses it. Two devices that change places while the
software feed is read in slices (`MaxMoves = 2`) can leave one out and one
twice with the sums unchanged.

*Queries.* A sign-out, sign-in or save that fails has emptied the result cache;
the frontend shows the error and keeps the table (`web-rs/src/app/header.rs:79`),
though `docs/design/query-cache.md:114` has the frontend cleared by each of them.
`ScreenIsReadable` excuses it (`stranded`); without that excuse TLC finds a sign-out
whose keyring delete fails.

*Ledger, history, exploit data.* With `SwitchesMidRun = TRUE` a query that
loads a ledger can put it over that of a tenant switched to meanwhile, and a
commit then misses dates (`first_seen.rs:238-239, 302`). A second copy of the
app can trim away what the first appends; a torn line may end in the middle of
a character (`history.rs:355-363`). A refresh that failed for some months counts
as checked after a restart.

*Answers.* A current record with a status the code does not know counts as
pending in every figure but is shown by no selection of statuses.

*Actions.* The audit label is read from the settings after the re-plan's awaits,
not from the session (`commands/actions/mod.rs:234`). A retry of a remediation
uses the script that Settings names by then. In JobOutcomes: a clear or trim
drops the activity ids that settled jobs had claimed, so that a pending job of
the kind may take one of them; a job bound by series or id only after another
job guessed can share that one's activity; a job whose returned activity id is not yet in
the feed falls back to the guess. `JobsEndAsTheirRuns` excuses these as rivals
(`HasRival`), and asks of native jobs alone that they never share an activity.

*Changes.* With `RunsOverlap = TRUE` the memory of the last saved run can be
older than its file (`changes.rs:629`); the frontend does not overlap runs.

*Settings.* The doc of `load_or_recover` (`settings.rs:391-393`) has an unparseable file
survive and the defaults never overwrite it. One that cannot be moved aside (429-433)
stays in place under the defaults, as does any that cannot be read (408-417), whole or
not, and the next save of anything renames them over it. `AnsweredSavesSurvive` claims no
more than the code keeps: only a file that a launch could not read or move is lost. With
its last conjunct as the doc has it (`spoilt = aside \union InPlace`) TLC finds the trace:
the file is spoilt, a launch leaves it, a preset is saved. The reply of a save overwrites what was typed
meanwhile; clearing the stored secret saves the form's unsaved edits too; every
save resets the query's days of install history.

*Form.* A tenant switched by clearing the stored secret does not refresh the
auth status (`web-rs/src/app/settings.rs:64-72`): the host in use stays the old
one, and a link of the old tenant applies without its confirmation. A preset's
OS type that the fleet does not list is asked for and has no chip. A form
without a status reopens as PENDING.

*Table.* A drill-down that is refused while a later page is shown sets the page
to the first over the rows of the old one (`state/query.rs:401-407`). Opening a
view changes the grouping without a new stamp (`view_link.rs:126-131`): when its
run fails, a header read of the old grouping can land under the new one. Rows
ticked between a silent landing and the read of its page are not pruned.

*Jobs tab.* A list reply computed before a job settled and landing after shows
it running until something else moves it; `clear_job_history` compares no epoch;
an event sent after Clear finished brings a cleared row back; a reply of
`run_action` that lands after the end of a session adds its rows; a batch that
settles before its own reply lands is announced only at a later merge.


## 7. What the models leave out

- *Export and reports* (`export.rs`, `report.rs`, `csv_export.rs`): formatting of a
  finished result; they hold no state, and what they read is the result of
  QueryRuns and Answers. *Shell*: window placement, logs, the update check.
  *Demo fixtures*: sample data that never reaches the backend. *Remediation
  scripts* run on the device, outside of the program.
- AuthGrant: the client secret, the scope, entries older than tenant scoping.
  A cancelled caller may drop a rotated token; `LiveGrantIsKept` excuses the
  grants to which that, or a failed keyring write, has happened.
- Session and Approval: the two reads of `job_session` are one; the epoch of a
  pair they could differ by is stale, or the later pair.
- ActionJobs: a closing record counts as written when it is handed to the
  thread that writes it. The audit file's rotation and sync are left out.
- QueryRuns: `begin_query`'s three reads are one, for the same reason; one query
  scope; no poisoned cache; the wake-up between re-authorization's logout and
  its sign-in. `ScreenIsReadable` is excused once runs have overlapped, which the
  frontend's guard prevents; `OnlyOwnRows` is excused for a run begun between the two halves
  of a sign-out.
- Rows: percentages, wording, the reboot and exposure summaries, the CSV tables;
  the trend over the history. A date is an age in days.
- Exploits: the parsing of the feeds and the match of a CVE to a patch.
- RunChanges: the deltas per organization and the cells of the table.
- QueryForm: texts beyond 200 characters and ids beyond 1000, which a link cuts,
  and bounds that are no dates, which it drops; a status that turns to signed out
  when a refresh fails under the same tenant, and the second load that follows.
- ResultView: runs across the end of a session, which are QueryRuns'.
- JobBoard: the trim of the store, which is ActionJobs'.


## 8. Plan

The order was: the promise every read rests on (TenantCache), the path that
acts on devices (Session, Approval, ActionJobs), the credentials under both
(AuthGrant), the path of every query (QueryRuns), the client under it all
(Requests, Paging), and the parts. Left:

1. Proofs: `FiguresAgree`, pass by pass, from a theory of sums over partitions; and
   RunChanges without `~RunsOverlap`, where a snapshot of an older run may be written last.
   The lemmas of Session are to be shared by whatever extends it.
2. The refresh clock of the frontend, the audit file's rotation, and the
   migration of old keyring entries.
