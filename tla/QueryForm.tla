----------------------------- MODULE QueryForm -----------------------------
(***************************************************************************)
(* The filters on screen (web-rs/src/app/state.rs FilterState, filters.rs, *)
(* util/filters.rs): the lists behind the pickers, which arrive in any     *)
(* order and belong to a session, the drill-downs, the presets, the view   *)
(* links (state/view_link.rs, util/view_link.rs) and the query that all of *)
(* them make, with what the backend makes of that query                    *)
(* (src-tauri/src/filter.rs, commands/patches.rs).                         *)
(*                                                                         *)
(* Device groups stand for the roles too, severities and the search text   *)
(* for the facets that are carried as they are (OS type, OS name, patch    *)
(* type, known exploited); the chips beside the results (snapshot_filters) *)
(* are left out.  A preset or a link is a record: what base64 and JSON     *)
(* carry is what they are given.                                           *)
(***************************************************************************)
EXTENDS Integers, FiniteSets

CONSTANTS Tenants, FirstTenant,
          OrgsOf,          \* by tenant: the organizations it lists
          LocationsOf,     \* by tenant: [id, org], org 0 when it has none
          GroupsOf,        \* by tenant: the device groups
          Texts,           \* what can be typed in the search box, or saved of it
          Dates,           \* and in a date input
          TypedDays,       \* and for the install window
          OldPresets,      \* the presets in the file, "old" ones of an earlier version
          OldLinks,        \* the links that exist, of this app and others
          OtherWords,      \* the severities and statuses of links of other versions
          SavedSignIns,    \* the tenants this machine holds a sign-in of
          DaySeconds, TimeNow,
          MaxSessions,     \* bound: the sessions begun
          MaxFormSteps     \* bound: the controls, presets, links and saves used

VARIABLES form,        \* FilterState
          listed,      \* LookupState: orgs, groups, all (or NotLoaded) and offered
          loading,     \* LookupState.lookups_pending
          replies,     \* the lookup calls in flight
          epoch,       \* SessionState.epoch
          tenant,      \* the one the backend is on
          shownAuth,   \* SessionState.auth: signed in or not, and the tenant it names
          lastLoad,    \* "none" since the lists were cleared, "asked", or "failed" when a
                       \* call of it did: for the property
          grants,      \* the tenants with a sign-in, in memory or in the keyring
          copies,      \* the presets and the links that exist
          pendingView, \* a link of another instance, held for confirmation
          applied,     \* QueryState.applied_args
          formSteps

formVars == <<form, listed, loading, replies, epoch, tenant, shownAuth, lastLoad, grants, copies,
              pendingView, applied, formSteps>>
sessionVars == <<loading, replies, epoch, tenant, shownAuth, lastLoad, grants>>

Unset == -1                \* no date, no bound, no number
AnyTime == 0
CustomSeen == -2
SeenWindows == {7}         \* stands for 1, 7, 30 and 90
NotLoaded == {[id |-> Unset, org |-> Unset]}
NoView == [kind |-> "none"]
NoQuery == [statuses |-> {}]
ListNames == {"orgs", "groups", "locations"}

DefaultForm ==
    [orgs |-> {}, locs |-> {}, groups |-> {}, severities |-> {}, text |-> "", statuses |-> {"PENDING"},
     window |-> AnyTime, seenAfter |-> Unset, seenBefore |-> Unset,
     days |-> 30, custom |-> FALSE, from |-> Unset, to |-> Unset]

NothingListed == [orgs |-> {}, groups |-> {}, all |-> NotLoaded, offered |-> {}]

-----------------------------------------------------------------------------
(* What a form, a filter and a saved or copied view can be.                *)

Ids == Nat \ {0}
Times == Nat \union {Unset}
PatchStatuses == {"PENDING", "INSTALLED", "FAILED"}

Forms ==
    [orgs : SUBSET Ids, locs : SUBSET Ids, groups : SUBSET Ids, severities : SUBSET {"CRITICAL"},
     text : Texts, statuses : (SUBSET PatchStatuses) \ {{}},
     window : {AnyTime, CustomSeen} \union SeenWindows, seenAfter : Times, seenBefore : Times,
     days : Ids, custom : BOOLEAN, from : Times, to : Times]

\* What a link of another version can hold, and what this form can ask for.
AnyFilters ==
    [orgs : SUBSET Int, locs : SUBSET Int, groups : SUBSET Int,
     severities : SUBSET ({"CRITICAL"} \union OtherWords), text : Texts,
     within : Int, seenAfter : Times, seenBefore : Times, from : Times, to : Times]
Filters ==
    [orgs : SUBSET Ids, locs : SUBSET Ids, groups : SUBSET Ids, severities : SUBSET {"CRITICAL"}, text : Texts,
     within : SeenWindows \union {Unset}, seenAfter : Times, seenBefore : Times, from : Times, to : Times]
FormQueries == [filter : Filters, statuses : (SUBSET PatchStatuses) \ {{}}, days : Ids]

Views ==
    [kind : {"preset", "old", "link"}, host : Tenants, filter : AnyFilters,
     statuses : SUBSET (PatchStatuses \union OtherWords), days : Int, meant : FormQueries \union {NoQuery}]

StartOfDay(d) == IF d = Unset THEN Unset ELSE d * DaySeconds
EndOfDay(d)   == IF d = Unset THEN Unset ELSE d * DaySeconds + DaySeconds - 1
DayOf(e)      == IF e = Unset THEN Unset ELSE e \div DaySeconds

\* The filter of a query that some form made.
IsAsked(filter) ==
    /\ filter \in Filters
    /\ filter.seenAfter = StartOfDay(DayOf(filter.seenAfter))
    /\ filter.seenBefore = EndOfDay(DayOf(filter.seenBefore))
    /\ filter.from = StartOfDay(DayOf(filter.from))
    /\ filter.to = EndOfDay(DayOf(filter.to))
    /\ filter.within # Unset => filter.seenAfter = Unset /\ filter.seenBefore = Unset

IsView(c) ==
    /\ c \in Views
    /\ c.kind # "link" => c.filter \in Filters
    /\ c.kind = "preset" => c.statuses \in (SUBSET PatchStatuses) \ {{}} /\ c.days \in Ids
    /\ c.meant # NoQuery =>
        c.meant = [filter |-> c.filter, statuses |-> c.statuses, days |-> c.days] /\ IsAsked(c.filter)

ASSUME FormAssumption ==
    /\ FirstTenant \in Tenants /\ TimeNow \in Int /\ DaySeconds \in Ids /\ MaxSessions \in Nat
    /\ OrgsOf \in [Tenants -> SUBSET Ids] /\ GroupsOf \in [Tenants -> SUBSET Ids]
    /\ LocationsOf \in [Tenants -> SUBSET [id : Ids, org : Nat]]
    /\ "" \in Texts /\ Dates \subseteq Times /\ TypedDays \subseteq Ids
    /\ \A c \in OldPresets \union OldLinks : IsView(c)

QueryFormInit ==
    /\ form = DefaultForm
    /\ listed = NothingListed
    /\ loading = 0
    /\ replies = {}
    /\ epoch = 0
    /\ tenant = FirstTenant
    /\ shownAuth = [authed |-> FALSE, tenant |-> FirstTenant]
    /\ lastLoad = "none"
    /\ grants = SavedSignIns
    /\ copies \in SUBSET (OldPresets \union OldLinks)
    /\ pendingView = NoView
    /\ applied = NoQuery
    /\ formSteps = 0

-----------------------------------------------------------------------------
(* What the controls ask for.                                              *)

\* filter_params
FilterOf(f) ==
    [orgs |-> f.orgs, locs |-> f.locs, groups |-> f.groups, severities |-> f.severities, text |-> f.text,
     within     |-> IF f.window \in SeenWindows THEN f.window ELSE Unset,
     seenAfter  |-> IF f.window = CustomSeen THEN StartOfDay(f.seenAfter) ELSE Unset,
     seenBefore |-> IF f.window = CustomSeen THEN EndOfDay(f.seenBefore) ELSE Unset,
     from       |-> IF f.custom THEN StartOfDay(f.from) ELSE Unset,
     to         |-> IF f.custom THEN EndOfDay(f.to) ELSE Unset]

\* query_args
QueryOf(f) == [filter |-> FilterOf(f), statuses |-> f.statuses, days |-> f.days]

\* Mutant of NeedsInstallWindow: failures are not bounded by the window.
NeedsInstallWindowInstalled(statuses) == "INSTALLED" \in statuses
NeedsInstallWindow(statuses) == statuses \intersect {"INSTALLED", "FAILED"} # {}

\* canonical_query: the multi-selects are sets here, so that nothing is left to sort.
Canonical(q) ==
    IF ~NeedsInstallWindow(q.statuses)
    THEN [q EXCEPT !.days = Unset, !.filter.from = Unset, !.filter.to = Unset]
    ELSE IF q.filter.from # Unset THEN [q EXCEPT !.days = Unset] ELSE q

FiltersChanged(live) == applied # NoQuery /\ Canonical(applied) # Canonical(live)

-----------------------------------------------------------------------------
(* What the backend makes of a query: query_patches and QueryPlan::build.  *)

IsInstallHistory(status) == status \in {"INSTALLED", "FAILED"}
WantsInstalls(q) == \E s \in q.statuses : IsInstallHistory(s)

\* FilterParams::install_range; the longest span is out of reach of these dates.
RangeIsRefused(filter) ==
    \/ filter.from = Unset /\ filter.to # Unset
    \/ filter.from # Unset /\ filter.from > TimeNow
    \/ filter.from # Unset /\ filter.to # Unset /\ filter.to < filter.from

Refuses(q) == q.statuses = {} \/ (WantsInstalls(q) /\ RangeIsRefused(q.filter))

\* The scope, the first-seen bounds and the install window that the rows are built from. A
\* window that ends when the query is run is named by its length.
Effective(q) ==
    [scope |-> <<q.filter.orgs, q.filter.locs, q.filter.groups, q.filter.severities, q.filter.text>>,
     statuses |-> q.statuses,
     seen |-> <<IF q.filter.within # Unset THEN <<"last", q.filter.within>> ELSE <<"since", q.filter.seenAfter>>,
                q.filter.seenBefore>>,
     installs |-> IF ~WantsInstalls(q) THEN <<"none">>
                  ELSE IF q.filter.from # Unset THEN <<"range", q.filter.from, q.filter.to>>
                  ELSE <<"last", q.days>>,
     refused |-> Refuses(q)]

-----------------------------------------------------------------------------
(* The pickers.                                                            *)

\* locations_for
LocationsFor(all, orgs) == {l \in all : orgs = {} \/ l.org \in orgs}
IdsOf(locations) == {l.id : l \in locations}
Toggled(ids, id) == IF id \in ids THEN ids \ {id} ELSE ids \union {id}

\* scope_locations and load_locations: the list under the organizations of the form, and
\* the selection pruned to it once there is one.
OfferedUnder(f, l) == IF l.all = NotLoaded THEN {} ELSE LocationsFor(l.all, f.orgs)
WithLocations(f, l) ==
    IF l.all = NotLoaded THEN f ELSE [f EXCEPT !.locs = @ \intersect IdsOf(OfferedUnder(f, l))]

SetsForm(f, l) ==
    /\ form' = WithLocations(f, l)
    /\ listed' = [l EXCEPT !.offered = OfferedUnder(f, l)]

UsesControl == formSteps < MaxFormSteps /\ formSteps' = formSteps + 1

\* toggle_org and clear_orgs. The pickers are disabled while the lists load.
PicksOrganizations ==
    /\ UsesControl /\ loading = 0 /\ listed.orgs # {}
    /\ \E orgs \in {Toggled(form.orgs, o) : o \in listed.orgs} \union {{}} :
        /\ orgs # form.orgs
        /\ SetsForm([form EXCEPT !.orgs = orgs], listed)
    /\ UNCHANGED <<sessionVars, copies, pendingView, applied>>

\* install_range_problem only warns beside the control.
Edited1(f) ==
    {[f EXCEPT !.statuses = Toggled(@, s)] : s \in {"PENDING", "INSTALLED", "FAILED"}}
    \union {[f EXCEPT !.severities = Toggled(@, "CRITICAL")]}
    \union {[f EXCEPT !.text = t] : t \in Texts}
    \union {[f EXCEPT !.window = w] : w \in {AnyTime, CustomSeen} \union SeenWindows}

\* Controls that are only there in some states of the others.
Edited2(f) ==
    (IF f.window # CustomSeen THEN {}
     ELSE {[f EXCEPT !.seenAfter = d] : d \in Dates} \union {[f EXCEPT !.seenBefore = d] : d \in Dates})
    \union (IF ~NeedsInstallWindow(f.statuses) THEN {}
            ELSE {[f EXCEPT !.custom = ~@]}
                 \union (IF f.custom
                         THEN {[f EXCEPT !.from = d] : d \in Dates} \union {[f EXCEPT !.to = d] : d \in Dates}
                         ELSE {[f EXCEPT !.days = d] : d \in TypedDays}))
    \union (IF loading > 0 THEN {}
            ELSE {[f EXCEPT !.locs = Toggled(@, i)] : i \in IdsOf(listed.offered)}
                 \union {[f EXCEPT !.groups = Toggled(@, g)] : g \in listed.groups})

\* The last status cannot be unticked.
EditsFilter ==
    /\ UsesControl
    /\ form' \in {f \in Edited1(form) \union Edited2(form) : f # form /\ f.statuses # {}}
    /\ UNCHANGED <<sessionVars, listed, copies, pendingView, applied>>

-----------------------------------------------------------------------------
(* Runs.  QueryRuns has the order in which they land; here one lands at    *)
(* once, and what the backend refuses leaves what is on screen.            *)

AppliedAfter(f) == IF shownAuth.authed /\ ~Refuses(QueryOf(f)) THEN QueryOf(f) ELSE applied

RunsForm ==
    /\ UsesControl
    /\ applied' = AppliedAfter(form) /\ applied' # applied
    /\ UNCHANGED <<sessionVars, form, listed, copies, pendingView>>

\* drill_to_org, drill_to_severity, drill_to_patch and include_status_and_run. The rows
\* and figures they are clicked on are those of a run.
DrillsDown ==
    /\ UsesControl /\ applied # NoQuery
    /\ \E f \in {[form EXCEPT !.orgs = {o}] : o \in listed.orgs}
                \union {[form EXCEPT !.severities = {"CRITICAL"}]}
                \union {[form EXCEPT !.text = t] : t \in Texts \ {""}}
                \union {[form EXCEPT !.statuses = @ \union {"FAILED"}]} :
        /\ SetsForm(f, listed)
        /\ applied' = AppliedAfter(form')
    /\ UNCHANGED <<sessionVars, copies, pendingView>>

-----------------------------------------------------------------------------
(* Presets and links.                                                      *)

Copy(kind) ==
    [kind |-> kind, host |-> shownAuth.tenant, filter |-> FilterOf(form), statuses |-> form.statuses,
     days |-> form.days, meant |-> QueryOf(form)]

\* save_preset of the presets menu, copy_view_link.
SavesPresetOrCopiesLink ==
    /\ UsesControl
    /\ \E kind \in {"preset", "link"} : copies' = copies \union {Copy(kind)} /\ copies' # copies
    /\ UNCHANGED <<sessionVars, form, listed, pendingView, applied>>

\* detected_window_fields
WithSeen(f, filter) ==
    IF filter.within # Unset
    THEN [f EXCEPT !.window = filter.within, !.seenAfter = Unset, !.seenBefore = Unset]
    ELSE [f EXCEPT !.window = IF filter.seenAfter = Unset /\ filter.seenBefore = Unset THEN AnyTime ELSE CustomSeen,
                   !.seenAfter = DayOf(filter.seenAfter), !.seenBefore = DayOf(filter.seenBefore)]

\* Mutant of WithInstalls: a range left in the form stays when there is none to restore.
WithInstallsIfAny(f, filter) ==
    IF filter.from = Unset /\ filter.to = Unset THEN f
    ELSE [f EXCEPT !.custom = TRUE, !.from = DayOf(filter.from), !.to = DayOf(filter.to)]

\* install_window_fields
WithInstalls(f, filter) ==
    [f EXCEPT !.custom = filter.from # Unset \/ filter.to # Unset,
              !.from = DayOf(filter.from), !.to = DayOf(filter.to)]

\* apply_preset, before the locations: what an earlier version did not save stays.
Restored(f, c) ==
    WithInstalls(WithSeen([f EXCEPT
        !.orgs = c.filter.orgs, !.locs = c.filter.locs, !.groups = c.filter.groups,
        !.severities = c.filter.severities, !.text = c.filter.text,
        !.statuses = IF c.kind = "old" THEN @ ELSE c.statuses,
        !.days = IF c.kind = "old" THEN @ ELSE c.days], c.filter), c.filter)

\* validate
CleanIds(ids) == {i \in ids : i > 0}
Validated(c) ==
    [c EXCEPT !.filter.orgs = CleanIds(@), !.filter.locs = CleanIds(@), !.filter.groups = CleanIds(@),
              !.filter.severities = @ \intersect {"CRITICAL"},
              !.filter.within = IF @ \in SeenWindows THEN @ ELSE Unset,
              !.statuses = LET known == @ \intersect {"PENDING", "INSTALLED", "FAILED"}
                           IN  IF known = {} THEN {"PENDING"} ELSE known,
              !.days = IF @ = 0 THEN 30 ELSE IF @ < 1 THEN 1 ELSE @]

\* prune_unknown_ids: an empty list has not been loaded.
PruneUnknown(ids, known) == IF known = {} THEN ids ELSE ids \intersect known
WithoutUnknown(filter) == [filter EXCEPT !.orgs = PruneUnknown(@, listed.orgs), !.groups = PruneUnknown(@, listed.groups)]

AppliesPreset ==
    /\ UsesControl
    /\ \E c \in copies : c.kind \in {"preset", "old"} /\ SetsForm(Restored(form, c), listed)
    /\ form' # form
    /\ UNCHANGED <<sessionVars, copies, pendingView, applied>>

\* apply_view
Opened(c) == LET v == Validated(c) IN Restored(form, [v EXCEPT !.filter = WithoutUnknown(@)])
AppliesView(c) ==
    /\ SetsForm(Opened(c), listed)
    /\ pendingView' = NoView
    /\ applied' = AppliedAfter(form')
    /\ UNCHANGED <<sessionVars, copies>>

\* open_view_link: the auth status says where this app is.
OpensLink ==
    \E c \in copies :
        /\ UsesControl
        /\ c.kind = "link"
        /\ \/ c.host = shownAuth.tenant /\ AppliesView(c)
           \/ /\ c.host # shownAuth.tenant /\ pendingView' = c /\ pendingView' # pendingView
              /\ UNCHANGED <<sessionVars, form, listed, copies, applied>>

AnswersPendingView ==
    /\ pendingView # NoView
    /\ UNCHANGED formSteps
    /\ \/ AppliesView(pendingView)
       \/ pendingView' = NoView /\ UNCHANGED <<sessionVars, form, listed, copies, applied>>

-----------------------------------------------------------------------------
(* Sessions and the lists.                                                 *)

\* load_lookups: a call for each list, stamped with the epoch.
LoadsLookups(t, e) ==
    /\ loading' = Cardinality(ListNames)
    /\ replies' = replies \union {[list |-> n, epoch |-> e, of |-> t] : n \in ListNames}
    /\ lastLoad' = "asked"

\* clear_session, whose results are the applied query here.
ClearsSession == epoch < MaxSessions /\ epoch' = epoch + 1 /\ applied' = NoQuery

\* Mutant of ReloadsInFlight: the lists are loaded off the auth status alone.
ReloadsNothing == /\ loading' = 0
                  /\ UNCHANGED <<replies, lastLoad>>

\* clear_session_and_reload: the status may not turn, so that what was in flight is asked
\* for again.
ReloadsInFlight ==
    IF loading > 0 THEN LoadsLookups(tenant, epoch') ELSE loading' = 0 /\ UNCHANGED <<replies, lastLoad>>

\* sign_in, and the status that is read after it: the effect on the status loads the lists
\* when it turns. One whose status had turned before the reply is as Reauthorizes.
SignsIn ==
    /\ ~shownAuth.authed
    /\ ClearsSession
    /\ LoadsLookups(tenant, epoch')
    /\ shownAuth' = [authed |-> TRUE, tenant |-> tenant]
    /\ grants' = grants \union {tenant}
    /\ UNCHANGED <<form, listed, tenant, copies, pendingView, formSteps>>

\* reauthorize, for the tenant the backend is on, whatever the status last said.
Reauthorizes ==
    /\ shownAuth.authed
    /\ ClearsSession
    /\ ReloadsInFlight
    /\ shownAuth' = [authed |-> TRUE, tenant |-> tenant]
    /\ grants' = grants \union {tenant}
    /\ UNCHANGED <<form, listed, tenant, copies, pendingView, formSteps>>

SignsOut ==
    /\ shownAuth.authed
    /\ ClearsSession
    /\ loading' = 0
    /\ shownAuth' = [authed |-> FALSE, tenant |-> tenant]
    /\ grants' = grants \ {tenant}
    /\ UNCHANGED <<form, listed, replies, tenant, lastLoad, copies, pendingView, formSteps>>

\* refresh_auth, at the launch and after Save: auth_status reuses a sign-in the machine
\* holds (restore_session), or cannot. The effect is on what becomes of authenticated. Left
\* out: a status that turns from signed in to signed out of the same tenant, when a refresh
\* fails, and the second load it leads to.
ReadsStatus ==
    \E authed \in BOOLEAN :
        /\ authed => tenant \in grants
        /\ ~shownAuth.authed \/ shownAuth.tenant # tenant
        /\ shownAuth' = [authed |-> authed, tenant |-> tenant] /\ shownAuth' # shownAuth
        /\ IF authed /\ ~shownAuth.authed THEN LoadsLookups(tenant, epoch)
           ELSE UNCHANGED <<loading, replies, lastLoad>>
        /\ UNCHANGED <<form, listed, epoch, tenant, grants, copies, pendingView, applied, formSteps>>

\* apply_settings_view: every save of the settings sets the install window.
SavesSettings ==
    /\ UsesControl
    /\ \E d \in TypedDays : form' = [form EXCEPT !.days = d]
    /\ form' # form
    /\ UNCHANGED <<sessionVars, listed, copies, pendingView, applied>>

\* apply_settings_view of a save that moved the tenant. The status is read again after
\* Save, and not after Clear stored secret.
SwitchesTenant ==
    /\ ClearsSession
    /\ loading' = 0
    /\ tenant' \in Tenants \ {tenant}
    /\ form' = [form EXCEPT !.orgs = {}, !.locs = {}, !.groups = {}, !.days = 30]
    /\ listed' = NothingListed
    /\ lastLoad' = "none"
    /\ UNCHANGED <<replies, shownAuth, grants, copies, pendingView, formSteps>>

\* Mutant of ListsWith: the locations are kept for the pickers to derive from.
ListsWithRaw(r) ==
    CASE r.list = "orgs"      -> UNCHANGED form /\ listed' = [listed EXCEPT !.orgs = OrgsOf[r.of]]
      [] r.list = "groups"    -> UNCHANGED form /\ listed' = [listed EXCEPT !.groups = GroupsOf[r.of]]
      [] r.list = "locations" -> UNCHANGED form /\ listed' = [listed EXCEPT !.all = LocationsOf[r.of]]

\* What a reply that came in time sets.
ListsWith(r) ==
    CASE r.list = "orgs"      -> UNCHANGED form /\ listed' = [listed EXCEPT !.orgs = OrgsOf[r.of]]
      [] r.list = "groups"    -> UNCHANGED form /\ listed' = [listed EXCEPT !.groups = GroupsOf[r.of]]
      [] r.list = "locations" -> SetsForm(form, [listed EXCEPT !.all = LocationsOf[r.of]])

\* A reply of a session that has ended is dropped, and does not count itself done.
LookupReplies ==
    \E r \in replies :
        /\ replies' = replies \ {r}
        /\ IF r.epoch # epoch THEN UNCHANGED <<form, listed, loading, lastLoad>>
           ELSE /\ loading' = IF loading > 0 THEN loading - 1 ELSE 0
                /\ \/ ListsWith(r) /\ UNCHANGED lastLoad
                   \/ lastLoad' = "failed" /\ UNCHANGED <<form, listed>>
        /\ UNCHANGED <<epoch, tenant, shownAuth, grants, copies, pendingView, applied, formSteps>>

QueryFormNext ==
    \/ PicksOrganizations \/ EditsFilter \/ RunsForm \/ DrillsDown \/ SavesPresetOrCopiesLink
    \/ AppliesPreset \/ OpensLink \/ AnswersPendingView
    \/ SignsIn \/ Reauthorizes \/ SignsOut \/ ReadsStatus \/ SavesSettings \/ SwitchesTenant \/ LookupReplies

QueryFormSpec == QueryFormInit /\ [][QueryFormNext]_formVars

-----------------------------------------------------------------------------
(* Properties.                                                             *)

QueryFormTypeOK ==
    /\ form \in Forms /\ applied \in FormQueries \union {NoQuery}
    /\ listed \in [orgs : SUBSET Ids, groups : SUBSET Ids,
                   all : (SUBSET [id : Ids, org : Nat]) \union {NotLoaded}, offered : SUBSET [id : Ids, org : Nat]]
    /\ loading \in 0..Cardinality(ListNames) /\ epoch \in 0..MaxSessions /\ tenant \in Tenants
    /\ replies \subseteq [list : ListNames, epoch : 0..MaxSessions, of : Tenants]
    /\ shownAuth \in [authed : BOOLEAN, tenant : Tenants] /\ lastLoad \in {"none", "asked", "failed"}
    /\ \A c \in copies : IsView(c)
    /\ pendingView # NoView => IsView(pendingView) /\ pendingView.kind = "link"

AllListed ==
    listed.orgs = OrgsOf[tenant] /\ listed.groups = GroupsOf[tenant] /\ listed.all = LocationsOf[tenant]

\* Once the locations are in, the list shown is the one under the selected organizations
\* and no location is selected that it does not show, whatever order lists, picks,
\* drill-downs, presets and links came in; no list is another tenant's; and a session that
\* asked for its lists and waits for nothing has them, unless one of its calls failed
\* (load_lookups, scope_locations, clear_session_and_reload).
NoHiddenLocation ==
    /\ listed.all # NotLoaded =>
        listed.offered = LocationsFor(listed.all, form.orgs) /\ form.locs \subseteq IdsOf(listed.offered)
    /\ listed.orgs \in {{}, OrgsOf[tenant]} /\ listed.groups \in {{}, GroupsOf[tenant]}
    /\ listed.all \in {NotLoaded, LocationsOf[tenant]}
    /\ shownAuth.authed /\ loading = 0 /\ lastLoad = "asked" => AllListed

\* What the comment on the effects of App promises, that they "load what a session needs
\* whenever the auth status becomes the state that needs it" (app.rs:158-163): an app that
\* says it is signed in to the tenant it is on, and waits for nothing, has the lists.
SignedInHasItsLists ==
    shownAuth = [authed |-> TRUE, tenant |-> tenant] /\ loading = 0 /\ lastLoad # "failed" => AllListed

\* What a saved or copied view asked for, with the ids that are not listed here dropped:
\* the locations by both, the rest by a link.
Meant(c) ==
    LET filter == IF c.kind = "link" THEN WithoutUnknown(c.meant.filter) ELSE c.meant.filter
        meant == [c.meant EXCEPT !.filter = filter]
    IN  IF listed.all = NotLoaded THEN meant
        ELSE [meant EXCEPT !.filter.locs = @ \intersect IdsOf(LocationsFor(listed.all, filter.orgs))]

\* A preset or a link made from this form asks for the same query when it is applied, on
\* whatever form it finds, the hidden controls of that form included (apply_preset,
\* apply_view as inverses of filter_params). A form without a status is not one.
ViewReopens ==
    \A c \in copies : c.kind \in {"preset", "link"} /\ c.meant # NoQuery =>
        LET f == IF c.kind = "link" THEN Opened(c) ELSE Restored(form, c)
        IN  Canonical(QueryOf(WithLocations(f, listed))) = Canonical(Meant(c))

\* "Filters changed" is shown exactly when the backend would make something else of the
\* form than of the query on screen (filters_changed against QueryPlan::build).
ChangedMeansDifferent ==
    applied # NoQuery => (FiltersChanged(QueryOf(form)) <=> Effective(applied) # Effective(QueryOf(form)))

\* The form asks for no location that its picker does not show, and says so when what it
\* asks for is no longer what the screen answers (state/lookups.rs, util/filters.rs). Of OS
\* types it may: a preset's that the lists do not have is asked for without a chip.
FormSaysWhatItAsks == NoHiddenLocation /\ ChangedMeansDifferent
=============================================================================
