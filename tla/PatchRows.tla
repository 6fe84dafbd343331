------------------------------ MODULE PatchRows ------------------------------
(***************************************************************************)
(* What a query makes of what it fetched: the devices in its scope, the    *)
(* current patches with the time each is aged from, and the rows of the    *)
(* table (src-tauri/src/filter.rs, model.rs, rows/join.rs, rows/record.rs  *)
(* and assemble_result in commands/patches.rs).                            *)
(*                                                                         *)
(* An answer is everything one assembly reads: the fleet, the feeds and    *)
(* the query. Times are ages in days. Names are numbers, so that they have *)
(* an order; 0 is the name of what is not known.                           *)
(***************************************************************************)
EXTENDS Integers, Sequences, FiniteSets

CONSTANTS Known,      \* the devices of the inventory
          Severity    \* ranks, of 0..7: Unknown to Critical

ASSUME RowsAssumption == Known \subseteq Nat \ {0} /\ Severity \subseteq 0..7

Never == -1          \* no date
Orphan == 0          \* ORPHAN_DEVICE_ID: a record without a device
NoStatus == "none"
NoProduct == 0

Urgent == {s \in Severity : s >= 5}
InstallHistory == {"INSTALLED", "FAILED"}

\* The records of s that pass Test, and their number.
Those(s, Test(_)) == SelectSeq(s, Test)
Count(s, Test(_)) == Len(SelectSeq(s, Test))

\* A stable sort by a strict weak order.
Arranged(s, Before(_, _)) ==
    LET Rank(i) == Cardinality({j \in DOMAIN s :
                      \/ Before(s[j], s[i])
                      \/ j <= i /\ ~Before(s[i], s[j])})
    IN  [k \in DOMAIN s |-> s[CHOOSE i \in DOMAIN s : Rank(i) = k]]

-----------------------------------------------------------------------------
(* The scope.                                                              *)

\* has_identity_scope: of the facets that choose devices.
HasScope(query) == query.orgs # {} \/ query.groups # {} \/ query.os # {}

\* device_allowed: an empty facet allows every device, a facet a device has no value
\* for allows it not, and a group facet only its members ({0} if it has none).
DeviceAllowed(query, device, d) ==
    /\ query.orgs # {} => device.org \in query.orgs
    /\ query.groups # {} => d \in query.groups
    /\ query.os # {} => device.os \in query.os

Scoped(a) == {d \in Known : DeviceAllowed(a.query, a.fleet[d], d)}

\* The devices that fleet-health figures are about: in scope, online, and of a kind
\* NinjaOne patches.
Counted(a) == {d \in Scoped(a) : a.fleet[d].online /\ a.fleet[d].patchable}

-----------------------------------------------------------------------------
(* The current feed.                                                       *)

\* Everything in the current feed is pending but what is rejected or installed: a
\* failed record, one without a status and one whose status is new are.
IsPending(r) == r.status \notin {"REJECTED", "INSTALLED"}

\* dated: a pending record is aged from the app's own observation when that is older
\* than NinjaOne's time, which must be there.
Dated(r) ==
    IF IsPending(r) /\ r.age # Never /\ r.app > r.age
    THEN [r EXCEPT !.age = r.app] ELSE r

\* The feeds of the families asked for, OS first, of the devices in scope. Without a
\* scope every record is kept, orphans too.
Current(a) ==
    LET InScope(r) == HasScope(a.query) => r.device \in Scoped(a)
        Feed(f) == IF f \in a.query.families
                   THEN Those(a.feed, LAMBDA r : r.family = f /\ InScope(r)) ELSE <<>>
        records == Feed("OS") \o Feed("SOFTWARE")
    IN  [i \in DOMAIN records |-> Dated(records[i])]

-----------------------------------------------------------------------------
(* The rows.                                                               *)

\* The status the history endpoints are asked for, when it is one.
PushedDown(query) == {s \in query.statuses : s \in InstallHistory}

\* An install record without a status has the one that was asked for, or INSTALLED.
InstallLabel(query) ==
    IF Cardinality(PushedDown(query)) = 1 THEN CHOOSE s \in PushedDown(query) : TRUE
    ELSE "INSTALLED"

\* The install history of the families asked for, if any is. The lookback is applied
\* here whatever the server made of it; an undated record passes.
Installs(a) ==
    Those(a.installs, LAMBDA r : /\ PushedDown(a.query) # {}
                                 /\ r.family \in a.query.families
                                 /\ r.installed <= a.query.lookback)

Labelled(r, label) == IF r.status = NoStatus THEN label ELSE r.status

\* The facets that choose patches.
PatchAllowed(query, r) ==
    /\ query.titles # {} => r.title \in query.titles
    /\ query.severities # {} => r.severity \in query.severities
    /\ query.seenWithin # Never => r.age # Never /\ r.age <= query.seenWithin

\* Mutant of Kept: a record without a status is matched as it stands.
KeptAsIs(a, r, label, statuses) ==
    /\ r.status \in statuses
    /\ HasScope(a.query) => r.device \in Scoped(a)
    /\ PatchAllowed(a.query, r)

\* The device scope is enforced for every source: the server may have ignored it.
Kept(a, r, label, statuses) ==
    /\ Labelled(r, label) \in statuses
    /\ HasScope(a.query) => r.device \in Scoped(a)
    /\ PatchAllowed(a.query, r)

\* A row: the record under its device's labels, with its display status. Only OS rows
\* are matched with the exploit data.
Row(a, r, label) ==
    LET known == r.device \in Scoped(a)
    IN  [device |-> r.device, family |-> r.family, title |-> r.title, product |-> r.product,
         severity |-> r.severity, age |-> r.age, installed |-> r.installed,
         name |-> IF known THEN r.device ELSE 0,
         org |-> IF known THEN a.fleet[r.device].org ELSE 0,
         status |-> IF Labelled(r, label) = "MANUAL" THEN "PENDING" ELSE Labelled(r, label),
         exploited |-> r.family = "OS" /\ r.title \in a.exploited]

\* build_rows, for one source.
RowsFrom(a, records, label, statuses) ==
    LET kept == Those(records, LAMBDA r : Kept(a, r, label, statuses))
    IN  [i \in DOMAIN kept |-> Row(a, kept[i], label)]

\* The rows, the exploited ones alone if so asked, by severity, organization, device.
Rows(a) ==
    LET joined == RowsFrom(a, Current(a), "MANUAL", a.query.statuses)
                  \o RowsFrom(a, Installs(a), InstallLabel(a.query), PushedDown(a.query))
        listed == Those(joined, LAMBDA row : a.query.exploitedOnly => row.exploited)
    IN  Arranged(listed, LAMBDA x, y :
            \/ x.severity > y.severity
            \/ x.severity = y.severity /\ x.org < y.org
            \/ x.severity = y.severity /\ x.org = y.org /\ x.name < y.name)
=============================================================================
