------------------------------- MODULE Rollups -------------------------------
(***************************************************************************)
(* The figures of a query's answer, each computed by a pass of its own     *)
(* over the feed, the devices or the rows: device summaries, compliance,   *)
(* severity, age, backlogs, approvals, failures, time to install           *)
(* (src-tauri/src/rows/compliance.rs, rollups.rs, backlog.rs,              *)
(* install_time.rs, record.rs). Percentages and wording are left out.      *)
(***************************************************************************)
EXTENDS PatchRows, FiniteSetsExt

CONSTANTS Buckets,      \* the last day of each age bucket but the open one
          StuckAfter,   \* the default SLA window
          ListLimit     \* DEVICE_BACKLOG_LIMIT

ASSUME RollupsAssumption ==
    Buckets \subseteq Nat /\ StuckAfter \in Nat /\ ListLimit \in Nat

\* is_aged: past its severity's window. A record without a date is, one whose severity
\* is exempt is not.
Aged(a, r) == a.sla[r.severity] # Never /\ (r.age = Never \/ r.age > a.sla[r.severity])

\* counts_toward_backlog
Backlogged(r) == IsPending(r) /\ r.severity \in Urgent

\* approval_state: neither, for a record without a status, a failed and a new one.
Awaits(r)   == r.status = "MANUAL"
Approved(r) == r.status = "APPROVED"

\* SeverityCounts
BySeverity(s) == [v \in Severity |-> Count(s, LAMBDA r : r.severity = v)]
CountsTotal(counts) == MapThenSumSet(LAMBDA v : counts[v], Severity)

-----------------------------------------------------------------------------
(* Devices and compliance.                                                 *)

\* A device's summary, whether or not it is counted. failed is Never unless the
\* failures were asked for.
Summary(a, d) ==
    LET pending == Those(Current(a), LAMBDA r : r.device = d /\ IsPending(r))
    IN  [org |-> a.fleet[d].org, os |-> a.fleet[d].os,
         included |-> a.fleet[d].online /\ a.fleet[d].patchable,
         pending |-> Len(pending),
         bySeverity |-> BySeverity(pending),
         pastSla |-> Count(pending, LAMBDA r : Aged(a, r)),
         urgentPastSla |-> Count(pending, LAMBDA r : Aged(a, r) /\ Backlogged(r)),
         failed |-> IF "FAILED" \in PushedDown(a.query)
                    THEN Count(Installs(a), LAMBDA r :
                           r.device = d /\ Labelled(r, InstallLabel(a.query)) = "FAILED")
                    ELSE Never]

Summaries(a) == [d \in Scoped(a) |-> Summary(a, d)]

\* A compliance bucket: the counted devices with a key, and their patches.
Bucket(a, members) ==
    LET mine == Those(Current(a), LAMBDA r : r.device \in members)
    IN  [devices |-> Cardinality(members),
         withinSla |-> Cardinality({d \in members : Summary(a, d).pastSla = 0}),
         fullyPatched |-> Cardinality({d \in members : Summary(a, d).pending = 0}),
         urgentPending |-> Count(mine, Backlogged),
         urgentPastSla |-> Count(mine, LAMBDA r : Backlogged(r) /\ Aged(a, r)),
         awaiting |-> Count(mine, Awaits),
         approved |-> Count(mine, Approved)]

\* accumulate_compliance, by the key of each device.
Accumulate(a, key) ==
    [k \in {key[d] : d \in Counted(a)} |-> Bucket(a, {d \in Counted(a) : key[d] = k})]

Compliance(a)     == Accumulate(a, [d \in Known |-> a.fleet[d].org])
ComplianceByOs(a) == Accumulate(a, [d \in Known |-> a.fleet[d].os])

\* ComplianceBucket::total
ComplianceTotal(buckets) ==
    LET Sum(f) == MapThenSumSet(LAMBDA k : buckets[k][f], DOMAIN buckets)
    IN  [f \in {"devices", "withinSla", "fullyPatched", "urgentPending", "urgentPastSla",
                "awaiting", "approved"} |-> Sum(f)]

\* The organizations none of whose devices is counted.
UncountedOrgs(a) ==
    LET all == Summaries(a)
    IN  {o \in {all[d].org : d \in DOMAIN all} :
           \A d \in DOMAIN all : all[d].org = o => ~all[d].included}

-----------------------------------------------------------------------------
(* The feed's other figures.                                               *)

\* Mutant of PendingCounted: the records of devices that are offline are counted too.
PendingInScope(a) == Those(Current(a), LAMBDA r : IsPending(r) /\ r.device \in Scoped(a))

\* The pending records of counted devices.
PendingCounted(a) == Those(Current(a), LAMBDA r : IsPending(r) /\ r.device \in Counted(a))

\* build_severity_by_org: an organization with no pending patch has no entry.
SeverityByOrg(a) ==
    LET Org(r) == a.fleet[r.device].org
        records == PendingCounted(a)
    IN  [o \in {Org(records[i]) : i \in DOMAIN records} |->
            BySeverity(Those(records, LAMBDA r : Org(r) = o))]

\* build_age_buckets: each ends on its last day; two more for older and undated ones.
AgeBuckets(a) ==
    LET records == Those(Current(a), LAMBDA r : IsPending(r) /\ r.device \in Counted(a))
        Within(r) == {b \in Buckets : r.age # Never /\ r.age <= b}
    IN  [dated   |-> [b \in Buckets |-> Count(records, LAMBDA r : Within(r) # {} /\ b = Min(Within(r)))],
         older   |-> Count(records, LAMBDA r : r.age # Never /\ Within(r) = {}),
         undated |-> Count(records, LAMBDA r : r.age = Never)]

\* FirstSeenTracking::build: how many are aged from the app's own observation.
Tracking(a) ==
    LET raw == Those(a.feed, LAMBDA r : /\ r.family \in a.query.families
                                        /\ IsPending(r) /\ r.device \in Counted(a))
    IN  [pending |-> Len(PendingCounted(a)),
         fromApp |-> Count(raw, LAMBDA r : Dated(r) # r)]

\* build_approval_backlog: approved and not installed, and among those the stuck ones.
ApprovalBacklog(a) ==
    LET mine  == Those(Current(a), LAMBDA r : r.device \in Counted(a))
        stuck == Those(mine, LAMBDA r : Approved(r) /\ (r.age = Never \/ r.age > StuckAfter))
    IN  [awaiting |-> Count(mine, Awaits),
         approved |-> Count(mine, Approved),
         stuck |-> Len(stuck),
         stuckDevices |-> {stuck[i].device : i \in DOMAIN stuck}]

\* rank: more past SLA, then the more urgent backlog, then the id.
Worse(x, y) ==
    LET Above(v) == {w \in Severity : w > v}
        Urgency == \E v \in Severity : /\ x.pending[v] > y.pending[v]
                                       /\ \A w \in Above(v) : x.pending[w] = y.pending[w]
    IN  \/ x.pastSla > y.pastSla
        \/ x.pastSla = y.pastSla /\ Urgency
        \/ x.pastSla = y.pastSla /\ x.pending = y.pending /\ x.device < y.device

\* finish: the worst of the devices that have pending records, and how many have.
BacklogList(a, devices) ==
    LET Pending(d) == Those(Current(a), LAMBDA r : r.device = d /\ IsPending(r))
        listed == {[device |-> d, pending |-> BySeverity(Pending(d)),
                    pastSla |-> Count(Pending(d), LAMBDA r : Aged(a, r))] :
                     d \in {e \in devices : Pending(e) # <<>>}}
        Place(x) == Cardinality({y \in listed : Worse(y, x)})
    IN  [devices |-> {x \in listed : Place(x) < ListLimit}, total |-> Cardinality(listed)]

\* build_device_backlogs: the counted devices, and the offline ones that would be.
WorstDevices(a)   == BacklogList(a, Counted(a))
OfflineBacklog(a) == BacklogList(a, {d \in Scoped(a) : ~a.fleet[d].online /\ a.fleet[d].patchable})

-----------------------------------------------------------------------------
(* The rows' figures.                                                      *)

\* build_failures: by patch, the devices each failed on, the worst severity and the
\* latest failure. A row without a device is listed and counts as none.
Failures(a) ==
    LET failed == Those(Rows(a), LAMBDA row : row.status = "FAILED")
        Key(row) == <<row.family, row.title>>
        Group(k) == LET mine == {failed[i] : i \in {j \in DOMAIN failed : Key(failed[j]) = k}}
                        dates == {row.installed : row \in mine} \ {Never}
                    IN  [devices |-> {row.device : row \in mine} \ {Orphan},
                         severity |-> Max({row.severity : row \in mine}),
                         latest |-> IF dates = {} THEN Never ELSE Min(dates)]
    IN  [k \in {Key(failed[i]) : i \in DOMAIN failed} |-> Group(k)]

\* nearest_rank, of a sorted sequence.
NearestRank(sorted, percent) ==
    IF sorted = <<>> THEN 0
    ELSE sorted[Max({1, (percent * Len(sorted) + 99) \div 100})]

\* build_time_to_install: over the installed rows with both times in order.
TimeToInstall(a) ==
    LET installed == Those(Rows(a), LAMBDA row : row.status = "INSTALLED")
        measured  == Those(installed, LAMBDA row : /\ row.age # Never /\ row.installed # Never
                                                   /\ row.installed <= row.age)
        Latency(rows) ==
            LET days == Arranged([i \in DOMAIN rows |-> rows[i].age - rows[i].installed],
                                 LAMBDA m, n : m < n)
            IN  [samples |-> Len(days), p90 |-> NearestRank(days, 90)]
        By(Key(_)) == [k \in {Key(measured[i]) : i \in DOMAIN measured} |->
                          Latency(Those(measured, LAMBDA row : Key(row) = k))]
    IN  [overall |-> Latency(measured),
         byOrg |-> By(LAMBDA row : row.org),
         bySeverity |-> By(LAMBDA row : row.severity),
         installed |-> Len(installed),
         excluded |-> Len(installed) - Len(measured)]
=============================================================================
