------------------------------- MODULE Answers -------------------------------
(***************************************************************************)
(* The answer of a query as the screen, the export and the report read it: *)
(* the rows, the groups and the figures, each built by a pass of its own   *)
(* over the same fetched data (QueryResult, src-tauri/src/rows/mod.rs).    *)
(***************************************************************************)
EXTENDS Rollups, RowGroups

CONSTANTS Fleets, Feeds, Histories, Queries    \* bound: what NinjaOne may hold, and is asked

VARIABLE answer     \* QueryResult: the rows and the figures, with the data they are of

NoAnswer == [query |-> "none"]

AnswersInit == answer = NoAnswer

\* assemble_result: each part is a pass of its own over the data.
Assembled(a) ==
    [data |-> a, rows |-> Rows(a), devices |-> Summaries(a),
     byOrg |-> Compliance(a), byOs |-> ComplianceByOs(a), uncounted |-> UncountedOrgs(a),
     severities |-> SeverityByOrg(a), ages |-> AgeBuckets(a), firstSeen |-> Tracking(a),
     approvals |-> ApprovalBacklog(a), worst |-> WorstDevices(a), offline |-> OfflineBacklog(a),
     failures |-> Failures(a), time |-> TimeToInstall(a)]

\* A query answered, and held. The windows of the severities are the settings'.
Assembles ==
    /\ answer = NoAnswer
    /\ \E fleet \in Fleets, feed \in Feeds, history \in Histories, query \in Queries :
         answer' = Assembled([fleet |-> fleet, feed |-> feed, installs |-> history, query |-> query,
                     sla |-> [s \in Severity |-> IF s = 7 THEN 3 ELSE IF s = 0 THEN Never ELSE StuckAfter],
                     exploited |-> {1}])

\* clear_session, or the next query.
IsDropped == answer # NoAnswer /\ answer' = NoAnswer

AnswersNext == Assembles \/ IsDropped
AnswersSpec == AnswersInit /\ [][AnswersNext]_answer

-----------------------------------------------------------------------------
(* Properties.                                                             *)

\* Figures of one population agree, whichever pass made them: by organization and by
\* OS the same totals; every organization is counted or listed as uncounted; pending
\* patches by device, severity, age and in the first-seen line are the same number,
\* organization by organization too; so are the approvals and the urgent ones past
\* their window; the worst devices are the counted ones with a backlog; and installs
\* measured are so in every breakdown (rows/compliance.rs:335-358, rollups.rs:472-475).
TotalsAgree ==
    LET included == {d \in DOMAIN answer.devices : answer.devices[d].included}
        Sum(f, S) == MapThenSumSet(LAMBDA d : answer.devices[d][f], S)
        total == ComplianceTotal(answer.byOrg)
        OrgsAmong(S) == {answer.devices[d].org : d \in S}
        Samples(groups) == MapThenSumSet(LAMBDA k : groups[k].samples, DOMAIN groups)
    IN  /\ ComplianceTotal(answer.byOs) = total
        /\ total.devices = Cardinality(included)
        /\ DOMAIN answer.byOrg = OrgsAmong(included)
        /\ answer.uncounted = OrgsAmong(DOMAIN answer.devices) \ OrgsAmong(included)
        /\ \A o \in DOMAIN answer.byOrg :
             Sum("pending", {d \in included : answer.devices[d].org = o})
               = IF o \in DOMAIN answer.severities THEN CountsTotal(answer.severities[o]) ELSE 0
        /\ DOMAIN answer.severities \subseteq DOMAIN answer.byOrg
        /\ answer.firstSeen.pending = Sum("pending", included)
        /\ answer.ages.older + answer.ages.undated + MapThenSumSet(LAMBDA b : answer.ages.dated[b], Buckets)
             = Sum("pending", included)
        /\ total.urgentPastSla = Sum("urgentPastSla", included)
        /\ answer.approvals.awaiting = total.awaiting
        /\ answer.approvals.approved = total.approved
        /\ answer.worst.total = total.devices - total.fullyPatched
        /\ \A x \in answer.worst.devices : x.pastSla = answer.devices[x.device].pastSla
        /\ answer.time.overall.samples = Samples(answer.time.byOrg)
        /\ answer.time.overall.samples = Samples(answer.time.bySeverity)

\* What the figures count, the table can show: a pending patch of a counted device has
\* a row whenever its status is selected, an untyped one's under Pending, unless a
\* facet leaves it out; and no row is of a device out of scope
\* (commands/patches.rs:454-465, 936-941, rows/join.rs:252-268).
RowsBackTheFigures ==
    LET feed == Current(answer.data)
        query == answer.data.query
        Shown(r) == /\ (IF r.status = NoStatus THEN "MANUAL" ELSE r.status) \in query.statuses
                    /\ PatchAllowed(query, r) /\ ~query.exploitedOnly
        RowOf(r, row) == /\ row.device = r.device /\ row.title = r.title
                         /\ row.status \notin {"REJECTED", "INSTALLED"}
    IN  /\ \A i \in DOMAIN feed :
             IsPending(feed[i]) /\ feed[i].device \in Counted(answer.data) /\ Shown(feed[i])
             => \E n \in DOMAIN answer.rows : RowOf(feed[i], answer.rows[n])
        /\ HasScope(query) => \A n \in DOMAIN answer.rows : answer.rows[n].device \in Scoped(answer.data)

\* Every row is in one group, and a group opens on the rows it counts, in each
\* grouping; the pages of groups, and of rows in each sort, show every one once; and the
\* device of a row opens on all of its rows (rows/groups.rs:397-520, 552-563, 614-660).
GroupsPartition ==
    /\ \A by \in Grouping :
         LET groups == Groups(answer.rows, by)
         IN  /\ \A g \in DOMAIN groups :
                  /\ Len(Members(answer.rows, by, groups[g].key)) = groups[g].rows
                  /\ GroupPage(answer.rows, by, g - 1, 1) = <<groups[g]>>
             /\ \A i \in DOMAIN answer.rows : \E g \in DOMAIN groups :
                  /\ Matches(groups[g].key, by, answer.rows[i])
                  /\ \A h \in (DOMAIN groups) \ {g} : ~Matches(groups[h].key, by, answer.rows[i])
    /\ \A column \in {"none", "installed", "severity"}, descending \in BOOLEAN :
         LET sort == [column |-> column, descending |-> descending]
             shown == [i \in DOMAIN answer.rows |-> RowPage(answer.rows, sort, i - 1, 1)[1]]
         IN  \A i \in DOMAIN shown : Count(shown, LAMBDA row : row = answer.rows[i])
                                       = Count(answer.rows, LAMBDA row : row = answer.rows[i])
    /\ \A i \in DOMAIN answer.rows :
         LET d == answer.rows[i].device
         IN  d # Orphan => \E detail \in DeviceDetail(answer.data, answer.rows, d, 1) :
               /\ detail.total = Len(Members(answer.rows, "DEVICE", <<d>>))
               /\ DeviceRows(answer.rows, d, 1).truncated = (detail.total > 1)

\* The figures of an answer agree with each other and with its rows, and its rows with
\* their groups: all are passes of their own over one fetch (rows/mod.rs, assemble_result
\* and the commands that page through what it holds).
FiguresAgree == answer # NoAnswer => TotalsAgree /\ RowsBackTheFigures /\ GroupsPartition
=============================================================================
