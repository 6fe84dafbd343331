------------------------------ MODULE RowGroups ------------------------------
(***************************************************************************)
(* How the held rows are shown: sorted, in pages, grouped by device, patch *)
(* or product, and one device's or one group's rows alone                  *)
(* (src-tauri/src/rows/groups.rs and its commands in commands/patches.rs). *)
(*                                                                         *)
(* A group's key is the sequence of the fields that its text joins; a      *)
(* title is a KB and a name.                                               *)
(***************************************************************************)
EXTENDS PatchRows, FiniteSetsExt

CONSTANT MaxPageLimit    \* MAX_PAGE_LIMIT

ASSUME GroupsAssumption == MaxPageLimit \in Nat \ {0}

Grouping == {"DEVICE", "PATCH", "PRODUCT"}

\* skip(offset).take(limit), of a clamped limit.
Page(s, offset, limit) ==
    SubSeq(s, offset + 1, Min({Len(s), offset + Min({limit, MaxPageLimit})}))

-----------------------------------------------------------------------------
(* Groups.                                                                 *)

\* product_of: only third-party rows have one.
Product(row) == IF row.family = "SOFTWARE" THEN row.product ELSE NoProduct

\* write_group_key: a row without a product is grouped by its patch.
GroupKey(row, by) ==
    CASE by = "DEVICE" -> <<row.device>>
      [] by = "PRODUCT" /\ Product(row) # NoProduct -> <<"SOFTWARE", Product(row)>>
      [] OTHER -> <<row.family, row.title, row.title>>

\* Mutant of Matches: a patch's key matches a row of a product too.
MatchesFields(key, by, row) ==
    CASE by = "DEVICE" -> row.device = key[1]
      [] by = "PRODUCT" /\ Len(key) = 2 -> key[1] = "SOFTWARE" /\ Product(row) = key[2]
      [] OTHER -> Len(key) = 3 /\ row.family = key[1] /\ row.title = key[2]

\* GroupKeyMatcher: a row is held against the parts of a key.
Matches(key, by, row) ==
    CASE by = "DEVICE" -> row.device = key[1]
      [] by = "PRODUCT" /\ Len(key) = 2 -> key[1] = "SOFTWARE" /\ Product(row) = key[2]
      [] OTHER -> /\ Len(key) = 3 /\ row.family = key[1] /\ row.title = key[2]
                  /\ ~(by = "PRODUCT" /\ Product(row) # NoProduct)

\* A group: its rows and devices, its worst severity, the device it names, and the
\* versions it spans, if it is a product's.
Group(rows, by, key) ==
    LET mine == {i \in DOMAIN rows : GroupKey(rows[i], by) = key}
        first == rows[Min(mine)]
    IN  [key |-> key, seq |-> Min(mine), rows |-> Cardinality(mine),
         devices |-> Cardinality({rows[i].device : i \in mine} \ {Orphan}),
         severity |-> Max({rows[i].severity : i \in mine}),
         device |-> IF by = "DEVICE" THEN first.device ELSE Orphan,
         org |-> first.org, label |-> first.name,
         exploited |-> \E i \in mine : rows[i].exploited,
         versions |-> IF by = "PRODUCT" /\ Product(first) # NoProduct
                      THEN Cardinality({rows[i].title : i \in mine}) ELSE 0]

\* build_groups: devices by severity and name; patches and products with the exploited
\* ones first, then by severity and by how many devices they are on. Ties keep the
\* order of the rows.
Groups(rows, by) ==
    LET keys == {GroupKey(rows[i], by) : i \in DOMAIN rows}
        all  == {Group(rows, by, k) : k \in keys}
        bySeq == [n \in 1..Cardinality(all) |->
                     CHOOSE g \in all : Cardinality({h \in all : h.seq < g.seq}) = n - 1]
        Lexical(x, y) == \/ x.org < y.org
                         \/ x.org = y.org /\ x.label < y.label
        Wide(x, y) == \/ x.exploited /\ ~y.exploited
                      \/ /\ x.exploited = y.exploited
                         /\ \/ x.severity > y.severity
                            \/ x.severity = y.severity /\ x.devices > y.devices
        Before(x, y) == IF by = "DEVICE"
                        THEN x.severity > y.severity \/ (x.severity = y.severity /\ Lexical(x, y))
                        ELSE Wide(x, y)
    IN  Arranged(bySeq, Before)

\* get_patch_groups, get_patch_group_members
GroupPage(rows, by, offset, limit) == Page(Groups(rows, by), offset, limit)
Members(rows, by, key) == Those(rows, LAMBDA row : Matches(key, by, row))
MemberPage(rows, by, key, offset, limit) == Page(Members(rows, by, key), offset, limit)

-----------------------------------------------------------------------------
(* Sorted rows.                                                            *)

\* cmp_opt_last, of ages: what has no date is last, whichever the direction.
OptionalBefore(x, y, descending) ==
    /\ x # Never
    /\ y # Never => IF descending THEN x < y ELSE x > y

\* compare_rows, by a column that may be empty and by one that is not.
RowBefore(x, y, sort) ==
    CASE sort.column = "installed" -> OptionalBefore(x.installed, y.installed, sort.descending)
      [] sort.column = "severity"  -> IF sort.descending THEN x.severity < y.severity
                                      ELSE x.severity > y.severity

\* get_patch_rows: a page in the order of the rows, or of a sort.
RowPage(rows, sort, offset, limit) ==
    Page(IF sort.column = "none" THEN rows ELSE Arranged(rows, LAMBDA x, y : RowBefore(x, y, sort)),
         offset, limit)

\* rows_by_device, for one of the devices asked for: its first rows, and whether there
\* are more.
DeviceRows(rows, d, limit) ==
    LET mine == Those(rows, LAMBDA row : row.device = d)
    IN  [rows |-> Page(mine, 0, limit), truncated |-> Len(mine) > Min({limit, MaxPageLimit})]

\* device_detail: nothing for an orphan, or for a device out of scope without rows.
DeviceDetail(a, rows, d, limit) ==
    LET mine == Those(rows, LAMBDA row : row.device = d)
    IN  IF d = Orphan \/ (d \notin Scoped(a) /\ mine = <<>>) THEN {}
        ELSE {[inScope |-> d \in Scoped(a), rows |-> Page(mine, 0, limit), total |-> Len(mine)]}
=============================================================================
