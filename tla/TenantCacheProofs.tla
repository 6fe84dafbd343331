-------------------------- MODULE TenantCacheProofs --------------------------
(***************************************************************************)
(* RunChanges for any scopes, any fleets whose patches their keys tell     *)
(* apart, and any limits; and TenantCache for any number of callers,       *)
(* invalidators and tenants, any TTLs and any bounds.                      *)
(***************************************************************************)
EXTENDS TenantCache, RunChanges, TLAPS, FiniteSetTheorems, SequenceTheorems

-----------------------------------------------------------------------------
(* RunChanges: what a run says of the last one.  Its sums are recursive    *)
(* functions, and are proved by an induction of their own.                 *)

\* Naturals that hold zero and with each its next are all of them.
LEMMA Induction ==
    ASSUME NEW S \in SUBSET Nat, 0 \in S, \A n \in S : n + 1 \in S
    PROVE  S = Nat
  <1> DEFINE R == {ss \in Nat \X Nat : ss[1] < ss[2]}
             T == Nat \ S
  <1>1. IsWellFoundedOn(R, Nat)
    BY NatLessThanWellFounded DEF OpToRel
  <1>2. SUFFICES ASSUME T # {} PROVE FALSE
    OBVIOUS
  <1>3. PICK x \in T : \A y \in T : ~(<<y, x>> \in R)
    <2> HIDE DEF R
    <2>1. T \subseteq Nat
      OBVIOUS
    <2>2. IsWellFoundedOn(R, T)
      BY <1>1, <2>1, IsWellFoundedOnSubset
    <2> QED BY <1>1, <1>2, <2>1, WFMin
  <1>4. x # 0 /\ x \in Nat /\ x - 1 \in Nat /\ x - 1 \notin T
    <2>1. x \in Nat /\ x # 0
      BY <1>3
    <2>2. x - 1 \in Nat /\ x - 1 < x
      BY <2>1
    <2>3. <<x - 1, x>> \in R
      BY <2>1, <2>2
    <2> QED BY <1>3, <2>1, <2>2, <2>3
  <1>5. x - 1 \in S
    BY <1>4
  <1>6. (x - 1) + 1 \in S
    BY <1>5
  <1>7. (x - 1) + 1 = x
    BY <1>4
  <1> QED BY <1>3, <1>6, <1>7

LEMMA LeastOf ==
    ASSUME NEW S \in SUBSET Nat, S # {}
    PROVE  \E m \in S : \A n \in S : m <= n
  <1> SUFFICES ASSUME \A m \in S : \E n \in S : ~(m <= n) PROVE FALSE
    OBVIOUS
  <1> DEFINE T == {n \in Nat : \A x \in S : n <= x}
  <1>1. 0 \in T
    OBVIOUS
  <1>2. ASSUME NEW n \in T PROVE n + 1 \in T
    <2>1. n \notin S
      OBVIOUS
    <2>2. ASSUME NEW x \in S PROVE n + 1 <= x
      <3>1. n <= x /\ n # x /\ x \in Nat
        BY <2>1
      <3> QED BY <3>1
    <2> QED BY <2>2
  <1>3. T = Nat
    <2>1. T \in SUBSET Nat
      OBVIOUS
    <2> HIDE DEF T
    <2> QED BY <1>1, <1>2, <2>1, Induction
  <1>4. PICK x \in S : TRUE
    OBVIOUS
  <1>5. x + 1 \in T
    BY <1>3, <1>4
  <1> QED BY <1>4, <1>5

LEMMA GreatestOf ==
    ASSUME NEW max \in Nat, NEW S \in SUBSET (0..max), S # {}
    PROVE  \E m \in S : \A n \in S : n <= m
  <1> DEFINE D == {max - n : n \in S}
  <1>1. D \in SUBSET Nat /\ D # {}
    OBVIOUS
  <1>2. PICK d \in D : \A c \in D : d <= c
    <2> HIDE DEF D
    <2> QED BY <1>1, LeastOf
  <1>3. PICK m \in S : d = max - m
    OBVIOUS
  <1>4. ASSUME NEW n \in S PROVE n <= m
    <2>1. max - n \in D /\ n \in Nat /\ m \in Nat
      BY <1>3
    <2>2. d <= max - n
      BY <1>2, <2>1
    <2> QED BY <1>3, <2>1, <2>2
  <1> QED BY <1>4


LEMMA MaxIs ==
    ASSUME NEW n \in Nat, NEW S \in SUBSET (0..n), S # {}
    PROVE  Max(S) \in S /\ \A x \in S : x <= Max(S)
  <1>1. PICK m \in S : \A x \in S : x <= m
    BY GreatestOf
  <1>2. \E m_1 \in S : \A x \in S : m_1 >= x
    BY <1>1
  <1>3. Max(S) \in S /\ \A x \in S : Max(S) >= x
    BY <1>2, Zenon DEF Max
  <1> QED BY <1>3

LEMMA MinIs ==
    ASSUME NEW S \in SUBSET Nat, S # {}
    PROVE  Min(S) \in S
  <1>1. \E m \in S : \A x \in S : m =< x
    BY LeastOf
  <1> QED BY <1>1, Zenon DEF Min

-----------------------------------------------------------------------------
(* Sums.                                                                   *)

Adds(f, sizes, n) == f = [m \in 0..n |-> IF m = 0 THEN 0 ELSE f[m - 1] + sizes[m]]

LEMMA AddsExist ==
    ASSUME NEW sizes, NEW n \in Nat
    PROVE  \E f : Adds(f, sizes, n)
  <1> DEFINE S == {m \in Nat : \E f : Adds(f, sizes, m)}
  <1>1. 0 \in S
    <2>1. Adds([m \in 0..0 |-> 0], sizes, 0)
      BY DEF Adds
    <2> QED BY <2>1
  <1>2. ASSUME NEW m \in S PROVE m + 1 \in S
    <2>1. PICK f : Adds(f, sizes, m)
      OBVIOUS
    <2>2. m \in Nat /\ m + 1 \in Nat
      OBVIOUS
    <2> DEFINE g == [j \in 0..(m + 1) |-> IF j <= m THEN f[j] ELSE f[m] + sizes[m + 1]]
    <2>3. ASSUME NEW j \in 0..(m + 1)
          PROVE  g[j] = IF j = 0 THEN 0 ELSE g[j - 1] + sizes[j]
      <3>1. CASE j = 0
        <4>1. f[0] = 0
          BY <2>1, <2>2 DEF Adds
        <4> QED BY <2>2, <3>1, <4>1
      <3>2. CASE j # 0 /\ j <= m
        <4>1. j \in 0..m /\ j - 1 \in 0..(m + 1) /\ j - 1 <= m /\ j <= m
          BY <2>2, <3>2
        <4>2. f[j] = f[j - 1] + sizes[j]
          BY <2>1, <3>2, <4>1 DEF Adds
        <4>3. g[j] = f[j] /\ g[j - 1] = f[j - 1]
          BY <4>1
        <4> HIDE DEF g
        <4> QED BY <3>2, <4>2, <4>3
      <3>3. CASE j = m + 1
        <4>1. ~(m + 1 <= m) /\ (m + 1) - 1 = m /\ m \in 0..(m + 1) /\ m <= m /\ m + 1 \in 0..(m + 1)
          BY <2>2
        <4>2. g[m + 1] = f[m] + sizes[m + 1]
          BY <4>1
        <4>3. g[m] = f[m]
          BY <4>1
        <4> HIDE DEF g
        <4> QED BY <2>2, <3>3, <4>1, <4>2, <4>3
      <3> QED BY <2>2, <3>1, <3>2, <3>3
    <2>4. g = [j \in 0..(m + 1) |-> g[j]]
      OBVIOUS
    <2> HIDE DEF g
    <2>5. g = [j \in 0..(m + 1) |-> IF j = 0 THEN 0 ELSE g[j - 1] + sizes[j]]
      BY <2>3, <2>4, Zenon
    <2>6. Adds(g, sizes, m + 1)
      BY <2>5 DEF Adds
    <2> QED BY <2>2, <2>6
  <1>3. S \in SUBSET Nat
    OBVIOUS
  <1>4. S = Nat
    <2> HIDE DEF S
    <2> QED BY <1>1, <1>2, <1>3, Induction
  <1> QED BY <1>4

\* Sums of sizes that begin alike begin alike.
LEMMA AddsAgree ==
    ASSUME NEW n \in Nat, NEW s, NEW t, \A m \in 1..n : s[m] = t[m],
           NEW a \in Nat, NEW b \in Nat, n <= a, n <= b,
           NEW f, NEW g, Adds(f, s, a), Adds(g, t, b)
    PROVE  f[n] = g[n]
  <1> DEFINE S == {m \in Nat : m <= n => f[m] = g[m]}
  <1>1. /\ \A m \in 0..a : f[m] = IF m = 0 THEN 0 ELSE f[m - 1] + s[m]
        /\ \A m \in 0..b : g[m] = IF m = 0 THEN 0 ELSE g[m - 1] + t[m]
    BY Zenon DEF Adds
  <1>2. 0 \in S
    <2>1. 0 \in 0..a /\ 0 \in 0..b
      OBVIOUS
    <2> QED BY <1>1, <2>1
  <1>3. ASSUME NEW m \in S PROVE m + 1 \in S
    <2>1. CASE m + 1 <= n
      <3>1. m \in Nat /\ m <= n /\ m + 1 \in 0..a /\ m + 1 \in 0..b /\ m + 1 \in 1..n
            /\ m + 1 # 0 /\ (m + 1) - 1 = m
        BY <2>1
      <3>2. f[m + 1] = f[m] + s[m + 1] /\ g[m + 1] = g[m] + t[m + 1]
        BY <1>1, <3>1
      <3> QED BY <3>1, <3>2
    <2>2. CASE ~(m + 1 <= n)
      BY <2>2
    <2> QED BY <2>1, <2>2
  <1>4. S \in SUBSET Nat
    OBVIOUS
  <1>5. S = Nat
    <2> HIDE DEF S
    <2> QED BY <1>2, <1>3, <1>4, Induction
  <1>6. n \in S /\ n <= n
    BY <1>5
  <1> QED BY <1>6

LEMMA SumToIs ==
    ASSUME NEW sizes, NEW n \in Nat
    PROVE  \E f : Adds(f, sizes, n) /\ SumTo(sizes, n) = f[n]
  <1> DEFINE sum[m \in 0..n] == IF m = 0 THEN 0 ELSE sum[m - 1] + sizes[m]
  <1>1. Adds(sum, sizes, n)
    <2>1. \E f : Adds(f, sizes, n)
      BY AddsExist
    <2> QED BY <2>1, Zenon DEF Adds
  <1>2. SumTo(sizes, n) = sum[n]
    BY DEF SumTo
  <1> HIDE DEF sum
  <1> QED BY <1>1, <1>2

LEMMA SumsAgree ==
    ASSUME NEW n \in Nat, NEW s, NEW t, \A m \in 1..n : s[m] = t[m]
    PROVE  SumTo(s, n) = SumTo(t, n)
  <1>1. PICK f : Adds(f, s, n) /\ SumTo(s, n) = f[n]
    BY SumToIs
  <1>2. PICK g : Adds(g, t, n) /\ SumTo(t, n) = g[n]
    BY SumToIs
  <1>3. n <= n
    OBVIOUS
  <1> QED BY <1>1, <1>2, <1>3, AddsAgree

LEMMA SumsStep ==
    ASSUME NEW sizes, NEW n \in Nat
    PROVE  SumTo(sizes, 0) = 0 /\ SumTo(sizes, n + 1) = SumTo(sizes, n) + sizes[n + 1]
  <1>1. PICK f : Adds(f, sizes, n) /\ SumTo(sizes, n) = f[n]
    BY SumToIs
  <1>2. PICK g : Adds(g, sizes, n + 1) /\ SumTo(sizes, n + 1) = g[n + 1]
    BY SumToIs
  <1>3. PICK h : Adds(h, sizes, 0) /\ SumTo(sizes, 0) = h[0]
    BY SumToIs
  <1>4. f[n] = g[n]
    <2>1. n <= n /\ n <= n + 1 /\ n + 1 \in Nat
      OBVIOUS
    <2> QED BY <1>1, <1>2, <2>1, AddsAgree
  <1>5. g[n + 1] = g[n] + sizes[n + 1]
    <2>1. n + 1 \in 0..(n + 1) /\ n + 1 # 0 /\ (n + 1) - 1 = n
      OBVIOUS
    <2>2. \A m \in 0..(n + 1) : g[m] = IF m = 0 THEN 0 ELSE g[m - 1] + sizes[m]
      BY <1>2, Zenon DEF Adds
    <2> QED BY <2>1, <2>2
  <1>6. h[0] = 0
    <2>1. 0 \in 0..0
      OBVIOUS
    <2> QED BY <1>3, <2>1 DEF Adds
  <1> QED BY <1>1, <1>2, <1>3, <1>4, <1>5, <1>6

\* Sums of naturals grow.
LEMMA SumsGrow ==
    ASSUME NEW n \in Nat, NEW sizes, \A m \in 1..n : sizes[m] \in Nat
    PROVE  /\ \A a \in 0..n : SumTo(sizes, a) \in Nat
           /\ \A a, b \in 0..n : a <= b => SumTo(sizes, a) <= SumTo(sizes, b)
  <1> DEFINE S == {b \in Nat : b <= n => \A a \in 0..b : /\ SumTo(sizes, a) \in Nat
                                                        /\ SumTo(sizes, a) <= SumTo(sizes, b)}
  <1>1. 0 \in S
    <2>1. SumTo(sizes, 0) = 0
      BY SumsStep
    <2> QED BY <2>1
  <1>2. ASSUME NEW b \in S PROVE b + 1 \in S
    <2>1. CASE b + 1 <= n
      <3>1. b \in Nat /\ b <= n /\ b + 1 \in 1..n
        BY <2>1
      <3>2. \A a \in 0..b : SumTo(sizes, a) \in Nat /\ SumTo(sizes, a) <= SumTo(sizes, b)
        BY <3>1
      <3>3. SumTo(sizes, b + 1) = SumTo(sizes, b) + sizes[b + 1] /\ sizes[b + 1] \in Nat
        BY <3>1, SumsStep
      <3>4. ASSUME NEW a \in 0..(b + 1) 
            PROVE  SumTo(sizes, a) \in Nat /\ SumTo(sizes, a) <= SumTo(sizes, b + 1)
        <4>0. SumTo(sizes, b) \in Nat
          BY <3>1, <3>2
        <4>1. CASE a = b + 1
          BY <3>3, <4>0, <4>1
        <4>2. CASE a # b + 1
          <5>1. a \in 0..b
            BY <3>1, <4>2
          <5>2. SumTo(sizes, a) \in Nat /\ SumTo(sizes, a) <= SumTo(sizes, b)
            BY <3>2, <5>1
          <5> QED BY <3>3, <4>0, <5>2
        <4> QED BY <4>1, <4>2
      <3> QED BY <3>1, <3>4
    <2>2. CASE ~(b + 1 <= n)
      BY <2>2
    <2> QED BY <2>1, <2>2
  <1>3. S \in SUBSET Nat
    OBVIOUS
  <1>4. S = Nat
    <2> HIDE DEF S
    <2> QED BY <1>1, <1>2, <1>3, Induction
  <1>5. \A b \in 0..n : b \in S
    <2> HIDE DEF S
    <2> QED BY <1>4
  <1> QED BY <1>5

-----------------------------------------------------------------------------
(* What two runs saw.                                                      *)

\* Two rows have one key when they are one need, whichever fleet they are of.
KeysTellNeeds ==
    \A f, g \in ChangeFleets : \A r \in f, q \in g :
        PatchKey(r.title) = PatchKey(q.title) <=> r.title.need = q.title.need

\* The needs of rows, as Identities has their keys.
NeedsOf(rows) == {<<r.device, r.title.need>> : r \in rows}

LEMMA IdentitiesAreFinite ==
    ASSUME NEW rows, IsFiniteSet(rows)
    PROVE  IsFiniteSet(Identities(rows))
  <1> DEFINE f == [r \in rows |-> <<r.device, PatchKey(r.title)>>]
             T == {<<r.device, PatchKey(r.title)>> : r \in rows}
  <1>1. f \in Surjection(rows, T)
    BY DEF Surjection
  <1>2. IsFiniteSet(T)
    <2> HIDE DEF f, T
    <2> QED BY <1>1, FS_Surjection
  <1> QED BY <1>2 DEF Identities

\* The keys of some rows that are not those of others are as many as their needs.
LEMMA AsManyNeeds ==
    ASSUME KeysTellNeeds, NEW X, NEW Y, IsFiniteSet(X),
           \A r \in X \union Y : \E f \in ChangeFleets : r \in f
    PROVE  Cardinality(Identities(X) \ Identities(Y)) = Cardinality(NeedsOf(X) \ NeedsOf(Y))
  <1> DEFINE Id(r) == <<r.device, PatchKey(r.title)>>
             Need(r) == <<r.device, r.title.need>>
             A == Identities(X) \ Identities(Y)
             B == NeedsOf(X) \ NeedsOf(Y)
  <1>1. \A r, q \in X \union Y : Id(r) = Id(q) <=> Need(r) = Need(q)
    <2> SUFFICES ASSUME NEW r \in X \union Y, NEW q \in X \union Y
                 PROVE  Id(r) = Id(q) <=> Need(r) = Need(q)
      OBVIOUS
    <2>1. PatchKey(r.title) = PatchKey(q.title) <=> r.title.need = q.title.need
      BY DEF KeysTellNeeds
    <2> QED BY <2>1
  <1>2. Identities(X) = {Id(r) : r \in X} /\ Identities(Y) = {Id(r) : r \in Y}
    BY DEF Identities
  <1>3. NeedsOf(X) = {Need(r) : r \in X} /\ NeedsOf(Y) = {Need(r) : r \in Y}
    BY DEF NeedsOf
  <1> HIDE DEF Id, Need
  <1>4. \A x \in A : \E r \in X : Id(r) = x /\ Id(r) \notin Identities(Y)
    BY <1>2
  <1> DEFINE f == [x \in A |-> Need(CHOOSE r \in X : Id(r) = x)]
  <1>5. ASSUME NEW x \in A
        PROVE  \E r \in X : Id(r) = x /\ f[x] = Need(r) /\ f[x] \in B
    <2>1. PICK r : r = CHOOSE q \in X : Id(q) = x
      OBVIOUS
    <2>2. r \in X /\ Id(r) = x
      BY <1>4, <2>1
    <2>3. f[x] = Need(r)
      BY <2>1
    <2>4. Need(r) \in NeedsOf(X)
      BY <1>3, <2>2
    <2>5. Need(r) \notin NeedsOf(Y)
      <3>1. ASSUME NEW q \in Y, Need(r) = Need(q) PROVE FALSE
        <4>1. Id(r) = Id(q)
          BY <1>1, <2>2, <3>1
        <4> QED BY <1>2, <2>2, <4>1
      <3> QED BY <1>3, <3>1
    <2> QED BY <2>2, <2>3, <2>4, <2>5
  <1>6. f \in [A -> B]
    BY <1>5
  <1>7. \A x, y \in A : f[x] = f[y] => x = y
    <2> SUFFICES ASSUME NEW x \in A, NEW y \in A, f[x] = f[y] PROVE x = y
      OBVIOUS
    <2> HIDE DEF f
    <2>1. PICK r \in X : Id(r) = x /\ f[x] = Need(r)
      BY <1>5
    <2>2. PICK q \in X : Id(q) = y /\ f[y] = Need(q)
      BY <1>5
    <2> QED BY <1>1, <2>1, <2>2
  <1>8. \A b \in B : \E x \in A : f[x] = b
    <2> SUFFICES ASSUME NEW b \in B PROVE \E x \in A : f[x] = b
      OBVIOUS
    <2>1. PICK r \in X : Need(r) = b
      BY <1>3
    <2>2. Id(r) \in A
      <3>1. ASSUME NEW q \in Y, Id(r) = Id(q) PROVE FALSE
        <4>1. Need(r) = Need(q)
          BY <1>1, <3>1
        <4> QED BY <1>3, <2>1, <4>1
      <3> QED BY <1>2, <3>1
    <2>3. PICK q \in X : Id(q) = Id(r) /\ f[Id(r)] = Need(q)
      BY <1>5, <2>2
    <2>4. Need(q) = Need(r)
      BY <1>1, <2>3
    <2> QED BY <2>1, <2>2, <2>3, <2>4
  <1>9. IsFiniteSet(A)
    <2>1. IsFiniteSet(Identities(X))
      BY IdentitiesAreFinite
    <2> QED BY <2>1, FS_Subset
  <1>10. f \in Bijection(A, B)
    <2> HIDE DEF f, A, B
    <2> QED BY <1>6, <1>7, <1>8 DEF Bijection, Injection, Surjection, IsInjective
  <1>11. ExistsBijection(A, B)
    BY <1>10 DEF ExistsBijection
  <1>12. Cardinality(B) = Cardinality(A)
    <2> HIDE DEF f, A, B
    <2> QED BY <1>9, <1>11, FS_Bijection
  <1> QED BY <1>12

LEMMA UnionOfIdentities ==
    ASSUME NEW X, NEW Y
    PROVE  /\ Identities(X \union Y) = Identities(X) \union Identities(Y)
           /\ NeedsOf(X \union Y) = NeedsOf(X) \union NeedsOf(Y)
  BY DEF Identities, NeedsOf

Statuses == {"MANUAL", "APPROVED", "DELAYED", "FAILED", "INSTALLED", "REJECTED"}

\* The rows of a fleet under a scope that have one of some statuses.
RowsAs(scope, fleet, statuses) == {r \in fleet : r.status \in statuses \intersect scope}

\* What a snapshot holds are the identities of its backlog and of its failures.
LEMMA SnapshotIs ==
    ASSUME NEW scope \in ChangeScopes, NEW fleet \in ChangeFleets, NEW at
    PROVE  /\ Snapshot(scope, fleet, at).scope = scope /\ Snapshot(scope, fleet, at).at = at
           /\ Snapshot(scope, fleet, at).pending = Identities(RowsAs(scope, fleet, Backlog))
           /\ Snapshot(scope, fleet, at).failed = Identities(RowsAs(scope, fleet, {"FAILED"}))
           /\ ItemsOf(Snapshot(scope, fleet, at)) \in Nat
  <1> DEFINE rows == {r \in fleet : r.status \in scope}
             s == Snapshot(scope, fleet, at)
  <1>1. \A status \in scope : status \in Statuses
    BY ChangesAssumption DEF Statuses
  <1>2. {r \in rows : IsBacklog(r.status)} = RowsAs(scope, fleet, Backlog)
    BY <1>1 DEF RowsAs, Backlog, IsBacklog, Statuses
  <1>3. {r \in rows : IsFailed(r.status)} = RowsAs(scope, fleet, {"FAILED"})
    BY DEF RowsAs, IsFailed
  <1>4. s = [scope |-> scope, at |-> at, pending |-> Identities(RowsAs(scope, fleet, Backlog)),
             failed |-> Identities(RowsAs(scope, fleet, {"FAILED"}))]
    BY <1>2, <1>3, Zenon DEF Snapshot
  <1>5. ASSUME NEW statuses
        PROVE  Cardinality(Identities(RowsAs(scope, fleet, statuses))) \in Nat
    <2>1. RowsAs(scope, fleet, statuses) \in SUBSET fleet /\ IsFiniteSet(fleet)
      BY ChangesAssumption DEF RowsAs
    <2>2. IsFiniteSet(RowsAs(scope, fleet, statuses))
      BY <2>1, FS_Subset
    <2> QED BY <2>2, IdentitiesAreFinite, FS_CardinalityType
  <1>6. s.pending = Identities(RowsAs(scope, fleet, Backlog)) /\ s.failed = Identities(RowsAs(scope, fleet, {"FAILED"}))
        /\ s.scope = scope /\ s.at = at
    <2> HIDE DEF s
    <2> QED BY <1>4
  <1>7. ItemsOf(s) \in Nat
    <2> HIDE DEF s
    <2> QED BY <1>5, <1>6 DEF ItemsOf
  <1> QED BY <1>6, <1>7

\* What a run says of the changes since one of its scope that saw another fleet.
Tells(scope, fleet, old, c, s) ==
    LET Now(statuses) == NeedsOf(RowsAs(scope, fleet, statuses))
        Then(statuses) == NeedsOf(RowsAs(scope, old, statuses))
    IN  /\ Cardinality(c.new) = Cardinality(Now(Backlog) \ Then(Backlog))
        /\ Cardinality(c.resolved) = Cardinality(Then(Backlog) \ (Now(Backlog) \union Now({"FAILED"})))
        /\ Cardinality(c.newlyFailed) = Cardinality(Now({"FAILED"}) \ Then({"FAILED"}))
        /\ (\E r \in fleet : r.status = "FAILED" /\ <<r.device, PatchKey(r.title)>> \in c.resolved)
              => "failedReadsAsResolved" \in PanelNotes(scope, c, TooLarge(s))
        /\ PanelNotes(scope, c, TooLarge(s)) = Notes(scope, c, TooLarge(s))

LEMMA ARunTells ==
    ASSUME KeysTellNeeds, NEW scope \in ChangeScopes, NEW fleet \in ChangeFleets, NEW old \in ChangeFleets,
           NEW k \in Nat \ {0}, NEW n \in Nat
    PROVE  LET s == Snapshot(scope, fleet, n)
               c == Diff(Snapshot(scope, old, k), s)
           IN  c.previousAt = k /\ Tells(scope, fleet, old, c, s)
  <1> DEFINE s == Snapshot(scope, fleet, n)
             b == Snapshot(scope, old, k)
             c == Diff(b, s)
             Ids(f, statuses) == Identities(RowsAs(scope, f, statuses))
             Needs(f, statuses) == NeedsOf(RowsAs(scope, f, statuses))
  <1>1. /\ s.pending = Ids(fleet, Backlog) /\ s.failed = Ids(fleet, {"FAILED"})
        /\ b.pending = Ids(old, Backlog) /\ b.failed = Ids(old, {"FAILED"})
        /\ b.at = k
    BY SnapshotIs
  <1>2. b # NotSaved
    <2>1. NotSaved.at = 0
      BY DEF NotSaved
    <2> HIDE DEF b
    <2> QED BY <1>1, <2>1
  <1>3. c = [previousAt |-> k, new |-> s.pending \ b.pending,
             resolved |-> b.pending \ (s.pending \union s.failed), newlyFailed |-> s.failed \ b.failed]
    <2> HIDE DEF s, b
    <2> QED BY <1>1, <1>2 DEF Diff
  <1> HIDE DEF s, b
  <1>4. /\ c.previousAt = k
        /\ c.new = Ids(fleet, Backlog) \ Ids(old, Backlog)
        /\ c.resolved = Ids(old, Backlog) \ (Ids(fleet, Backlog) \union Ids(fleet, {"FAILED"}))
        /\ c.newlyFailed = Ids(fleet, {"FAILED"}) \ Ids(old, {"FAILED"})
    <2> HIDE DEF c, Ids
    <2> QED BY <1>1, <1>3
  <1> HIDE DEF c
  <1>5. \A f \in ChangeFleets : \A statuses :
          IsFiniteSet(RowsAs(scope, f, statuses)) /\ RowsAs(scope, f, statuses) \subseteq f
    <2> SUFFICES ASSUME NEW f \in ChangeFleets, NEW statuses
                 PROVE  IsFiniteSet(RowsAs(scope, f, statuses)) /\ RowsAs(scope, f, statuses) \subseteq f
      OBVIOUS
    <2>1. RowsAs(scope, f, statuses) \in SUBSET f /\ IsFiniteSet(f)
      BY ChangesAssumption DEF RowsAs
    <2> QED BY <2>1, FS_Subset
  <1>6. ASSUME NEW f \in ChangeFleets, NEW g \in ChangeFleets, NEW x, NEW y
        PROVE  Cardinality(Ids(f, x) \ Ids(g, y)) = Cardinality(Needs(f, x) \ Needs(g, y))
    <2>1. \A r \in RowsAs(scope, f, x) \union RowsAs(scope, g, y) : \E h \in ChangeFleets : r \in h
      BY <1>5
    <2> QED BY <1>5, <2>1, AsManyNeeds
  <1>7. Cardinality(c.resolved) =
          Cardinality(Needs(old, Backlog) \ (Needs(fleet, Backlog) \union Needs(fleet, {"FAILED"})))
    <2> DEFINE X == RowsAs(scope, old, Backlog)
               Y == RowsAs(scope, fleet, Backlog) \union RowsAs(scope, fleet, {"FAILED"})
    <2>1. \A r \in X \union Y : \E h \in ChangeFleets : r \in h
      BY <1>5
    <2>2. IsFiniteSet(X)
      BY <1>5
    <2>3. /\ Identities(Y) = Ids(fleet, Backlog) \union Ids(fleet, {"FAILED"})
          /\ NeedsOf(Y) = Needs(fleet, Backlog) \union Needs(fleet, {"FAILED"})
      BY UnionOfIdentities
    <2>4. c.resolved = Identities(X) \ Identities(Y)
      BY <1>4, <2>3
    <2>5. Cardinality(Identities(X) \ Identities(Y)) = Cardinality(NeedsOf(X) \ NeedsOf(Y))
      <3> HIDE DEF X, Y
      <3> QED BY <2>1, <2>2, AsManyNeeds
    <2> QED BY <2>3, <2>4, <2>5
  <1>8. PanelNotes(scope, c, TooLarge(s)) = Notes(scope, c, TooLarge(s))
    BY <1>4 DEF PanelNotes, Notes
  <1>9. ASSUME NEW r \in fleet, r.status = "FAILED", <<r.device, PatchKey(r.title)>> \in c.resolved
        PROVE  "failedReadsAsResolved" \in PanelNotes(scope, c, TooLarge(s))
    <2>1. "FAILED" \notin scope
      <3>1. SUFFICES ASSUME "FAILED" \in scope PROVE FALSE
        OBVIOUS
      <3>2. r \in RowsAs(scope, fleet, {"FAILED"})
        BY <1>9, <3>1 DEF RowsAs
      <3>3. <<r.device, PatchKey(r.title)>> \in Ids(fleet, {"FAILED"})
        BY <3>2 DEF Identities
      <3> QED BY <1>4, <1>9, <3>3
    <2>2. ~TracksFailed(scope) /\ c.previousAt # 0
      BY <1>4, <2>1 DEF TracksFailed
    <2> QED BY <2>2 DEF PanelNotes
  <1>10. /\ Cardinality(c.new) = Cardinality(Needs(fleet, Backlog) \ Needs(old, Backlog))
         /\ Cardinality(c.newlyFailed) = Cardinality(Needs(fleet, {"FAILED"}) \ Needs(old, {"FAILED"}))
    <2>1. /\ Cardinality(Ids(fleet, Backlog) \ Ids(old, Backlog))
               = Cardinality(Needs(fleet, Backlog) \ Needs(old, Backlog))
          /\ Cardinality(Ids(fleet, {"FAILED"}) \ Ids(old, {"FAILED"}))
               = Cardinality(Needs(fleet, {"FAILED"}) \ Needs(old, {"FAILED"}))
      BY <1>6
    <2> QED BY <1>4, <2>1
  <1>11. Tells(scope, fleet, old, c, s)
    BY <1>7, <1>8, <1>9, <1>10, Zenon DEF Tells
  <1> QED BY <1>4, <1>11 DEF c, s, b

-----------------------------------------------------------------------------
(* The runs, and what was written of them.                                 *)

Taken == {Snapshot(scope, fleet, n) : scope \in ChangeScopes, fleet \in ChangeFleets, n \in Nat}
Compared == {Diff(p, s) : p \in Taken \union {NotSaved}, s \in Taken}
Run == [scope : ChangeScopes, fleet : ChangeFleets, snapshot : Taken, changes : Compared,
        save : {"due", "written", "done", "lost"}]

\* What the properties say of runs, of any runs.
Wrote(rs, i) == rs[i].save \in {"written", "done"}
Since(rs, k, i) == {m \in (k + 1)..(i - 1) : Wrote(rs, m)}
OfScope(rs, i) == {k \in 1..(i - 1) : rs[k].scope = rs[i].scope /\ Wrote(rs, k)}
Before(rs, i) == Max({0} \union OfScope(rs, i))
Sizes(rs, i) == [m \in 1..(i - 1) |-> IF Wrote(rs, m) THEN ItemsOf(rs[m].snapshot) ELSE 0]
Evictable(rs, k, i) ==
    \/ Cardinality({rs[m].scope : m \in Since(rs, k, i)}) >= MaxSnapshots
    \/ Since(rs, k, i) # {} /\ SumTo(Sizes(rs, i), i - 1) - SumTo(Sizes(rs, i), k - 1) > MaxTotalBytes

\* Run i was compared with the last of its scope, if that was not evicted, and tells what moved.
Reported(rs, i) ==
    LET k == rs[i].changes.previousAt
    IN  /\ k = Before(rs, i) \/ (k = 0 /\ Before(rs, i) # 0 /\ Evictable(rs, Before(rs, i), i))
        /\ k # 0 => /\ k \in 1..(i - 1) /\ rs[k].scope = rs[i].scope
                    /\ Tells(rs[i].scope, rs[i].fleet, rs[k].fleet, rs[i].changes, rs[i].snapshot)

LEMMA TakenIs ==
    ASSUME NEW s \in Taken
    PROVE  ItemsOf(s) \in Nat /\ s.at \in Nat /\ s.scope \in ChangeScopes
  <1>1. PICK scope \in ChangeScopes, fleet \in ChangeFleets, n \in Nat : s = Snapshot(scope, fleet, n)
    BY DEF Taken
  <1> QED BY <1>1, SnapshotIs

LEMMA BeforeIs ==
    ASSUME NEW rs, NEW i \in Nat \ {0}
    PROVE  /\ Before(rs, i) \in {0} \union OfScope(rs, i)
           /\ \A k \in OfScope(rs, i) : k <= Before(rs, i)
  <1> DEFINE S == {0} \union OfScope(rs, i)
  <1>1. S \in SUBSET (0..(i - 1)) /\ i - 1 \in Nat /\ S # {}
    BY DEF OfScope
  <1>2. Max(S) \in S /\ \A x \in S : x <= Max(S)
    <2> HIDE DEF S
    <2> QED BY <1>1, MaxIs
  <1> QED BY <1>2 DEF Before

\* What comes before a run decides what is said of it.
LEMMA OnlyTheEarlier ==
    ASSUME NEW rs, NEW ts, NEW i \in Nat \ {0},
           \A m \in 1..(i - 1) : /\ rs[m].scope = ts[m].scope /\ rs[m].snapshot = ts[m].snapshot
                                 /\ Wrote(rs, m) <=> Wrote(ts, m)
    PROVE  /\ rs[i].scope = ts[i].scope => Before(rs, i) = Before(ts, i)
           /\ \A k \in Nat \ {0} : Evictable(rs, k, i) <=> Evictable(ts, k, i)
  <1>1. ASSUME rs[i].scope = ts[i].scope PROVE OfScope(rs, i) = OfScope(ts, i)
    BY <1>1 DEF OfScope
  <1>2. rs[i].scope = ts[i].scope => Before(rs, i) = Before(ts, i)
    BY <1>1 DEF Before
  <1>3. Sizes(rs, i) = Sizes(ts, i)
    BY DEF Sizes
  <1>4. ASSUME NEW k \in Nat \ {0} PROVE Evictable(rs, k, i) <=> Evictable(ts, k, i)
    <2>1. \A m \in (k + 1)..(i - 1) : m \in 1..(i - 1)
      OBVIOUS
    <2>2. Since(rs, k, i) = Since(ts, k, i)
      BY <2>1 DEF Since
    <2>3. {rs[m].scope : m \in Since(rs, k, i)} = {ts[m].scope : m \in Since(ts, k, i)}
      <3>1. \A m \in Since(rs, k, i) : rs[m].scope = ts[m].scope
        BY <2>1 DEF Since
      <3> QED BY <2>2, <3>1
    <2> QED BY <1>3, <2>2, <2>3 DEF Evictable
  <1> QED BY <1>2, <1>4

\* What may have evicted a snapshot may have evicted it later too.
LEMMA EvictedStays ==
    ASSUME NEW rs, NEW i \in Nat \ {0}, NEW k \in 1..(i - 1), Evictable(rs, k, i),
           \A m \in 1..i : rs[m].snapshot \in Taken
    PROVE  Evictable(rs, k, i + 1)
  <1> DEFINE now == Since(rs, k, i)
             then == Since(rs, k, i + 1)
  <1>1. (i + 1) - 1 = i /\ i \in 1..i /\ i - 1 \in Nat
    OBVIOUS
  <1>2. now \subseteq then /\ IsFiniteSet(then) /\ then \subseteq 1..i
    <2>1. then \in SUBSET (1..i)
      BY <1>1 DEF Since
    <2>2. IsFiniteSet(1..i)
      BY FS_Interval
    <2>3. now \subseteq then
      BY <1>1 DEF Since
    <2> QED BY <2>1, <2>2, <2>3, FS_Subset
  <1>3. Cardinality({rs[m].scope : m \in now}) <= Cardinality({rs[m].scope : m \in then})
    <2> DEFINE A == {rs[m].scope : m \in now}
               B == {rs[m].scope : m \in then}
               f == [m \in then |-> rs[m].scope]
    <2>1. f \in Surjection(then, B)
      BY DEF Surjection
    <2>2. IsFiniteSet(B)
      <3> HIDE DEF f, B, then
      <3> QED BY <1>2, <2>1, FS_Surjection
    <2>3. A \in SUBSET B
      BY <1>2
    <2>4. Cardinality(A) <= Cardinality(B)
      <3> HIDE DEF A, B
      <3> QED BY <2>2, <2>3, FS_Subset
    <2> QED BY <2>4
  <1>4. CASE Cardinality({rs[m].scope : m \in now}) >= MaxSnapshots
    <2>1. Cardinality({rs[m].scope : m \in now}) \in Nat /\ Cardinality({rs[m].scope : m \in then}) \in Nat
      <3>1. ASSUME NEW M \in SUBSET then PROVE Cardinality({rs[m].scope : m \in M}) \in Nat
        <4> DEFINE B == {rs[m].scope : m \in M}
                   f == [m \in M |-> rs[m].scope]
        <4>1. f \in Surjection(M, B)
          BY DEF Surjection
        <4>2. IsFiniteSet(M)
          BY <1>2, FS_Subset
        <4>3. IsFiniteSet(B)
          <5> HIDE DEF f, B, then
          <5> QED BY <4>1, <4>2, FS_Surjection
        <4>4. Cardinality(B) \in Nat
          <5> HIDE DEF B
          <5> QED BY <4>3, FS_CardinalityType
        <4> QED BY <4>4
      <3> QED BY <1>2, <3>1
    <2>2. Cardinality({rs[m].scope : m \in then}) >= MaxSnapshots
      BY <1>3, <1>4, <2>1, ChangesAssumption
    <2> QED BY <2>2 DEF Evictable
  <1>5. CASE now # {} /\ SumTo(Sizes(rs, i), i - 1) - SumTo(Sizes(rs, i), k - 1) > MaxTotalBytes
    <2> DEFINE s == Sizes(rs, i)
               t == Sizes(rs, i + 1)
    <2>1. \A m \in 1..(i - 1) : s[m] = t[m] /\ t[m] \in Nat
      <3> SUFFICES ASSUME NEW m \in 1..(i - 1) PROVE s[m] = t[m] /\ t[m] \in Nat
        OBVIOUS
      <3>1. m \in 1..i
        OBVIOUS
      <3>2. ItemsOf(rs[m].snapshot) \in Nat
        BY <3>1, TakenIs
      <3> QED BY <1>1, <3>1, <3>2 DEF Sizes
    <2>2. t[i] \in Nat
      <3>1. ItemsOf(rs[i].snapshot) \in Nat
        BY <1>1, TakenIs
      <3> QED BY <1>1, <3>1 DEF Sizes
    <2> HIDE DEF s, t
    <2>3. SumTo(s, i - 1) = SumTo(t, i - 1)
      BY <1>1, <2>1, SumsAgree
    <2>4. SumTo(s, k - 1) = SumTo(t, k - 1)
      <3>1. k - 1 \in Nat /\ \A m \in 1..(k - 1) : m \in 1..(i - 1)
        OBVIOUS
      <3> QED BY <2>1, <3>1, SumsAgree
    <2>5. SumTo(t, i) = SumTo(t, i - 1) + t[i]
      <3>1. (i - 1) + 1 = i
        OBVIOUS
      <3> QED BY <1>1, <3>1, SumsStep
    <2>6. SumTo(t, i - 1) \in Nat /\ SumTo(t, k - 1) \in Nat
      <3>1. i - 1 \in 0..(i - 1) /\ k - 1 \in 0..(i - 1)
        OBVIOUS
      <3> QED BY <1>1, <2>1, <3>1, SumsGrow
    <2>7. SumTo(t, i) - SumTo(t, k - 1) > MaxTotalBytes
      BY <1>5, <2>2, <2>3, <2>4, <2>5, <2>6, ChangesAssumption DEF s
    <2>8. then # {}
      BY <1>2, <1>5
    <2> QED BY <1>1, <2>7, <2>8 DEF Evictable, t
  <1> QED BY <1>4, <1>5 DEF Evictable

-----------------------------------------------------------------------------
(* The files.                                                              *)

LEMMA RemovedIs ==
    ASSUME NEW ss \in Seq(Taken), NEW p \in 1..Len(ss)
    PROVE  /\ RemoveAt(ss, p) \in Seq(Taken) /\ Len(RemoveAt(ss, p)) = Len(ss) - 1
           /\ \A q \in 1..(Len(ss) - 1) : RemoveAt(ss, p)[q] = IF q < p THEN ss[q] ELSE ss[q + 1]
  <1> DEFINE n == Len(ss)
             a == SubSeq(ss, 1, p - 1)
             b == SubSeq(ss, p + 1, n)
  <1>1. n \in Nat /\ p \in 1..n /\ \A i \in 1..n : ss[i] \in Taken
    OBVIOUS
  <1>2. a \in Seq(Taken) /\ Len(a) = p - 1 /\ \A i \in 1..(p - 1) : a[i] = ss[i]
    <2>1. \A i \in 1..(p - 1) : ss[i] \in Taken
      BY <1>1
    <2>2. /\ a \in Seq(Taken) /\ Len(a) = IF 1 <= p - 1 THEN (p - 1) - 1 + 1 ELSE 0
          /\ \A i \in 1..((p - 1) - 1 + 1) : a[i] = ss[1 + i - 1]
      <3> HIDE DEF n
      <3> QED BY <1>1, <2>1, SubSeqProperties
    <2>3. (p - 1) - 1 + 1 = p - 1 /\ \A i \in 1..(p - 1) : 1 + i - 1 = i
      BY <1>1
    <2> HIDE DEF a, n
    <2> QED BY <1>1, <2>2, <2>3
  <1>3. b \in Seq(Taken) /\ Len(b) = n - p /\ \A i \in 1..(n - p) : b[i] = ss[p + i]
    <2>1. \A i \in (p + 1)..n : ss[i] \in Taken
      BY <1>1
    <2>2. /\ b \in Seq(Taken) /\ Len(b) = IF p + 1 <= n THEN n - (p + 1) + 1 ELSE 0
          /\ \A i \in 1..(n - (p + 1) + 1) : b[i] = ss[(p + 1) + i - 1]
      <3> HIDE DEF n
      <3> QED BY <1>1, <2>1, SubSeqProperties
    <2>3. n - (p + 1) + 1 = n - p /\ \A i \in 1..(n - p) : (p + 1) + i - 1 = p + i
      BY <1>1
    <2> HIDE DEF b, n
    <2> QED BY <1>1, <2>2, <2>3
  <1>4. RemoveAt(ss, p) = a \o b
    BY DEF RemoveAt
  <1> HIDE DEF a, b, n
  <1>5. /\ a \o b \in Seq(Taken) /\ Len(a \o b) = n - 1
        /\ \A i \in 1..(n - 1) : (a \o b)[i] = IF i <= p - 1 THEN a[i] ELSE b[i - (p - 1)]
    <2>1. Len(a) + Len(b) = n - 1
      BY <1>1, <1>2, <1>3
    <2> QED BY <1>2, <1>3, <2>1, ConcatProperties
  <1>6. ASSUME NEW q \in 1..(n - 1)
        PROVE  (a \o b)[q] = IF q < p THEN ss[q] ELSE ss[q + 1]
    <2>1. CASE q < p
      <3>1. q \in 1..(p - 1) /\ q <= p - 1
        BY <1>1, <2>1
      <3> QED BY <1>2, <1>5, <2>1, <3>1
    <2>2. CASE ~(q < p)
      <3>1. ~(q <= p - 1) /\ q - (p - 1) \in 1..(n - p) /\ p + (q - (p - 1)) = q + 1
        BY <1>1, <2>2
      <3> QED BY <1>3, <1>5, <2>2, <3>1
    <2> QED BY <2>1, <2>2
  <1> QED BY <1>4, <1>5, <1>6 DEF n

\* The newest are kept, and at least one; each of the others is past a limit.
LEMMA PrunedIs ==
    ASSUME NEW files \in Seq(Taken), Len(files) > 0
    PROVE  \E c \in 1..Len(files) :
             /\ Pruned(files) \in Seq(Taken) /\ Len(Pruned(files)) = c
             /\ \A p \in 1..c : Pruned(files)[p] = files[p]
             /\ \A p \in (c + 1)..Len(files) :
                  p > MaxSnapshots \/ SumTo([i \in DOMAIN files |-> ItemsOf(files[i])], p) > MaxTotalBytes
             /\ c = 1 \/ c <= MaxSnapshots
  <1> DEFINE n == Len(files)
             sizes == [i \in DOMAIN files |-> ItemsOf(files[i])]
             kept == {i \in DOMAIN files : i = 1 \/ (i <= MaxSnapshots /\ SumTo(sizes, i) <= MaxTotalBytes)}
  <1>1. n \in Nat /\ n > 0 /\ DOMAIN files = 1..n /\ \A i \in 1..n : files[i] \in Taken
    OBVIOUS
  <1>2. \A i \in 1..n : sizes[i] \in Nat
    BY <1>1, TakenIs
  <1> HIDE DEF sizes
  <1>3. kept \in SUBSET (0..n) /\ kept # {}
    <2>1. 1 \in kept
      BY <1>1
    <2> QED BY <1>1, <2>1
  <1>4. PICK c \in kept : \A i \in kept : i <= c
    <2> HIDE DEF kept, n
    <2> QED BY <1>1, <1>3, GreatestOf
  <1>5. c \in 1..n
    BY <1>1, <1>4
  <1>6. kept = 1..c
    <2>1. ASSUME NEW i \in 1..c PROVE i \in kept
      <3>1. CASE i = 1
        BY <1>1, <3>1
      <3>2. CASE i # 1
        <4>1. c # 1 /\ c <= MaxSnapshots /\ SumTo(sizes, c) <= MaxTotalBytes
          BY <1>4, <1>5, <3>2
        <4>2. i \in 0..n /\ c \in 0..n /\ i <= c /\ i \in 1..n
          BY <1>1, <1>5
        <4>3. SumTo(sizes, i) <= SumTo(sizes, c) /\ SumTo(sizes, i) \in Nat /\ SumTo(sizes, c) \in Nat
          BY <1>1, <1>2, <4>2, SumsGrow
        <4>4. i <= MaxSnapshots /\ SumTo(sizes, i) <= MaxTotalBytes
          BY <1>5, <4>1, <4>2, <4>3, ChangesAssumption
        <4> QED BY <1>1, <4>2, <4>4
      <3> QED BY <3>1, <3>2
    <2>2. ASSUME NEW i \in kept PROVE i \in 1..c
      BY <1>1, <1>4
    <2> QED BY <2>1, <2>2
  <1>7. Pruned(files) = [i \in kept |-> files[i]]
    BY Zenon DEF Pruned, sizes
  <1>8. PICK pruned : pruned = [i \in 1..c |-> files[i]]
    OBVIOUS
  <1>9. /\ pruned \in Seq(Taken) /\ Len(pruned) = c /\ \A p \in 1..c : pruned[p] = files[p]
    BY <1>1, <1>5, <1>8
  <1>10. ASSUME NEW p \in (c + 1)..n
         PROVE  p > MaxSnapshots \/ SumTo(sizes, p) > MaxTotalBytes
    <2>1. p \in 1..n /\ p # 1 /\ p \notin kept /\ p \in 0..n
      BY <1>1, <1>5, <1>6
    <2>2. SumTo(sizes, p) \in Nat
      BY <1>1, <1>2, <2>1, SumsGrow
    <2> QED BY <1>1, <2>1, <2>2, ChangesAssumption
  <1>11. c = 1 \/ c <= MaxSnapshots
    BY <1>4
  <1> QED BY <1>5, <1>6, <1>7, <1>8, <1>9, <1>10, <1>11 DEF sizes, n

\* No run of its scope has been written since.
Latest(rs, k) ==
    /\ Wrote(rs, k)
    /\ \A m \in (k + 1)..Len(rs) : rs[m].scope = rs[k].scope => ~Wrote(rs, m)

RunsHeld(rs) ==
    /\ rs \in Seq(Run)
    /\ \A i \in 1..Len(rs) : rs[i].snapshot = Snapshot(rs[i].scope, rs[i].fleet, i)
    /\ \A i \in 1..(Len(rs) - 1) : rs[i].save \in {"done", "lost"}

\* The files are of the latest runs written, the newest first.
InOrder(rs, ss) ==
    /\ ss \in Seq(Taken)
    /\ \A p \in 1..Len(ss) :
         ss[p].at \in 1..Len(rs) /\ ss[p] = rs[ss[p].at].snapshot /\ Latest(rs, ss[p].at)
    /\ \A p, q \in 1..Len(ss) : p < q => ss[q].at < ss[p].at

LEMMA RunsAre ==
    ASSUME NEW rs, RunsHeld(rs)
    PROVE  /\ Len(rs) \in Nat
           /\ \A i \in 1..Len(rs) : /\ rs[i] \in Run /\ rs[i].snapshot \in Taken
                                    /\ rs[i].snapshot.scope = rs[i].scope /\ rs[i].snapshot.at = i
                                    /\ rs[i].scope \in ChangeScopes /\ rs[i].fleet \in ChangeFleets
                                    /\ rs[i].save \in {"due", "written", "done", "lost"}
  <1>1. Len(rs) \in Nat /\ \A i \in 1..Len(rs) : rs[i] \in Run
    BY DEF RunsHeld
  <1>2. \A i \in 1..Len(rs) : /\ rs[i].scope \in ChangeScopes /\ rs[i].fleet \in ChangeFleets
                              /\ rs[i].snapshot \in Taken /\ rs[i].save \in {"due", "written", "done", "lost"}
    BY <1>1 DEF Run
  <1>3. \A i \in 1..Len(rs) : rs[i].snapshot.scope = rs[i].scope /\ rs[i].snapshot.at = i
    BY <1>2, SnapshotIs DEF RunsHeld
  <1> QED BY <1>1, <1>2, <1>3

\* Two files are of different scopes.
LEMMA ScopesDiffer ==
    ASSUME NEW rs, RunsHeld(rs), NEW ss, InOrder(rs, ss), NEW p \in 1..Len(ss), NEW q \in 1..Len(ss),
           p < q
    PROVE  ss[p].scope # ss[q].scope
  <1>1. /\ ss[q].at \in 1..Len(rs) /\ ss[p].at \in 1..Len(rs) /\ ss[q].at < ss[p].at
        /\ ss[q] = rs[ss[q].at].snapshot /\ ss[p] = rs[ss[p].at].snapshot
        /\ Latest(rs, ss[q].at) /\ Latest(rs, ss[p].at)
    BY DEF InOrder
  <1>2. PICK a \in 1..Len(rs), b \in 1..Len(rs) : a = ss[q].at /\ b = ss[p].at
    BY <1>1
  <1>3. a < b /\ Latest(rs, a) /\ Wrote(rs, b) /\ Len(rs) \in Nat
    BY <1>1, <1>2, RunsAre DEF Latest
  <1>4. b \in (a + 1)..Len(rs)
    BY <1>2, <1>3
  <1>5. rs[b].scope # rs[a].scope
    BY <1>3, <1>4 DEF Latest
  <1> QED BY <1>1, <1>2, <1>5, RunsAre

\* The files beside that of a scope are the others, in their order.
LEMMA FilesBesideAre ==
    ASSUME NEW scope, snapshots \in Seq(Taken),
           \A p, q \in 1..Len(snapshots) : p < q => /\ snapshots[q].at < snapshots[p].at
                                                    /\ snapshots[p].scope # snapshots[q].scope
    PROVE  LET b == FilesBeside(scope)
           IN  /\ b \in Seq(Taken)
               /\ \A q \in 1..Len(b) : \E p \in 1..Len(snapshots) : b[q] = snapshots[p] /\ b[q].scope # scope
               /\ \A p, q \in 1..Len(b) : p < q => b[q].at < b[p].at
               /\ \A p \in 1..Len(snapshots) :
                    snapshots[p].scope # scope => \E q \in 1..Len(b) : b[q] = snapshots[p]
  <1> DEFINE n == Len(snapshots)
             same == {i \in DOMAIN snapshots : snapshots[i].scope = scope}
  <1>1. n \in Nat /\ DOMAIN snapshots = 1..n
    OBVIOUS
  <1>2. CASE same = {}
    <2>1. FilesBeside(scope) = snapshots
      BY <1>2 DEF FilesBeside
    <2>2. \A p \in 1..n : snapshots[p].scope # scope
      BY <1>1, <1>2
    <2> HIDE DEF same
    <2> QED BY <2>1, <2>2
  <1>3. CASE same # {}
    <2>1. PICK m \in 1..n : m = Min(same)
      <3>1. same \in SUBSET Nat
        BY <1>1
      <3>2. Min(same) \in same
        <4> HIDE DEF same
        <4> QED BY <1>3, <3>1, MinIs
      <3> QED BY <1>1, <3>2
    <2>2. m \in same
      <3>1. same \in SUBSET Nat
        BY <1>1
      <3> HIDE DEF same
      <3> QED BY <1>3, <2>1, <3>1, MinIs
    <2>3. snapshots[m].scope = scope
      BY <2>2
    <2>4. \A p \in 1..n : p # m => snapshots[p].scope # scope
      <3> SUFFICES ASSUME NEW p \in 1..n, p # m PROVE snapshots[p].scope # scope
        OBVIOUS
      <3>1. p < m \/ m < p
        BY <1>1
      <3> QED BY <2>3, <3>1
    <2>5. PICK b : b = FilesBeside(scope)
      OBVIOUS
    <2>6. b = RemoveAt(snapshots, m)
      BY <1>3, <2>1, <2>5, Zenon DEF FilesBeside
    <2>7. /\ b \in Seq(Taken) /\ Len(b) = n - 1
          /\ \A q \in 1..(n - 1) : b[q] = IF q < m THEN snapshots[q] ELSE snapshots[q + 1]
      <3>1. m \in 1..Len(snapshots)
        BY <2>1
      <3>2. /\ RemoveAt(snapshots, m) \in Seq(Taken) /\ Len(RemoveAt(snapshots, m)) = Len(snapshots) - 1
            /\ \A q \in 1..(Len(snapshots) - 1) :
                 RemoveAt(snapshots, m)[q] = IF q < m THEN snapshots[q] ELSE snapshots[q + 1]
        <4> HIDE DEF same, n
        <4> QED BY <3>1, RemovedIs
      <3> QED BY <2>6, <3>2, Zenon
    <2>8. ASSUME NEW q \in 1..Len(b)
          PROVE  \E p \in 1..n : b[q] = snapshots[p] /\ b[q].scope # scope
      <3>1. q \in 1..(n - 1) /\ q \in 1..n /\ q + 1 \in 1..n
        BY <1>1, <2>7
      <3>2. CASE q < m
        BY <1>1, <2>4, <2>7, <3>1, <3>2
      <3>3. CASE ~(q < m)
        <4>1. q + 1 # m
          BY <1>1, <3>1, <3>3
        <4> QED BY <1>1, <2>4, <2>7, <3>1, <3>3, <4>1
      <3> QED BY <3>2, <3>3
    <2>9. ASSUME NEW p \in 1..Len(b), NEW q \in 1..Len(b), p < q
          PROVE  b[q].at < b[p].at
      <3>1. PICK x \in 1..n : x = (IF p < m THEN p ELSE p + 1)
        BY <1>1, <2>7
      <3>2. PICK y \in 1..n : y = (IF q < m THEN q ELSE q + 1)
        BY <1>1, <2>7
      <3>3. x < y
        BY <1>1, <2>9, <3>1, <3>2
      <3>4. b[p] = snapshots[x] /\ b[q] = snapshots[y]
        BY <1>1, <2>7, <3>1, <3>2
      <3> QED BY <3>3, <3>4
    <2>10. ASSUME NEW p \in 1..n, snapshots[p].scope # scope
           PROVE  \E q \in 1..Len(b) : b[q] = snapshots[p]
      <3>1. p # m
        BY <2>3, <2>10
      <3>2. CASE p < m
        <4>1. p \in 1..Len(b) /\ p \in 1..(n - 1)
          BY <1>1, <2>7, <3>2
        <4> QED BY <2>7, <3>2, <4>1
      <3>3. CASE ~(p < m)
        <4>1. p - 1 \in 1..Len(b) /\ p - 1 \in 1..(n - 1) /\ ~(p - 1 < m) /\ (p - 1) + 1 = p
          BY <1>1, <2>7, <3>1, <3>3
        <4> QED BY <2>7, <4>1
      <3> QED BY <3>2, <3>3
    <2> QED BY <2>5, <2>7, <2>8, <2>9, <2>10
  <1> QED BY <1>2, <1>3

LEMMA PartsAdd ==
    ASSUME NEW x \in Nat, NEW y \in Nat, NEW z \in Nat, NEW w \in Nat, NEW t \in Nat, NEW all \in Nat,
           x + w <= all, y = z + t, y <= w
    PROVE  x + t \in Nat /\ (x + t) + z <= all
  OBVIOUS

\* A file past a limit is of a run that those written since may have evicted.
LEMMA PastALimit ==
    ASSUME NEW rs, RunsHeld(rs), NEW ss, InOrder(rs, ss), NEW p \in 1..Len(ss), p # 1,
           \/ p > MaxSnapshots
           \/ SumTo([i \in DOMAIN ss |-> ItemsOf(ss[i])], p) > MaxTotalBytes
    PROVE  Evictable(rs, ss[p].at, Len(rs) + 1)
  <1> DEFINE n == Len(rs)
             since == Since(rs, ss[p].at, n + 1)
             weights == Sizes(rs, n + 1)
             sizes == [i \in DOMAIN ss |-> ItemsOf(ss[i])]
  <1>1. n \in Nat /\ (n + 1) - 1 = n /\ Len(ss) \in Nat /\ DOMAIN ss = 1..Len(ss)
    BY RunsAre DEF InOrder
  <1>2. \A q \in 1..Len(ss) : /\ ss[q].at \in 1..n /\ ss[q] = rs[ss[q].at].snapshot
                              /\ ss[q].scope = rs[ss[q].at].scope /\ Wrote(rs, ss[q].at)
                              /\ ss[q] \in Taken
    BY RunsAre DEF InOrder, Latest
  <1>3. PICK k \in 1..n : k = ss[p].at
    BY <1>2
  <1>4. \A q \in 1..(p - 1) : q \in 1..Len(ss) /\ ss[q].at \in since
    <2> SUFFICES ASSUME NEW q \in 1..(p - 1) PROVE q \in 1..Len(ss) /\ ss[q].at \in since
      OBVIOUS
    <2>1. q \in 1..Len(ss) /\ q < p
      BY <1>1
    <2>2. ss[p].at < ss[q].at
      BY <2>1 DEF InOrder
    <2>3. ss[q].at \in (k + 1)..n
      BY <1>1, <1>2, <1>3, <2>1, <2>2
    <2> QED BY <1>1, <1>2, <1>3, <2>1, <2>3 DEF Since
  <1>5. IsFiniteSet(since)
    <2>1. since \in SUBSET (1..n) /\ IsFiniteSet(1..n)
      <3>1. IsFiniteSet(1..n)
        BY <1>1, FS_Interval
      <3>2. since \in SUBSET (1..n)
        BY <1>1, <1>3 DEF Since
      <3> QED BY <3>1, <3>2
    <2> HIDE DEF since
    <2> QED BY <2>1, FS_Subset
  <1> HIDE DEF since
  <1>6. CASE p > MaxSnapshots
    <2> DEFINE B == {rs[m].scope : m \in since}
               f == [q \in 1..(p - 1) |-> ss[q].scope]
               g == [m \in since |-> rs[m].scope]
    <2>1. g \in Surjection(since, B)
      BY DEF Surjection
    <2>2. IsFiniteSet(B)
      <3> HIDE DEF B, g
      <3> QED BY <1>5, <2>1, FS_Surjection
    <2>3. \A q \in 1..(p - 1) : ss[q].scope \in B
      BY <1>2, <1>4
    <2>4. ASSUME NEW q \in 1..(p - 1), NEW r \in 1..(p - 1), q # r PROVE ss[q].scope # ss[r].scope
      <3>1. q \in 1..Len(ss) /\ r \in 1..Len(ss) /\ (q < r \/ r < q)
        BY <1>4, <2>4
      <3> QED BY <3>1, ScopesDiffer
    <2>5. f \in Injection(1..(p - 1), B)
      <3>1. f \in [1..(p - 1) -> B]
        <4> HIDE DEF B
        <4> QED BY <2>3
      <3>2. \A q, r \in 1..(p - 1) : f[q] = f[r] => q = r
        BY <2>4
      <3> HIDE DEF B, f
      <3> QED BY <3>1, <3>2 DEF Injection, IsInjective
    <2>6. Cardinality(1..(p - 1)) <= Cardinality(B)
      <3> HIDE DEF B, f
      <3> QED BY <2>2, <2>5, FS_Injection
    <2>7. Cardinality(1..(p - 1)) = p - 1
      <3>1. p - 1 \in Int /\ ~(1 > p - 1)
        BY <1>1
      <3>2. Cardinality(1..(p - 1)) = (p - 1) - 1 + 1
        BY <3>1, FS_Interval
      <3> QED BY <1>1, <3>2
    <2>8. Cardinality(B) \in Nat
      <3> HIDE DEF B
      <3> QED BY <2>2, FS_CardinalityType
    <2>9. Cardinality(B) >= MaxSnapshots
      <3> HIDE DEF B
      <3> QED BY <1>1, <1>6, <2>6, <2>7, <2>8, ChangesAssumption
    <2> QED BY <2>9 DEF Evictable, since
  <1>7. CASE SumTo(sizes, p) > MaxTotalBytes
    <2>1. \A m \in 1..n : weights[m] = (IF Wrote(rs, m) THEN ItemsOf(rs[m].snapshot) ELSE 0)
                          /\ weights[m] \in Nat
      <3> SUFFICES ASSUME NEW m \in 1..n
                   PROVE  weights[m] = (IF Wrote(rs, m) THEN ItemsOf(rs[m].snapshot) ELSE 0)
                          /\ weights[m] \in Nat
        OBVIOUS
      <3>1. ItemsOf(rs[m].snapshot) \in Nat
        BY RunsAre, TakenIs
      <3> QED BY <1>1, <3>1 DEF Sizes
    <2>2. \A q \in 1..Len(ss) : sizes[q] = weights[ss[q].at] /\ sizes[q] \in Nat
      <3> SUFFICES ASSUME NEW q \in 1..Len(ss) PROVE sizes[q] = weights[ss[q].at] /\ sizes[q] \in Nat
        OBVIOUS
      <3>1. sizes[q] = ItemsOf(ss[q])
        BY <1>1
      <3>2. weights[ss[q].at] = ItemsOf(rs[ss[q].at].snapshot) /\ weights[ss[q].at] \in Nat
        BY <1>2, <2>1
      <3> QED BY <1>2, <3>1, <3>2
    <2> HIDE DEF weights, sizes
    <2> DEFINE S == {q \in Nat : q + 1 <= Len(ss) =>
                       /\ SumTo(sizes, q + 1) \in Nat
                       /\ SumTo(sizes, q + 1) + SumTo(weights, ss[q + 1].at - 1) <= SumTo(weights, n)}
    <2>3. \A a \in 0..n : SumTo(weights, a) \in Nat /\ SumTo(weights, a) <= SumTo(weights, n)
      <3>1. n \in 0..n /\ \A a \in 0..n : a <= n
        BY <1>1
      <3> QED BY <1>1, <2>1, <3>1, SumsGrow
    <2>4. ASSUME NEW a \in 1..n PROVE SumTo(weights, a) = SumTo(weights, a - 1) + weights[a]
      <3>1. a - 1 \in Nat /\ (a - 1) + 1 = a
        BY <1>1
      <3> QED BY <3>1, SumsStep
    <2>5. 0 \in S
      <3>1. CASE 1 <= Len(ss)
        <4>1. SumTo(sizes, 0 + 1) = SumTo(sizes, 0) + sizes[0 + 1] /\ SumTo(sizes, 0) = 0
          BY SumsStep
        <4>2. PICK a \in 1..n : a = ss[1].at
          BY <1>2, <3>1, <1>1
        <4>3. sizes[1] = weights[a] /\ sizes[1] \in Nat
          BY <1>1, <2>2, <3>1, <4>2
        <4>4. SumTo(weights, a) = SumTo(weights, a - 1) + weights[a]
          BY <2>4
        <4>5. a \in 0..n /\ a - 1 \in 0..n
          BY <1>1
        <4>6. /\ SumTo(weights, a) \in Nat /\ SumTo(weights, a) <= SumTo(weights, n)
              /\ SumTo(weights, a - 1) \in Nat
          BY <2>3, <4>5
        <4>7. SumTo(sizes, 1) = sizes[1]
          BY <4>1, <4>3
        <4> QED BY <4>2, <4>3, <4>4, <4>6, <4>7
      <3>2. CASE ~(1 <= Len(ss))
        BY <3>2
      <3> QED BY <3>1, <3>2
    <2>6. ASSUME NEW q \in S PROVE q + 1 \in S
      <3>1. CASE (q + 1) + 1 <= Len(ss)
        <4>1. PICK u \in 1..Len(ss), v \in 1..Len(ss) : u = q + 1 /\ v = u + 1
          BY <1>1, <3>1
        <4>2. PICK a \in 1..n, b \in 1..n : a = ss[u].at /\ b = ss[v].at
          BY <1>2
        <4>3. b < a
          <5>1. u < v
            BY <1>1, <4>1
          <5> QED BY <4>2, <5>1 DEF InOrder
        <4>4. SumTo(sizes, u) \in Nat /\ SumTo(sizes, u) + SumTo(weights, a - 1) <= SumTo(weights, n)
          BY <1>1, <4>1, <4>2
        <4>5. SumTo(sizes, v) = SumTo(sizes, u) + sizes[v]
          <5>1. u \in Nat
            BY <1>1
          <5> QED BY <4>1, <5>1, SumsStep
        <4>6. sizes[v] = weights[b] /\ sizes[v] \in Nat
          BY <2>2, <4>2
        <4>7. SumTo(weights, b) = SumTo(weights, b - 1) + weights[b]
          BY <2>4
        <4>8. SumTo(weights, b) <= SumTo(weights, a - 1)
          <5>1. b \in 0..n /\ a - 1 \in 0..n /\ b <= a - 1
            BY <1>1, <4>3
          <5> QED BY <1>1, <2>1, <5>1, SumsGrow
        <4>9. /\ SumTo(weights, b) \in Nat /\ SumTo(weights, b - 1) \in Nat
              /\ SumTo(weights, a - 1) \in Nat /\ SumTo(weights, n) \in Nat
          <5>1. b \in 0..n /\ b - 1 \in 0..n /\ a - 1 \in 0..n /\ n \in 0..n
            BY <1>1
          <5> QED BY <2>3, <5>1
        <4>10. /\ SumTo(sizes, v) \in Nat
               /\ SumTo(sizes, v) + SumTo(weights, b - 1) <= SumTo(weights, n)
          <5>1. PICK x \in Nat, y \in Nat, z \in Nat, w \in Nat, all \in Nat, t \in Nat :
                  /\ x = SumTo(sizes, u) /\ y = SumTo(weights, b) /\ z = SumTo(weights, b - 1)
                  /\ w = SumTo(weights, a - 1) /\ all = SumTo(weights, n) /\ t = weights[b]
            BY <4>4, <4>6, <4>9, Zenon
          <5>2. x + w <= all /\ y = z + t /\ y <= w /\ SumTo(sizes, v) = x + t
            BY <4>4, <4>5, <4>6, <4>7, <4>8, <5>1, Zenon
          <5>3. x + t \in Nat /\ (x + t) + z <= all
            BY <5>2, PartsAdd
          <5> QED BY <5>1, <5>2, <5>3, Zenon
        <4>11. v = (q + 1) + 1
          BY <4>1
        <4> QED BY <4>2, <4>10, <4>11
      <3>2. CASE ~((q + 1) + 1 <= Len(ss))
        BY <3>2
      <3> QED BY <3>1, <3>2
    <2>7. S \in SUBSET Nat
      OBVIOUS
    <2>8. S = Nat
      <3> HIDE DEF S
      <3> QED BY <2>5, <2>6, <2>7, Induction
    <2>9. p - 1 \in S /\ (p - 1) + 1 = p
      <3>1. p - 1 \in Nat /\ (p - 1) + 1 = p
        BY <1>1
      <3> HIDE DEF S
      <3> QED BY <2>8, <3>1
    <2>10. SumTo(sizes, p) \in Nat /\ SumTo(sizes, p) + SumTo(weights, k - 1) <= SumTo(weights, n)
      BY <1>1, <1>3, <2>9
    <2>11. SumTo(weights, k - 1) \in Nat /\ SumTo(weights, n) \in Nat
      <3>1. k - 1 \in 0..n /\ n \in 0..n
        BY <1>1
      <3> QED BY <2>3, <3>1
    <2> HIDE DEF S
    <2>12. SumTo(weights, n) - SumTo(weights, k - 1) > MaxTotalBytes
      BY <1>7, <2>10, <2>11, ChangesAssumption
    <2>13. since # {}
      <3>1. 1 \in 1..(p - 1)
        BY <1>1
      <3> QED BY <1>4, <3>1
    <2> QED BY <1>1, <1>3, <2>12, <2>13 DEF Evictable, since, weights
  <1> QED BY <1>6, <1>7 DEF sizes

-----------------------------------------------------------------------------
(* The steps.                                                              *)

\* The first run whose save has not begun.
Ended(rs) == IF Len(rs) > 0 /\ rs[Len(rs)].save = "due" THEN Len(rs) ELSE Len(rs) + 1

\* Each latest run is a file's, or may have been evicted.
FilesHeld(rs, ss) ==
    /\ InOrder(rs, ss)
    /\ \A k \in 1..Len(rs) :
         Latest(rs, k) => (\E p \in 1..Len(ss) : ss[p].at = k) \/ Evictable(rs, k, Ended(rs))

\* The copy held is of the last run saved of its scope, but for one being saved.
MemoryHeld(rs, ls) ==
    ls = NotSaved \/ /\ ls.at \in 1..Len(rs) /\ ls = rs[ls.at].snapshot /\ Wrote(rs, ls.at)
                     /\ \A m \in (ls.at + 1)..Len(rs) :
                          rs[m].scope = ls.scope /\ Wrote(rs, m) => rs[m].save = "written"

Like(rs, ts, m) == /\ rs[m].scope = ts[m].scope /\ rs[m].fleet = ts[m].fleet
                   /\ rs[m].snapshot = ts[m].snapshot /\ rs[m].changes = ts[m].changes

LEMMA ReportedStays ==
    ASSUME NEW rs, NEW ts, NEW i \in Nat \ {0}, Reported(rs, i), \A m \in 1..i : Like(rs, ts, m),
           \A m \in 1..(i - 1) : Wrote(rs, m) <=> Wrote(ts, m)
    PROVE  Reported(ts, i)
  <1>1. i \in 1..i /\ \A m \in 1..(i - 1) : m \in 1..i
    OBVIOUS
  <1>2. Before(rs, i) = Before(ts, i) /\ \A k \in Nat \ {0} : Evictable(rs, k, i) <=> Evictable(ts, k, i)
    BY <1>1, OnlyTheEarlier DEF Like
  <1>3. Before(rs, i) \in Nat
    BY BeforeIs DEF OfScope
  <1> DEFINE k == rs[i].changes.previousAt
  <1>4. Like(rs, ts, i) /\ k = ts[i].changes.previousAt
    BY <1>1 DEF Like
  <1>5. k = Before(ts, i) \/ (k = 0 /\ Before(ts, i) # 0 /\ Evictable(ts, Before(ts, i), i))
    BY <1>2, <1>3 DEF Reported
  <1>6. ASSUME k # 0
        PROVE  /\ k \in 1..(i - 1) /\ ts[k].scope = ts[i].scope
               /\ Tells(ts[i].scope, ts[i].fleet, ts[k].fleet, ts[i].changes, ts[i].snapshot)
    <2>1. /\ k \in 1..(i - 1) /\ rs[k].scope = rs[i].scope
          /\ Tells(rs[i].scope, rs[i].fleet, rs[k].fleet, rs[i].changes, rs[i].snapshot)
      BY <1>6 DEF Reported
    <2>2. Like(rs, ts, k)
      BY <1>1, <2>1
    <2> QED BY <1>4, <2>1, <2>2, Zenon DEF Like
  <1> QED BY <1>4, <1>5, <1>6, Zenon DEF Reported

LEMMA LatestStays ==
    ASSUME NEW rs, NEW ts, Len(rs) \in Nat, Len(ts) = Len(rs), \A m \in 1..Len(rs) : Like(rs, ts, m),
           \A m \in 1..Len(rs) : Wrote(rs, m) <=> Wrote(ts, m), NEW k \in 1..Len(rs)
    PROVE  Latest(rs, k) <=> Latest(ts, k)
  <1>1. \A m \in (k + 1)..Len(rs) : m \in 1..Len(rs)
    OBVIOUS
  <1>2. \A m \in 1..Len(rs) : rs[m].scope = ts[m].scope
    BY DEF Like
  <1> QED BY <1>1, <1>2 DEF Latest

\* A save that ends, or is lost, changes nothing of what was written.
LEMMA NothingWritten ==
    ASSUME NEW rs, NEW ts, RunsHeld(rs), RunsHeld(ts), Len(ts) = Len(rs),
           \A m \in 1..Len(rs) : Like(rs, ts, m) /\ (Wrote(rs, m) <=> Wrote(ts, m)),
           Len(rs) > 0 /\ ts[Len(rs)].save = "due" => rs[Len(rs)].save = "due",
           NEW ss, FilesHeld(rs, ss), \A i \in 1..Len(rs) : Reported(rs, i)
    PROVE  FilesHeld(ts, ss) /\ \A i \in 1..Len(ts) : Reported(ts, i)
  <1> DEFINE n == Len(rs)
  <1>1. n \in Nat /\ \A m \in 1..n : rs[m].snapshot \in Taken /\ ts[m].snapshot \in Taken
    BY RunsAre
  <1>2. ASSUME NEW i \in 1..n PROVE Reported(ts, i)
    <2>1. i \in Nat \ {0} /\ (\A m \in 1..i : m \in 1..n) /\ (\A m \in 1..(i - 1) : m \in 1..n)
      BY <1>1
    <2>2. Reported(rs, i)
      OBVIOUS
    <2> HIDE DEF n
    <2> QED BY <2>1, <2>2, ReportedStays DEF n
  <1>3. \A k \in 1..n : Latest(rs, k) <=> Latest(ts, k)
    BY <1>1, LatestStays
  <1>4. InOrder(ts, ss)
    <2>1. \A m \in 1..n : rs[m].snapshot = ts[m].snapshot
      BY DEF Like
    <2> QED BY <1>3, <2>1 DEF FilesHeld, InOrder
  <1>5. ASSUME NEW k \in 1..n, Latest(rs, k), Evictable(rs, k, Ended(rs))
        PROVE  Evictable(ts, k, Ended(ts))
    <2>1. Ended(rs) \in {n, n + 1} /\ Ended(rs) \in Nat \ {0} /\ k \in Nat \ {0}
      BY <1>1 DEF Ended
    <2>2. Evictable(ts, k, Ended(rs))
      <3>1. \A m \in 1..(Ended(rs) - 1) : m \in 1..n
        BY <1>1, <2>1
      <3> QED BY <1>5, <2>1, <3>1, OnlyTheEarlier DEF Like
    <2>3. CASE Ended(rs) = Ended(ts)
      BY <2>2, <2>3
    <2>4. CASE Ended(rs) # Ended(ts)
      <3>1. n > 0 /\ rs[n].save = "due" /\ Ended(rs) = n /\ Ended(ts) = n + 1
        BY <1>1, <2>4 DEF Ended
      <3>2. k # n
        BY <1>5, <3>1 DEF Latest, Wrote
      <3>3. k \in 1..(n - 1) /\ n \in Nat \ {0}
        BY <1>1, <3>1, <3>2
      <3> HIDE DEF n
      <3> QED BY <1>1, <2>2, <3>1, <3>3, EvictedStays
    <2> QED BY <2>3, <2>4
  <1>6. FilesHeld(ts, ss)
    BY <1>3, <1>4, <1>5 DEF FilesHeld
  <1> QED BY <1>2, <1>6

\* What was written of a scope.
WrittenOf(rs, scope) == {k \in 1..Len(rs) : rs[k].scope = scope /\ Wrote(rs, k)}
LastOf(rs, scope, k) == k \in WrittenOf(rs, scope) /\ \A m \in WrittenOf(rs, scope) : m <= k

\* What a run is compared with is the last of its scope, or there is none, or it may be evicted.
LEMMA WhatIsComparable ==
    ASSUME RunsHeld(runs), FilesHeld(runs, snapshots), MemoryHeld(runs, lastSaved),
           \A i \in 1..Len(runs) : runs[i].save \in {"done", "lost"}, NEW scope \in ChangeScopes
    PROVE  \/ /\ ComparableRun(scope) = NotSaved
              /\ \A k \in Nat : LastOf(runs, scope, k) => Evictable(runs, k, Len(runs) + 1)
           \/ \E k \in 1..Len(runs) : LastOf(runs, scope, k) /\ ComparableRun(scope) = runs[k].snapshot
  <1> DEFINE n == Len(runs)
             ofScope == {i \in DOMAIN snapshots : snapshots[i].scope = scope}
  <1>1. n \in Nat /\ \A i \in 1..n : runs[i].snapshot.scope = runs[i].scope
    BY RunsAre
  <1>2. ASSUME NEW k \in 1..n, Latest(runs, k), runs[k].scope = scope PROVE LastOf(runs, scope, k)
    <2>1. ASSUME NEW m \in WrittenOf(runs, scope), ~(m <= k) PROVE FALSE
      <3>1. m \in (k + 1)..n /\ runs[m].scope = scope /\ Wrote(runs, m)
        BY <1>1, <2>1 DEF WrittenOf
      <3> QED BY <1>2, <3>1 DEF Latest
    <2>2. k \in WrittenOf(runs, scope)
      BY <1>2 DEF WrittenOf, Latest
    <2> QED BY <1>1, <2>1, <2>2 DEF LastOf, WrittenOf
  <1>3. CASE lastSaved.scope = scope
    <2>1. lastSaved # NotSaved
      <3>1. NotSaved.scope = {} /\ scope # {}
        BY ChangesAssumption DEF NotSaved
      <3> QED BY <1>3, <3>1
    <2>2. PICK k \in 1..n : /\ k = lastSaved.at /\ lastSaved = runs[k].snapshot /\ Wrote(runs, k)
                            /\ \A m \in (k + 1)..n : runs[m].scope = scope /\ Wrote(runs, m)
                                                       => runs[m].save = "written"
      BY <1>3, <2>1 DEF MemoryHeld
    <2>3. runs[k].scope = scope
      BY <1>1, <1>3, <2>2
    <2>4. ASSUME NEW m \in (k + 1)..n, runs[m].scope = runs[k].scope PROVE ~Wrote(runs, m)
      <3>1. m \in 1..n
        BY <1>1
      <3> QED BY <2>2, <2>3, <2>4, <3>1
    <2>5. Latest(runs, k)
      BY <2>2, <2>4 DEF Latest
    <2>6. ComparableRun(scope) = runs[k].snapshot
      BY <1>3, <2>2, Zenon DEF ComparableRun
    <2> QED BY <1>2, <2>3, <2>5, <2>6
  <1>4. CASE lastSaved.scope # scope /\ ofScope = {}
    <2>1. ComparableRun(scope) = NotSaved
      BY <1>4, Zenon DEF ComparableRun
    <2>2. ASSUME NEW k \in Nat, LastOf(runs, scope, k) PROVE Evictable(runs, k, n + 1)
      <3>1. k \in 1..n /\ runs[k].scope = scope /\ Wrote(runs, k)
        BY <2>2 DEF LastOf, WrittenOf
      <3>2. ASSUME NEW m \in (k + 1)..n, runs[m].scope = runs[k].scope, Wrote(runs, m) PROVE FALSE
        <4>1. m \in 1..n /\ ~(m <= k)
          BY <1>1
        <4> QED BY <2>2, <3>1, <3>2, <4>1 DEF LastOf, WrittenOf
      <3>3. Latest(runs, k)
        BY <3>1, <3>2 DEF Latest
      <3>4. ASSUME NEW p \in 1..Len(snapshots), snapshots[p].at = k PROVE FALSE
        <4>1. snapshots[p].scope = scope
          BY <1>1, <3>1, <3>4 DEF FilesHeld, InOrder
        <4>2. p \in DOMAIN snapshots
          BY DEF FilesHeld, InOrder
        <4> QED BY <1>4, <4>1, <4>2
      <3>5. Ended(runs) = n + 1
        BY <1>1 DEF Ended
      <3> QED BY <3>1, <3>3, <3>4, <3>5 DEF FilesHeld
    <2> QED BY <2>1, <2>2
  <1>5. CASE lastSaved.scope # scope /\ ofScope # {}
    <2>1. snapshots \in Seq(Taken) /\ DOMAIN snapshots = 1..Len(snapshots) /\ Len(snapshots) \in Nat
      BY DEF FilesHeld, InOrder
    <2>2. Min(ofScope) \in ofScope
      <3>1. ofScope \in SUBSET Nat
        BY <2>1
      <3> HIDE DEF ofScope
      <3> QED BY <1>5, <3>1, MinIs
    <2>3. PICK p \in 1..Len(snapshots) : p = Min(ofScope) /\ snapshots[p].scope = scope
      BY <2>1, <2>2
    <2>4. ComparableRun(scope) = snapshots[p]
      BY <1>5, <2>3, Zenon DEF ComparableRun
    <2>5. PICK k \in 1..n : k = snapshots[p].at /\ snapshots[p] = runs[k].snapshot /\ Latest(runs, k)
      BY DEF FilesHeld, InOrder
    <2>6. runs[k].scope = scope
      BY <1>1, <2>3, <2>5
    <2> QED BY <1>2, <2>4, <2>5, <2>6
  <1> QED BY <1>3, <1>4, <1>5

\* A run that begins.
LEMMA BegunHeld ==
    ASSUME NEW rs, RunsHeld(rs), NEW ss, FilesHeld(rs, ss), NEW ls, MemoryHeld(rs, ls),
           \A i \in 1..Len(rs) : rs[i].save \in {"done", "lost"} /\ Reported(rs, i),
           NEW r \in Run, r.save = "due", r.snapshot = Snapshot(r.scope, r.fleet, Len(rs) + 1),
           Reported(Append(rs, r), Len(rs) + 1)
    PROVE  /\ RunsHeld(Append(rs, r)) /\ FilesHeld(Append(rs, r), ss) /\ MemoryHeld(Append(rs, r), ls)
           /\ \A i \in 1..Len(Append(rs, r)) : Reported(Append(rs, r), i)
  <1> DEFINE n == Len(rs)
  <1>1. n \in Nat /\ rs \in Seq(Run)
    BY DEF RunsHeld
  <1>2. PICK ts : ts = Append(rs, r)
    OBVIOUS
  <1>3. ts \in Seq(Run) /\ Len(ts) = n + 1 /\ ts[n + 1] = r /\ \A i \in 1..n : ts[i] = rs[i]
    BY <1>1, <1>2
  <1>4. RunsHeld(ts)
    <2>1. ASSUME NEW i \in 1..Len(ts) PROVE ts[i].snapshot = Snapshot(ts[i].scope, ts[i].fleet, i)
      <3>1. CASE i = n + 1
        BY <1>3, <3>1
      <3>2. CASE i # n + 1
        <4>1. i \in 1..n
          BY <1>1, <1>3, <3>2
        <4> QED BY <1>3, <4>1 DEF RunsHeld
      <3> QED BY <3>1, <3>2
    <2>2. \A i \in 1..(Len(ts) - 1) : ts[i].save \in {"done", "lost"}
      BY <1>1, <1>3
    <2> QED BY <1>3, <2>1, <2>2 DEF RunsHeld
  <1>5. (\A m \in 1..n : Wrote(rs, m) <=> Wrote(ts, m)) /\ ~Wrote(ts, n + 1)
    BY <1>3 DEF Wrote
  <1>6. ASSUME NEW k \in 1..n PROVE Latest(rs, k) <=> Latest(ts, k)
    <2>1. \A m \in (k + 1)..(n + 1) : m = n + 1 \/ (m \in (k + 1)..n /\ m \in 1..n)
      BY <1>1
    <2>2. \A m \in (k + 1)..n : m \in (k + 1)..(n + 1) /\ m \in 1..n
      BY <1>1
    <2>3. Latest(rs, k) => Latest(ts, k)
      BY <1>3, <1>5, <2>1 DEF Latest
    <2>4. Latest(ts, k) => Latest(rs, k)
      BY <1>3, <1>5, <2>2 DEF Latest
    <2> QED BY <2>3, <2>4
  <1>7. Ended(rs) = n + 1 /\ Ended(ts) = n + 1
    <2>1. Ended(rs) = n + 1
      BY <1>1 DEF Ended
    <2>2. Ended(ts) = n + 1
      BY <1>1, <1>3 DEF Ended
    <2> QED BY <2>1, <2>2
  <1>8. FilesHeld(ts, ss)
    <2>1. InOrder(ts, ss)
      <3>1. ASSUME NEW p \in 1..Len(ss)
            PROVE  ss[p].at \in 1..Len(ts) /\ ss[p] = ts[ss[p].at].snapshot /\ Latest(ts, ss[p].at)
        <4>1. ss[p].at \in 1..n /\ ss[p] = rs[ss[p].at].snapshot /\ Latest(rs, ss[p].at)
          BY DEF FilesHeld, InOrder
        <4>2. ss[p].at \in 1..(n + 1)
          BY <1>1, <4>1
        <4> QED BY <1>3, <1>6, <4>1, <4>2
      <3> QED BY <3>1 DEF FilesHeld, InOrder
    <2>2. ASSUME NEW k \in 1..Len(ts), Latest(ts, k)
          PROVE  (\E p \in 1..Len(ss) : ss[p].at = k) \/ Evictable(ts, k, Ended(ts))
      <3>1. k # n + 1
        BY <1>5, <2>2 DEF Latest
      <3>2. k \in 1..n /\ k \in Nat \ {0} /\ n + 1 \in Nat \ {0} /\ (n + 1) - 1 = n
        BY <1>1, <1>3, <3>1
      <3>3. \A m \in 1..n : rs[m].scope = ts[m].scope /\ rs[m].snapshot = ts[m].snapshot
        BY <1>3
      <3>4. Evictable(rs, k, n + 1) <=> Evictable(ts, k, n + 1)
        <4> HIDE DEF n
        <4> QED BY <1>5, <3>2, <3>3, OnlyTheEarlier
      <3> QED BY <1>6, <1>7, <2>2, <3>2, <3>4 DEF FilesHeld
    <2> QED BY <2>1, <2>2 DEF FilesHeld
  <1>9. MemoryHeld(ts, ls)
    <2>1. CASE ls = NotSaved
      BY <2>1 DEF MemoryHeld
    <2>2. CASE ls # NotSaved
      <3>1. PICK k \in 1..n : k = ls.at /\ ls = rs[k].snapshot /\ Wrote(rs, k)
                              /\ \A m \in (k + 1)..n : rs[m].scope = ls.scope /\ Wrote(rs, m)
                                                         => rs[m].save = "written"
        BY <2>2 DEF MemoryHeld
      <3>2. k \in 1..(n + 1) /\ \A m \in (k + 1)..(n + 1) : m = n + 1 \/ (m \in (k + 1)..n /\ m \in 1..n)
        BY <1>1
      <3>3. \A m \in (k + 1)..Len(ts) : ts[m].scope = ls.scope /\ Wrote(ts, m) => ts[m].save = "written"
        BY <1>3, <1>5, <3>1, <3>2
      <3>4. ls = ts[k].snapshot /\ Wrote(ts, k) /\ k \in 1..Len(ts)
        BY <1>3, <1>5, <3>1, <3>2
      <3> QED BY <3>1, <3>3, <3>4 DEF MemoryHeld
    <2> QED BY <2>1, <2>2
  <1>10. ASSUME NEW i \in 1..Len(ts) PROVE Reported(ts, i)
    <2>1. CASE i = n + 1
      BY <1>2, <2>1
    <2>2. CASE i # n + 1
      <3>1. i \in 1..n /\ i \in Nat \ {0} /\ (\A m \in 1..i : m \in 1..n) /\ (\A m \in 1..(i - 1) : m \in 1..n)
        BY <1>1, <1>3, <2>2
      <3>2. \A m \in 1..i : Like(rs, ts, m)
        BY <1>3, <3>1 DEF Like
      <3>3. Reported(rs, i)
        BY <3>1
      <3> HIDE DEF n
      <3> QED BY <1>5, <3>1, <3>2, <3>3, ReportedStays
    <2> QED BY <2>1, <2>2
  <1> QED BY <1>2, <1>4, <1>8, <1>9, <1>10

\* What a run that begins says.
LEMMA BegunReports ==
    ASSUME KeysTellNeeds, RunsHeld(runs), FilesHeld(runs, snapshots), MemoryHeld(runs, lastSaved),
           \A i \in 1..Len(runs) : runs[i].save \in {"done", "lost"},
           NEW scope \in ChangeScopes, NEW fleet \in ChangeFleets,
           NEW now, now = Snapshot(scope, fleet, Len(runs) + 1),
           NEW r, r = [scope |-> scope, fleet |-> fleet, snapshot |-> now,
                       changes |-> Diff(ComparableRun(scope), now), save |-> "due"]
    PROVE  r \in Run /\ Reported(Append(runs, r), Len(runs) + 1)
  <1> DEFINE n == Len(runs)
  <1>1. n \in Nat /\ n + 1 \in Nat \ {0} /\ (n + 1) - 1 = n
    BY RunsAre
  <1>2. now \in Taken
    BY <1>1 DEF Taken
  <1>3. r \in Run
    <2>1. ComparableRun(scope) \in Taken \union {NotSaved}
      BY WhatIsComparable, RunsAre
    <2>2. r.changes \in Compared
      BY <1>2, <2>1 DEF Compared
    <2>3. PICK c \in Compared : r.changes = c
      BY <2>2
    <2>4. r = [scope |-> scope, fleet |-> fleet, snapshot |-> now, changes |-> c, save |-> "due"]
      BY <2>3
    <2> QED BY <1>2, <2>4 DEF Run
  <1>4. PICK ts : ts = Append(runs, r)
    OBVIOUS
  <1>5. runs \in Seq(Run) /\ ts \in Seq(Run) /\ ts[n + 1] = r /\ \A i \in 1..n : ts[i] = runs[i]
    BY <1>3, <1>4 DEF RunsHeld
  <1>6. OfScope(ts, n + 1) = WrittenOf(runs, scope)
    <2>1. \A k \in 1..n : /\ ts[k].scope = ts[n + 1].scope <=> runs[k].scope = scope
                          /\ Wrote(ts, k) <=> Wrote(runs, k)
      BY <1>5 DEF Wrote
    <2> QED BY <1>1, <2>1 DEF OfScope, WrittenOf
  <1>7. /\ Before(ts, n + 1) \in {0} \union WrittenOf(runs, scope)
        /\ \A k \in WrittenOf(runs, scope) : k <= Before(ts, n + 1)
    <2> HIDE DEF n
    <2> QED BY <1>1, <1>6, BeforeIs
  <1>8. CASE /\ ComparableRun(scope) = NotSaved
             /\ \A k \in Nat : LastOf(runs, scope, k) => Evictable(runs, k, n + 1)
    <2>1. r.changes.previousAt = 0
      BY <1>8 DEF Diff
    <2>2. ASSUME Before(ts, n + 1) # 0 PROVE Evictable(ts, Before(ts, n + 1), n + 1)
      <3>1. PICK k \in WrittenOf(runs, scope) : k = Before(ts, n + 1)
        BY <1>7, <2>2
      <3>2. k \in 1..n /\ k \in Nat \ {0}
        BY DEF WrittenOf
      <3>3. LastOf(runs, scope, k)
        BY <1>7, <3>1 DEF LastOf
      <3>4. Evictable(runs, k, n + 1)
        BY <1>8, <3>2, <3>3
      <3>5. \A m \in 1..n : /\ runs[m].scope = ts[m].scope /\ runs[m].snapshot = ts[m].snapshot
                            /\ Wrote(runs, m) <=> Wrote(ts, m)
        BY <1>5 DEF Wrote
      <3>6. Evictable(ts, k, n + 1)
        <4> HIDE DEF n
        <4> QED BY <1>1, <3>2, <3>4, <3>5, OnlyTheEarlier
      <3> QED BY <3>1, <3>6
    <2>3. Reported(ts, n + 1)
      <3>1. ts[n + 1].changes.previousAt = 0
        BY <1>5, <2>1
      <3> QED BY <2>2, <3>1, Zenon DEF Reported
    <2> QED BY <1>3, <1>4, <2>3
  <1>9. ASSUME NEW k \in 1..n, LastOf(runs, scope, k), ComparableRun(scope) = runs[k].snapshot
        PROVE  Reported(ts, n + 1)
    <2>1. k \in WrittenOf(runs, scope) /\ runs[k].scope = scope
      BY <1>9 DEF LastOf, WrittenOf
    <2>2. Before(ts, n + 1) = k
      <3>1. Before(ts, n + 1) \in Nat /\ k <= Before(ts, n + 1)
        BY <1>7, <2>1 DEF WrittenOf
      <3>2. Before(ts, n + 1) \in WrittenOf(runs, scope)
        BY <1>1, <1>7, <3>1
      <3> QED BY <1>1, <1>9, <3>1, <3>2 DEF LastOf
    <2>3. runs[k].snapshot = Snapshot(scope, runs[k].fleet, k) /\ runs[k].fleet \in ChangeFleets
      BY <2>1, RunsAre DEF RunsHeld
    <2>4. PICK old \in ChangeFleets : old = runs[k].fleet
      BY <2>3
    <2>5. PICK c : c = Diff(Snapshot(scope, old, k), Snapshot(scope, fleet, n + 1))
      OBVIOUS
    <2>6. c.previousAt = k /\ Tells(scope, fleet, old, c, Snapshot(scope, fleet, n + 1))
      <3>1. k \in Nat \ {0} /\ n + 1 \in Nat
        BY <1>1
      <3> HIDE DEF n
      <3> QED BY <2>5, <3>1, ARunTells
    <2>7. r.changes = c /\ r.snapshot = Snapshot(scope, fleet, n + 1) /\ r.scope = scope /\ r.fleet = fleet
      BY <1>9, <2>3, <2>4, <2>5
    <2>8. /\ ts[n + 1].changes = c /\ ts[n + 1].snapshot = Snapshot(scope, fleet, n + 1)
          /\ ts[n + 1].scope = scope /\ ts[n + 1].fleet = fleet
          /\ ts[k].fleet = old /\ ts[k].scope = scope
      BY <1>5, <2>1, <2>4, <2>7
    <2> HIDE DEF n
    <2> QED BY <1>1, <2>2, <2>6, <2>8, Zenon DEF Reported
  <1> QED BY <1>3, <1>4, <1>8, <1>9, WhatIsComparable

\* A snapshot that is written takes the place of its scope's.
LEMMA WrittenHeld ==
    ASSUME NEW rs, NEW ts, RunsHeld(rs), RunsHeld(ts), Len(ts) = Len(rs), Len(rs) > 0,
           \A m \in 1..Len(rs) : Like(rs, ts, m),
           \A m \in 1..(Len(rs) - 1) : Wrote(rs, m) <=> Wrote(ts, m),
           rs[Len(rs)].save = "due", ts[Len(rs)].save = "written",
           FilesHeld(rs, snapshots), \A i \in 1..Len(rs) : Reported(rs, i),
           NEW scope, scope = rs[Len(rs)].scope
    PROVE  /\ FilesHeld(ts, Pruned(<<rs[Len(rs)].snapshot>> \o FilesBeside(scope)))
           /\ \A i \in 1..Len(ts) : Reported(ts, i)
  <1> DEFINE n == Len(rs)
  <1>1. n \in Nat /\ n \in 1..n /\ \A m \in 1..n : /\ rs[m].snapshot \in Taken /\ ts[m].snapshot \in Taken
                                                   /\ rs[m].snapshot.at = m
    BY RunsAre
  <1>2. ASSUME NEW i \in 1..n PROVE Reported(ts, i)
    <2>1. /\ i \in Nat \ {0} /\ (\A m \in 1..i : m \in 1..n)
          /\ (\A m \in 1..(i - 1) : m \in 1..(n - 1))
      BY <1>1
    <2>2. Reported(rs, i)
      OBVIOUS
    <2> QED BY <2>1, <2>2, ReportedStays
  <1>3. ~Wrote(rs, n) /\ Wrote(ts, n)
    BY DEF Wrote
  <1>4. Latest(ts, n)
    BY <1>1, <1>3 DEF Latest
  <1>5. \A m \in 1..n : ts[m].scope = rs[m].scope /\ ts[m].snapshot = rs[m].snapshot
    BY DEF Like
  <1>6. ASSUME NEW k \in 1..n, k # n, rs[k].scope # scope, Latest(rs, k) PROVE Latest(ts, k)
    <2>1. Wrote(ts, k)
      <3>1. k \in 1..(n - 1)
        BY <1>1, <1>6
      <3> QED BY <1>6, <3>1 DEF Latest
    <2>2. ASSUME NEW m \in (k + 1)..n, ts[m].scope = ts[k].scope PROVE ~Wrote(ts, m)
      <3>1. m \in 1..n
        BY <1>1
      <3>2. rs[m].scope = rs[k].scope
        BY <1>5, <2>2, <3>1
      <3>3. m # n
        BY <1>6, <3>2
      <3>4. m \in 1..(n - 1)
        BY <1>1, <3>1, <3>3
      <3> QED BY <1>6, <3>2, <3>4 DEF Latest
    <2> QED BY <2>1, <2>2 DEF Latest
  <1>7. ASSUME NEW k \in 1..n, k # n, Latest(ts, k) PROVE Latest(rs, k) /\ rs[k].scope # scope
    <2>1. Wrote(rs, k)
      <3>1. k \in 1..(n - 1)
        BY <1>1, <1>7
      <3> QED BY <1>7, <3>1 DEF Latest
    <2>2. rs[k].scope # scope
      <3>1. n \in (k + 1)..n
        BY <1>1, <1>7
      <3> QED BY <1>1, <1>3, <1>5, <1>7, <3>1 DEF Latest
    <2>3. ASSUME NEW m \in (k + 1)..n, rs[m].scope = rs[k].scope PROVE ~Wrote(rs, m)
      <3>1. m \in 1..n
        BY <1>1
      <3>2. ts[m].scope = ts[k].scope
        BY <1>5, <2>3, <3>1
      <3>3. m # n
        BY <2>2, <2>3
      <3>4. m \in 1..(n - 1)
        BY <1>1, <3>1, <3>3
      <3> QED BY <1>7, <3>2, <3>4 DEF Latest
    <2> QED BY <2>1, <2>2, <2>3 DEF Latest
  <1>8. PICK s \in Taken : s = rs[n].snapshot
    BY <1>1
  <1>19. PICK beside : beside = FilesBeside(scope)
    OBVIOUS
  <1>9. /\ beside \in Seq(Taken)
        /\ \A q \in 1..Len(beside) :
             \E p \in 1..Len(snapshots) : beside[q] = snapshots[p] /\ beside[q].scope # scope
        /\ \A p, q \in 1..Len(beside) : p < q => beside[q].at < beside[p].at
        /\ \A p \in 1..Len(snapshots) :
             snapshots[p].scope # scope => \E q \in 1..Len(beside) : beside[q] = snapshots[p]
    <2>1. snapshots \in Seq(Taken) /\ InOrder(rs, snapshots)
      BY DEF FilesHeld, InOrder
    <2>2. \A p, q \in 1..Len(snapshots) : p < q => /\ snapshots[q].at < snapshots[p].at
                                                   /\ snapshots[p].scope # snapshots[q].scope
      <3>1. \A p, q \in 1..Len(snapshots) : p < q => snapshots[q].at < snapshots[p].at
        BY <2>1 DEF InOrder
      <3>2. \A p, q \in 1..Len(snapshots) : p < q => snapshots[p].scope # snapshots[q].scope
        BY <2>1, ScopesDiffer
      <3> QED BY <3>1, <3>2
    <2>3. snapshots \in Seq(Taken)
      BY <2>1
    <2>4. \A p \in 1..Len(snapshots) : \A q \in 1..Len(snapshots) :
            p < q => snapshots[q].at < snapshots[p].at /\ snapshots[p].scope # snapshots[q].scope
      BY <2>2
    <2>5. /\ FilesBeside(scope) \in Seq(Taken)
          /\ \A q \in 1..Len(FilesBeside(scope)) :
               \E p \in 1..Len(snapshots) :
                 FilesBeside(scope)[q] = snapshots[p] /\ FilesBeside(scope)[q].scope # scope
          /\ \A p, q \in 1..Len(FilesBeside(scope)) :
               p < q => FilesBeside(scope)[q].at < FilesBeside(scope)[p].at
          /\ \A p \in 1..Len(snapshots) :
               snapshots[p].scope # scope
                 => \E q \in 1..Len(FilesBeside(scope)) : FilesBeside(scope)[q] = snapshots[p]
      BY <2>2, <2>3, <2>4, FilesBesideAre
    <2> QED BY <1>19, <2>5, Zenon
  <1>10. PICK files : files = <<s>> \o beside
    OBVIOUS
  <1>11. /\ files \in Seq(Taken) /\ Len(files) = Len(beside) + 1 /\ Len(beside) \in Nat
         /\ files[1] = s /\ \A q \in 1..Len(beside) : files[q + 1] = beside[q]
    <2>1. <<s>> \in Seq(Taken) /\ Len(<<s>>) = 1 /\ <<s>>[1] = s
      OBVIOUS
    <2>2. PICK one \in Seq(Taken) : one = <<s>> /\ Len(one) = 1 /\ one[1] = s
      BY <2>1
    <2>3. /\ one \o beside \in Seq(Taken) /\ Len(one \o beside) = Len(one) + Len(beside)
          /\ \A q \in 1..(Len(one) + Len(beside)) :
               (one \o beside)[q] = IF q <= Len(one) THEN one[q] ELSE beside[q - Len(one)]
      BY <1>9, ConcatProperties
    <2>4. Len(beside) \in Nat
      BY <1>9
    <2>5. 1 \in 1..(1 + Len(beside)) /\ \A q \in 1..Len(beside) :
            q + 1 \in 1..(1 + Len(beside)) /\ ~(q + 1 <= 1) /\ (q + 1) - 1 = q
      <3>1. PICK l \in Nat : l = Len(beside)
        BY <2>4
      <3> QED BY <3>1
    <2>6. files = one \o beside /\ Len(files) = 1 + Len(beside)
      BY <1>10, <2>2, <2>3
    <2>7. files[1] = s
      BY <2>2, <2>3, <2>5, <2>6
    <2>8. ASSUME NEW q \in 1..Len(beside) PROVE files[q + 1] = beside[q]
      <3>1. q + 1 \in 1..(Len(one) + Len(beside)) /\ ~(q + 1 <= Len(one)) /\ (q + 1) - Len(one) = q
        BY <2>2, <2>5
      <3> QED BY <2>3, <2>6, <3>1
    <2> QED BY <2>3, <2>4, <2>6, <2>7, <2>8
  <1>12. ASSUME NEW q \in 1..Len(files), q # 1
         PROVE  \E p \in 1..Len(snapshots) : q - 1 \in 1..Len(beside) /\ files[q] = beside[q - 1]
                                             /\ files[q] = snapshots[p] /\ files[q].scope # scope
    <2>1. q - 1 \in 1..Len(beside) /\ (q - 1) + 1 = q
      BY <1>11, <1>12
    <2>2. PICK p \in 1..Len(snapshots) : beside[q - 1] = snapshots[p] /\ beside[q - 1].scope # scope
      BY <1>9, <2>1
    <2>3. files[q] = beside[q - 1]
      BY <1>11, <2>1
    <2> QED BY <2>1, <2>2, <2>3
  <1>13. InOrder(ts, files)
    <2>1. ASSUME NEW q \in 1..Len(files)
          PROVE  /\ files[q].at \in 1..n /\ files[q] = ts[files[q].at].snapshot /\ Latest(ts, files[q].at)
                 /\ q # 1 => files[q].at < n
      <3>1. CASE q = 1
        BY <1>1, <1>4, <1>5, <1>8, <1>11, <3>1
      <3>2. CASE q # 1
        <4>1. PICK p \in 1..Len(snapshots) : files[q] = snapshots[p] /\ files[q].scope # scope
          BY <1>12, <3>2
        <4>8. /\ snapshots[p].at \in 1..n /\ snapshots[p] = rs[snapshots[p].at].snapshot
              /\ Latest(rs, snapshots[p].at)
          BY DEF FilesHeld, InOrder
        <4>2. PICK k \in 1..n : /\ k = files[q].at /\ files[q] = rs[k].snapshot /\ Latest(rs, k)
          BY <4>1, <4>8
        <4>3. k # n
          BY <1>3, <4>2 DEF Latest
        <4>4. rs[k].scope # scope
          <5>1. rs[k].snapshot.scope = rs[k].scope
            BY RunsAre
          <5> QED BY <4>1, <4>2, <5>1
        <4>5. Latest(ts, k)
          BY <1>6, <4>2, <4>3, <4>4
        <4>6. files[q] = ts[k].snapshot
          BY <1>5, <4>2
        <4>7. k < n
          BY <1>1, <4>3
        <4> QED BY <4>2, <4>5, <4>6, <4>7
      <3> QED BY <3>1, <3>2
    <2>2. ASSUME NEW p \in 1..Len(files), NEW q \in 1..Len(files), p < q PROVE files[q].at < files[p].at
      <3>1. q # 1
        BY <2>2
      <3>2. CASE p = 1
        BY <1>1, <1>8, <1>11, <2>1, <3>1, <3>2
      <3>3. CASE p # 1
        <4>1. /\ p - 1 \in 1..Len(beside) /\ files[p] = beside[p - 1]
              /\ q - 1 \in 1..Len(beside) /\ files[q] = beside[q - 1] /\ p - 1 < q - 1
          BY <1>12, <2>2, <3>1, <3>3
        <4> QED BY <1>9, <4>1
      <3> QED BY <3>2, <3>3
    <2> QED BY <1>11, <2>1, <2>2 DEF InOrder
  <1>20. PICK pruned : pruned = Pruned(files)
    OBVIOUS
  <1>14. PICK c \in 1..Len(files) :
           /\ pruned \in Seq(Taken) /\ Len(pruned) = c
           /\ \A p \in 1..c : pruned[p] = files[p]
           /\ \A p \in (c + 1)..Len(files) :
                p > MaxSnapshots \/ SumTo([i \in DOMAIN files |-> ItemsOf(files[i])], p) > MaxTotalBytes
    <2>1. Len(files) > 0
      BY <1>11
    <2> QED BY <1>11, <1>20, <2>1, PrunedIs
  <1>15. InOrder(ts, pruned)
    <2>1. \A p \in 1..c : p \in 1..Len(files)
      BY <1>11
    <2> QED BY <1>13, <1>14, <2>1 DEF InOrder
  <1>16. Ended(rs) = n /\ Ended(ts) = n + 1
    BY DEF Ended
  <1>17. ASSUME NEW k \in 1..n, Latest(ts, k)
         PROVE  (\E p \in 1..c : pruned[p].at = k) \/ Evictable(ts, k, n + 1)
    <2>1. CASE k = n
      <3>1. 1 \in 1..c /\ files[1].at = n
        BY <1>1, <1>8, <1>11
      <3> QED BY <1>14, <2>1, <3>1
    <2>2. CASE k # n /\ \E p \in 1..Len(snapshots) : snapshots[p].at = k
      <3>1. PICK p \in 1..Len(snapshots) : snapshots[p].at = k
        BY <2>2
      <3>2. rs[k].scope # scope
        BY <1>7, <1>17, <2>2
      <3>3. snapshots[p].scope # scope
        <4>1. snapshots[p] = rs[k].snapshot
          BY <3>1 DEF FilesHeld, InOrder
        <4> QED BY <3>2, <4>1, RunsAre
      <3>4. PICK q \in 1..Len(beside) : beside[q] = snapshots[p]
        BY <1>9, <3>3
      <3>5. PICK x \in 1..Len(files) : x = q + 1 /\ files[x].at = k /\ x # 1
        <4>1. q + 1 \in 1..Len(files) /\ q + 1 # 1
          BY <1>11
        <4> QED BY <1>11, <3>1, <3>4, <4>1
      <3>6. CASE x <= c
        <4>1. x \in 1..c
          BY <3>6
        <4> QED BY <1>14, <3>5, <4>1
      <3>7. CASE ~(x <= c)
        <4>1. x \in (c + 1)..Len(files)
          BY <1>11, <3>7
        <4>2. x > MaxSnapshots \/ SumTo([i \in DOMAIN files |-> ItemsOf(files[i])], x) > MaxTotalBytes
          BY <1>14, <4>1
        <4>3. Evictable(ts, files[x].at, Len(ts) + 1)
          BY <1>13, <3>5, <4>2, PastALimit
        <4> QED BY <3>5, <4>3
      <3> QED BY <3>6, <3>7
    <2>3. CASE k # n /\ ~\E p \in 1..Len(snapshots) : snapshots[p].at = k
      <3>1. Evictable(rs, k, n)
        BY <1>7, <1>16, <1>17, <2>3 DEF FilesHeld
      <3>2. k \in 1..(n - 1) /\ n \in Nat \ {0} /\ k \in Nat \ {0} /\ \A m \in 1..(n - 1) : m \in 1..n
        BY <1>1, <2>3
      <3>3. Evictable(ts, k, n)
        <4>1. \A m \in 1..(n - 1) : /\ rs[m].scope = ts[m].scope /\ rs[m].snapshot = ts[m].snapshot
                                    /\ Wrote(rs, m) <=> Wrote(ts, m)
          BY <1>5, <3>2
        <4> HIDE DEF n
        <4> QED BY <3>1, <3>2, <4>1, OnlyTheEarlier
      <3> HIDE DEF n
      <3> QED BY <1>1, <3>2, <3>3, EvictedStays
    <2> QED BY <2>1, <2>2, <2>3
  <1>18. FilesHeld(ts, pruned)
    BY <1>14, <1>15, <1>16, <1>17 DEF FilesHeld
  <1> QED BY <1>2, <1>8, <1>19, <1>10, <1>20, <1>18

Saves == {"due", "written", "done", "lost"}
WithSave(rs, n, v) == [rs EXCEPT ![n].save = v]

SavedIs(rs, n, v, ts) ==
    /\ RunsHeld(ts) /\ Len(ts) = n /\ n \in 1..n /\ ts[n].save = v
    /\ \A m \in 1..n : Like(rs, ts, m)
    /\ \A m \in 1..(n - 1) : ts[m] = rs[m]

LEMMA SavedAs ==
    ASSUME NEW rs, RunsHeld(rs), NEW n, n = Len(rs), n > 0, NEW v \in Saves,
           NEW ts, ts = WithSave(rs, n, v)
    PROVE  SavedIs(rs, n, v, ts)
  <1>1. rs \in Seq(Run) /\ n \in Nat /\ n \in 1..n /\ \A m \in 1..(n - 1) : m \in 1..n
    BY DEF RunsHeld
  <1>2. PICK old \in Run : old = rs[n]
    BY <1>1
  <1>3. PICK new : new = [old EXCEPT !.save = v]
    OBVIOUS
  <1>4. /\ new \in Run /\ new.save = v /\ new.scope = old.scope /\ new.fleet = old.fleet
        /\ new.snapshot = old.snapshot /\ new.changes = old.changes
    BY <1>3 DEF Run, Saves
  <1>5. ts = [rs EXCEPT ![n] = new]
    BY <1>2, <1>3 DEF WithSave
  <1>6. /\ ts \in Seq(Run) /\ Len(ts) = n /\ ts[n] = new /\ \A m \in 1..(n - 1) : ts[m] = rs[m]
    <2>1. rs \in [1..n -> Run] /\ ts \in [1..n -> Run]
      BY <1>1, <1>4, <1>5
    <2>2. ts \in Seq(Run) /\ Len(ts) = n
      BY <1>1, <2>1
    <2>3. ts[n] = new /\ \A m \in 1..(n - 1) : ts[m] = rs[m]
      BY <1>1, <1>5, <2>1
    <2> QED BY <2>2, <2>3
  <1>7. ASSUME NEW m \in 1..n PROVE Like(rs, ts, m)
    <2>1. CASE m = n
      BY <1>2, <1>4, <1>6, <2>1 DEF Like
    <2>2. CASE m # n
      <3>1. m \in 1..(n - 1)
        BY <1>1, <2>2
      <3> QED BY <1>6, <3>1 DEF Like
    <2> QED BY <2>1, <2>2
  <1>8. RunsHeld(ts)
    <2>1. \A i \in 1..n : ts[i].snapshot = Snapshot(ts[i].scope, ts[i].fleet, i)
      BY <1>7 DEF RunsHeld, Like
    <2>2. \A i \in 1..(n - 1) : ts[i].save \in {"done", "lost"}
      BY <1>6 DEF RunsHeld
    <2> QED BY <1>6, <2>1, <2>2 DEF RunsHeld
  <1> QED BY <1>1, <1>4, <1>6, <1>7, <1>8 DEF SavedIs

\* What is held stays so while the runs keep what they were and what was written of them.
LEMMA MemoryStays ==
    ASSUME NEW rs, NEW ts, Len(rs) \in Nat, Len(ts) = Len(rs), NEW ls, MemoryHeld(rs, ls),
           \A m \in 1..Len(rs) : Like(rs, ts, m) /\ (Wrote(rs, m) => Wrote(ts, m)),
           \A m \in 1..Len(rs) : Wrote(ts, m) => ts[m] = rs[m] \/ ts[m].save = "written"
    PROVE  MemoryHeld(ts, ls)
  <1>1. CASE ls = NotSaved
    BY <1>1 DEF MemoryHeld
  <1>2. CASE ls # NotSaved
    <2>1. PICK k \in 1..Len(rs) : k = ls.at /\ ls = rs[k].snapshot /\ Wrote(rs, k)
                                  /\ \A m \in (k + 1)..Len(rs) : rs[m].scope = ls.scope /\ Wrote(rs, m)
                                                                   => rs[m].save = "written"
      BY <1>2 DEF MemoryHeld
    <2>2. ASSUME NEW m \in (k + 1)..Len(ts), ts[m].scope = ls.scope, Wrote(ts, m)
          PROVE  ts[m].save = "written"
      <3>1. m \in 1..Len(rs) /\ m \in (k + 1)..Len(rs)
        OBVIOUS
      <3>2. CASE ts[m] = rs[m]
        BY <2>1, <2>2, <3>1, <3>2 DEF Wrote
      <3>3. CASE ts[m].save = "written"
        BY <3>3
      <3> QED BY <2>2, <3>1, <3>2, <3>3
    <2>3. k \in 1..Len(ts) /\ ls = ts[k].snapshot /\ Wrote(ts, k)
      BY <2>1 DEF Like
    <2> QED BY <2>1, <2>2, <2>3 DEF MemoryHeld
  <1> QED BY <1>1, <1>2

ChangesHeld ==
    /\ RunsHeld(runs) /\ FilesHeld(runs, snapshots) /\ MemoryHeld(runs, lastSaved)
    /\ \A i \in 1..Len(runs) : Reported(runs, i)

LEMMA HeldAtFirst == ASSUME ChangesInit PROVE ChangesHeld
  <1>1. Len(runs) = 0 /\ Len(snapshots) = 0 /\ runs \in Seq(Run) /\ snapshots \in Seq(Taken)
    BY DEF ChangesInit
  <1>2. RunsHeld(runs)
    BY <1>1 DEF RunsHeld
  <1>3. FilesHeld(runs, snapshots)
    BY <1>1 DEF FilesHeld, InOrder
  <1> QED BY <1>1, <1>2, <1>3 DEF ChangesHeld, ChangesInit, MemoryHeld

LEMMA HeldThroughRuns ==
    ASSUME ~RunsOverlap, KeysTellNeeds, ChangesHeld, NEW scope \in ChangeScopes, NEW fleet \in ChangeFleets,
           RunCompares(scope, fleet)
    PROVE  ChangesHeld'
  <1>1. runs \in Seq(Run) /\ Len(runs) \in Nat /\ DOMAIN runs = 1..Len(runs)
    BY DEF ChangesHeld, RunsHeld
  <1>2. \A i \in 1..Len(runs) : runs[i].save \in {"done", "lost"}
    BY <1>1 DEF RunCompares
  <1>3. PICK now : now = Snapshot(scope, fleet, Len(runs) + 1)
    OBVIOUS
  <1>4. PICK r : r = [scope |-> scope, fleet |-> fleet, snapshot |-> now,
                      changes |-> Diff(ComparableRun(scope), now), save |-> "due"]
    OBVIOUS
  <1>5. runs' = Append(runs, r) /\ snapshots' = snapshots /\ lastSaved' = lastSaved
    BY <1>3, <1>4, Zenon DEF RunCompares
  <1>6. r \in Run /\ Reported(Append(runs, r), Len(runs) + 1)
    BY <1>2, <1>3, <1>4, BegunReports DEF ChangesHeld
  <1>7. r.save = "due" /\ r.snapshot = Snapshot(r.scope, r.fleet, Len(runs) + 1)
    BY <1>3, <1>4
  <1>8. /\ RunsHeld(Append(runs, r)) /\ FilesHeld(Append(runs, r), snapshots)
        /\ MemoryHeld(Append(runs, r), lastSaved)
        /\ \A i \in 1..Len(Append(runs, r)) : Reported(Append(runs, r), i)
    <2>1. \A i \in 1..Len(runs) : runs[i].save \in {"done", "lost"} /\ Reported(runs, i)
      BY <1>2 DEF ChangesHeld
    <2> QED BY <1>6, <1>7, <2>1, BegunHeld DEF ChangesHeld
  <1> QED BY <1>5, <1>8 DEF ChangesHeld

LEMMA HeldThroughWrites ==
    ASSUME ChangesHeld, NEW i \in DOMAIN runs, SaveWrites(i)
    PROVE  ChangesHeld'
  <1>1. runs \in Seq(Run) /\ Len(runs) \in Nat /\ DOMAIN runs = 1..Len(runs)
    BY DEF ChangesHeld, RunsHeld
  <1>2. PICK n \in 1..Len(runs) : n = Len(runs) /\ n > 0 /\ i = n /\ runs[n].save = "due"
    <2>1. runs[i].save = "due"
      BY DEF SaveWrites
    <2>2. ASSUME i # Len(runs) PROVE FALSE
      <3>1. i \in 1..(Len(runs) - 1)
        BY <1>1, <2>2
      <3> QED BY <2>1, <3>1 DEF ChangesHeld, RunsHeld
    <2>3. i \in 1..Len(runs) /\ i = Len(runs) /\ i > 0
      BY <1>1, <2>2
    <2> QED BY <2>1, <2>3
  <1>7. /\ RunsHeld(runs) /\ n = Len(runs) /\ n > 0
        /\ "written" \in Saves /\ "done" \in Saves /\ "lost" \in Saves
    <2>1. RunsHeld(runs)
      BY DEF ChangesHeld
    <2>2. "written" \in Saves /\ "done" \in Saves /\ "lost" \in Saves
      BY DEF Saves
    <2>3. n = Len(runs) /\ n > 0
      BY <1>2
    <2> QED BY <2>1, <2>2, <2>3
  <1>3. PICK scope : scope = runs[n].scope /\ scope = runs[n].snapshot.scope
    <2>1. RunsHeld(runs)
      BY DEF ChangesHeld
    <2>2. runs[n].snapshot.scope = runs[n].scope
      BY <2>1, RunsAre
    <2> QED BY <2>2
  <1>4. PICK ts : ts = runs'
    OBVIOUS
  <1>5. CASE ts = WithSave(runs, n, "written")
             /\ snapshots' = Pruned(<<runs[n].snapshot>> \o FilesBeside(scope)) /\ lastSaved' = lastSaved
    <2>5. ts = WithSave(runs, n, "written")
      BY <1>5
    <2>1. /\ RunsHeld(ts) /\ Len(ts) = n /\ n \in 1..n /\ ts[n].save = "written"
          /\ \A m \in 1..n : Like(runs, ts, m)
          /\ \A m \in 1..(n - 1) : ts[m] = runs[m]
      <3>1. SavedIs(runs, n, "written", ts)
        BY <1>7, <2>5, SavedAs, Zenon
      <3> QED BY <3>1 DEF SavedIs
    <2>2. \A m \in 1..(n - 1) : Wrote(runs, m) <=> Wrote(ts, m)
      BY <2>1 DEF Wrote
    <2>3. /\ FilesHeld(ts, Pruned(<<runs[n].snapshot>> \o FilesBeside(scope)))
          /\ \A m \in 1..Len(ts) : Reported(ts, m)
      BY <1>2, <1>3, <2>1, <2>2, WrittenHeld DEF ChangesHeld
    <2>4. MemoryHeld(ts, lastSaved)
      <3>1. ASSUME NEW m \in 1..n
            PROVE  /\ Wrote(runs, m) => Wrote(ts, m)
                   /\ ts[m] = runs[m] \/ ts[m].save = "written"
        <4>1. m = n \/ m \in 1..(n - 1)
          OBVIOUS
        <4> QED BY <1>2, <2>1, <2>2, <4>1 DEF Wrote
      <3> QED BY <1>1, <1>2, <2>1, <3>1, MemoryStays DEF ChangesHeld
    <2> QED BY <1>4, <1>5, <2>1, <2>3, <2>4 DEF ChangesHeld
  <1>6. CASE ts = WithSave(runs, n, "lost") /\ snapshots' = snapshots /\ lastSaved' = lastSaved
    <2>5. ts = WithSave(runs, n, "lost")
      BY <1>6
    <2>1. /\ RunsHeld(ts) /\ Len(ts) = n /\ n \in 1..n /\ ts[n].save = "lost"
          /\ \A m \in 1..n : Like(runs, ts, m)
          /\ \A m \in 1..(n - 1) : ts[m] = runs[m]
      <3>1. SavedIs(runs, n, "lost", ts)
        BY <1>7, <2>5, SavedAs, Zenon
      <3> QED BY <3>1 DEF SavedIs
    <2>2. ASSUME NEW m \in 1..n PROVE (Wrote(runs, m) <=> Wrote(ts, m)) /\ (ts[m] = runs[m] \/ ~Wrote(ts, m))
      <3>1. m = n \/ m \in 1..(n - 1)
        OBVIOUS
      <3> QED BY <1>2, <2>1, <3>1 DEF Wrote
    <2>3. FilesHeld(ts, snapshots) /\ \A m \in 1..Len(ts) : Reported(ts, m)
      BY <1>2, <2>1, <2>2, NothingWritten DEF ChangesHeld
    <2>4. MemoryHeld(ts, lastSaved)
      BY <1>1, <1>2, <2>1, <2>2, MemoryStays DEF ChangesHeld
    <2> QED BY <1>4, <1>6, <2>1, <2>3, <2>4 DEF ChangesHeld
  <1> QED BY <1>2, <1>3, <1>4, <1>5, <1>6, Zenon DEF SaveWrites, WithSave

LEMMA HeldThroughEnds ==
    ASSUME ChangesHeld, NEW i \in DOMAIN runs, SaveRemembers(i)
    PROVE  ChangesHeld'
  <1>1. runs \in Seq(Run) /\ Len(runs) \in Nat /\ DOMAIN runs = 1..Len(runs)
    BY DEF ChangesHeld, RunsHeld
  <1>2. PICK n \in 1..Len(runs) : n = Len(runs) /\ n > 0 /\ i = n /\ runs[n].save = "written"
    <2>1. runs[i].save = "written"
      BY DEF SaveRemembers
    <2>2. ASSUME i # Len(runs) PROVE FALSE
      <3>1. i \in 1..(Len(runs) - 1)
        BY <1>1, <2>2
      <3> QED BY <2>1, <3>1 DEF ChangesHeld, RunsHeld
    <2>3. i \in 1..Len(runs) /\ i = Len(runs) /\ i > 0
      BY <1>1, <2>2
    <2> QED BY <2>1, <2>3
  <1>9. /\ RunsHeld(runs) /\ n = Len(runs) /\ n > 0
        /\ "written" \in Saves /\ "done" \in Saves /\ "lost" \in Saves
    <2>1. RunsHeld(runs)
      BY DEF ChangesHeld
    <2>2. "written" \in Saves /\ "done" \in Saves /\ "lost" \in Saves
      BY DEF Saves
    <2>3. n = Len(runs) /\ n > 0
      BY <1>2
    <2> QED BY <2>1, <2>2, <2>3
  <1>3. PICK ts : ts = WithSave(runs, n, "done")
    OBVIOUS
  <1>4. runs' = ts /\ snapshots' = snapshots /\ lastSaved' = runs[n].snapshot
    BY <1>2, <1>3, Zenon DEF SaveRemembers, WithSave
  <1>5. /\ RunsHeld(ts) /\ Len(ts) = n /\ n \in 1..n /\ ts[n].save = "done"
        /\ \A m \in 1..n : Like(runs, ts, m)
        /\ \A m \in 1..(n - 1) : ts[m] = runs[m]
    <2>1. SavedIs(runs, n, "done", ts)
      BY <1>9, <1>3, SavedAs, Zenon
    <2> QED BY <2>1 DEF SavedIs
  <1>6. ASSUME NEW m \in 1..n PROVE Wrote(runs, m) <=> Wrote(ts, m)
    <2>1. m = n \/ m \in 1..(n - 1)
      OBVIOUS
    <2> QED BY <1>2, <1>5, <2>1 DEF Wrote
  <1>7. FilesHeld(ts, snapshots) /\ \A m \in 1..Len(ts) : Reported(ts, m)
    BY <1>2, <1>5, <1>6, NothingWritten DEF ChangesHeld
  <1>8. MemoryHeld(ts, runs[n].snapshot)
    <2>1. runs[n].snapshot.at = n
      BY <1>2, RunsAre DEF ChangesHeld
    <2>2. Wrote(ts, n) /\ runs[n].snapshot = ts[n].snapshot
      BY <1>5 DEF Wrote, Like
    <2>3. ~\E m \in (n + 1)..Len(ts) : TRUE
      BY <1>1, <1>2, <1>5
    <2> QED BY <1>5, <2>1, <2>2, <2>3 DEF MemoryHeld
  <1> QED BY <1>4, <1>5, <1>7, <1>8 DEF ChangesHeld

LEMMA HeldThroughRestarts ==
    ASSUME ChangesHeld, AppRestarts
    PROVE  ChangesHeld'
  <1> DEFINE n == Len(runs)
             After(v) == CASE v = "due" -> "lost" [] v = "written" -> "done" [] OTHER -> v
  <1>1. runs \in Seq(Run) /\ n \in Nat /\ DOMAIN runs = 1..n
    BY DEF ChangesHeld, RunsHeld
  <1>2. PICK ts : ts = [m \in 1..n |-> [runs[m] EXCEPT !.save = After(runs[m].save)]]
    OBVIOUS
  <1>3. runs' = ts /\ snapshots' = snapshots /\ lastSaved' = NotSaved
    BY <1>1, <1>2 DEF AppRestarts
  <1>4. ASSUME NEW m \in 1..n
        PROVE  ts[m] \in Run /\ Like(runs, ts, m) /\ ts[m].save = After(runs[m].save)
    <2>1. PICK old \in Run : old = runs[m]
      BY <1>1
    <2>2. PICK v \in {"due", "written", "done", "lost"} : v = After(old.save)
      BY DEF Run
    <2>3. ts[m] = [old EXCEPT !.save = v]
      BY <1>2, <2>1, <2>2
    <2>4. PICK new : new = [old EXCEPT !.save = v]
      OBVIOUS
    <2>5. /\ new \in Run /\ new.save = v /\ new.scope = old.scope /\ new.fleet = old.fleet
          /\ new.snapshot = old.snapshot /\ new.changes = old.changes
      BY <2>4 DEF Run
    <2> HIDE DEF After
    <2> QED BY <2>1, <2>2, <2>3, <2>4, <2>5 DEF Like
  <1>5. ts \in Seq(Run) /\ Len(ts) = n
    <2> HIDE DEF After
    <2>1. ts \in [1..n -> Run]
      BY <1>2, <1>4
    <2> QED BY <1>1, <2>1
  <1>6. RunsHeld(ts)
    <2>1. \A m \in 1..n : ts[m].snapshot = Snapshot(ts[m].scope, ts[m].fleet, m)
      BY <1>4 DEF ChangesHeld, RunsHeld, Like
    <2>2. ASSUME NEW m \in 1..(n - 1) PROVE ts[m].save \in {"done", "lost"}
      <3>1. m \in 1..n /\ runs[m].save \in {"done", "lost"}
        BY <1>1 DEF ChangesHeld, RunsHeld
      <3> QED BY <1>4, <3>1
    <2> HIDE DEF After
    <2> QED BY <1>5, <2>1, <2>2 DEF RunsHeld
  <1>7. ASSUME NEW m \in 1..n PROVE (Wrote(runs, m) <=> Wrote(ts, m)) /\ ts[m].save # "due"
    <2>1. runs[m].save \in {"due", "written", "done", "lost"}
      BY RunsAre DEF ChangesHeld
    <2> QED BY <1>4, <2>1 DEF Wrote
  <1>8. FilesHeld(ts, snapshots) /\ \A m \in 1..Len(ts) : Reported(ts, m)
    <2>1. \A m \in 1..n : Like(runs, ts, m)
      BY <1>4
    <2>2. n > 0 => ts[n].save # "due"
      <3>1. n > 0 => n \in 1..n
        BY <1>1
      <3> QED BY <1>7, <3>1
    <2> HIDE DEF After
    <2> QED BY <1>5, <1>6, <1>7, <2>1, <2>2, NothingWritten DEF ChangesHeld
  <1> QED BY <1>3, <1>6, <1>8 DEF ChangesHeld, MemoryHeld

LEMMA HeldImpliesReported == ASSUME ChangesHeld PROVE ReportsWhatMoved
  <1>1. Len(runs) \in Nat /\ DOMAIN runs = 1..Len(runs)
    BY DEF ChangesHeld, RunsHeld
  <1>2. \A k, i : CouldBeEvicted(k, i) <=> Evictable(runs, k, i)
    BY DEF CouldBeEvicted, Evictable, Since, Sizes, WasWritten, Wrote
  <1>3. \A i : LastSavedBefore(i) = Before(runs, i)
    BY DEF LastSavedBefore, Before, OfScope, WasWritten, Wrote
  <1>4. \A i, statuses : SawAs(i, statuses) = NeedsOf(RowsAs(runs[i].scope, runs[i].fleet, statuses))
    BY DEF SawAs, NeedsOf, RowsAs
  <1> SUFFICES ASSUME NEW i \in 1..Len(runs)
               PROVE  LET c == runs[i].changes
                          k == c.previousAt
                          large == TooLarge(runs[i].snapshot)
                          Counts(changed, need) == Cardinality(changed) = Cardinality(need)
                      IN  /\ k = LastSavedBefore(i) \/ (k = 0 /\ CouldBeEvicted(LastSavedBefore(i), i))
                          /\ k # 0 =>
                               /\ Counts(c.new, SawAs(i, Backlog) \ SawAs(k, Backlog))
                               /\ Counts(c.resolved, SawAs(k, Backlog) \ (SawAs(i, Backlog) \union SawAs(i, {"FAILED"})))
                               /\ Counts(c.newlyFailed, SawAs(i, {"FAILED"}) \ SawAs(k, {"FAILED"}))
                               /\ (\E r \in runs[i].fleet : r.status = "FAILED" /\ <<r.device, PatchKey(r.title)>> \in c.resolved)
                                     => "failedReadsAsResolved" \in PanelNotes(runs[i].scope, c, large)
                               /\ PanelNotes(runs[i].scope, c, large) = Notes(runs[i].scope, c, large)
    BY <1>1, Zenon DEF ReportsWhatMoved
  <1>5. Reported(runs, i)
    BY DEF ChangesHeld
  <1>6. PICK c, k : c = runs[i].changes /\ k = c.previousAt
    OBVIOUS
  <1>7. k = LastSavedBefore(i) \/ (k = 0 /\ CouldBeEvicted(LastSavedBefore(i), i))
    BY <1>2, <1>3, <1>5, <1>6, Zenon DEF Reported
  <1>8. ASSUME k # 0
        PROVE  /\ Cardinality(c.new) = Cardinality(SawAs(i, Backlog) \ SawAs(k, Backlog))
               /\ Cardinality(c.resolved) =
                    Cardinality(SawAs(k, Backlog) \ (SawAs(i, Backlog) \union SawAs(i, {"FAILED"})))
               /\ Cardinality(c.newlyFailed) = Cardinality(SawAs(i, {"FAILED"}) \ SawAs(k, {"FAILED"}))
               /\ (\E r \in runs[i].fleet : r.status = "FAILED" /\ <<r.device, PatchKey(r.title)>> \in c.resolved)
                     => "failedReadsAsResolved" \in PanelNotes(runs[i].scope, c, TooLarge(runs[i].snapshot))
               /\ PanelNotes(runs[i].scope, c, TooLarge(runs[i].snapshot))
                    = Notes(runs[i].scope, c, TooLarge(runs[i].snapshot))
    <2>1. runs[k].scope = runs[i].scope
          /\ Tells(runs[i].scope, runs[i].fleet, runs[k].fleet, c, runs[i].snapshot)
      BY <1>5, <1>6, <1>8, Zenon DEF Reported
    <2>2. SawAs(k, Backlog) = NeedsOf(RowsAs(runs[i].scope, runs[k].fleet, Backlog))
          /\ SawAs(k, {"FAILED"}) = NeedsOf(RowsAs(runs[i].scope, runs[k].fleet, {"FAILED"}))
      BY <1>4, <2>1
    <2>3. SawAs(i, Backlog) = NeedsOf(RowsAs(runs[i].scope, runs[i].fleet, Backlog))
          /\ SawAs(i, {"FAILED"}) = NeedsOf(RowsAs(runs[i].scope, runs[i].fleet, {"FAILED"}))
      BY <1>4
    <2> QED BY <2>1, <2>2, <2>3, Zenon DEF Tells
  <1> QED BY <1>6, <1>7, <1>8, Zenon

\* While no run starts before the last one's save has ended, every run is compared with the
\* last run of its scope that was saved, or with none if that one may have been evicted, and
\* says what moved since: whatever saves fail, whatever is evicted, and whether or not the
\* application is started again in between.  It rests on a patch being found again by its
\* key, as the needs of the rows are told apart by theirs (changes.rs:96-117, 474-517,
\* 617-702).
THEOREM RunsReportWhatMoved == ~RunsOverlap /\ KeysTellNeeds => (ChangesSpec => []ReportsWhatMoved)
  <1> SUFFICES ASSUME ~RunsOverlap, KeysTellNeeds PROVE ChangesSpec => []ReportsWhatMoved
    OBVIOUS
  <1>1. ChangesInit => ChangesHeld
    BY HeldAtFirst
  <1>2. ChangesHeld /\ [ChangesNext]_changeVars => ChangesHeld'
    <2> SUFFICES ASSUME ChangesHeld, [ChangesNext]_changeVars PROVE ChangesHeld'
      OBVIOUS
    <2>1. ASSUME NEW s \in ChangeScopes, NEW f \in ChangeFleets, RunCompares(s, f) PROVE ChangesHeld'
      BY <2>1, HeldThroughRuns
    <2>2. ASSUME NEW i \in DOMAIN runs, SaveWrites(i) PROVE ChangesHeld'
      BY <2>2, HeldThroughWrites
    <2>3. ASSUME NEW i \in DOMAIN runs, SaveRemembers(i) PROVE ChangesHeld'
      BY <2>3, HeldThroughEnds
    <2>4. CASE AppRestarts
      BY <2>4, HeldThroughRestarts
    <2>5. CASE UNCHANGED changeVars
      BY <2>5 DEF ChangesHeld, changeVars
    <2> QED BY <2>1, <2>2, <2>3, <2>4, <2>5, Zenon DEF ChangesNext
  <1>3. ChangesHeld => ReportsWhatMoved
    BY HeldImpliesReported
  <1> QED BY <1>1, <1>2, <1>3, PTL DEF ChangesSpec

-----------------------------------------------------------------------------
(* TenantCache.                                                            *)

USE GateAssumption, TenantAssumption, TTLAssumption, BoundAssumption

(* The types are kept by every step.                                        *)
LEMMA TypeStep == TypeOK /\ [Next]_vars => TypeOK'
<1> SUFFICES ASSUME TypeOK, [Next]_vars PROVE TypeOK'
  OBVIOUS
<1> USE DEF TypeOK, Entry, Call, TenantAnswer, Named, Places, cacheVars, callVars, worldVars
<1>1. ASSUME NEW c \in Caller, Enter(c) PROVE TypeOK'
  <2>1. PICK t \in Tenant, n \in TTLs :
           call' = [call EXCEPT ![c] = [key |-> t, ttl |-> n, sampled |-> epoch,
                                        due |-> floor, got |-> 0, partial |-> FALSE]]
    BY <1>1 DEF Enter
  <2>2. n \in Nat
    BY TTLAssumption
  <2>3. call' \in [Caller -> Call] /\ call'[c].key = t
    BY <2>1, <2>2
  <2>4. \A d \in Caller : IF pc'[d] = "idle" THEN call'[d] = NoCall
                                             ELSE call'[d].key \in Tenant
    BY <1>1, <2>1, <2>3 DEF Enter
  <2> QED
    BY <1>1, <2>3, <2>4 DEF Enter, NoAnswer
<1>2. ASSUME NEW c \in Caller, ProbeHit(c) PROVE TypeOK'
  BY <1>2 DEF ProbeHit, Return, Cached, NoCall
<1>3. ASSUME NEW c \in Caller, ProbeMiss(c) PROVE TypeOK'
  BY <1>3 DEF ProbeMiss, Goto
<1>4. ASSUME NEW c \in Caller, TakeGate(c) PROVE TypeOK'
  BY <1>4 DEF TakeGate, Goto
<1>5. ASSUME NEW c \in Caller, GatedHit(c) PROVE TypeOK'
  BY <1>5 DEF GatedHit, Return, Cached, NoCall
<1>6. ASSUME NEW c \in Caller, GatedMiss(c) PROVE TypeOK'
  BY <1>6 DEF GatedMiss, Goto
<1>7. ASSUME NEW c \in Caller, Read(c) PROVE TypeOK'
  <2>1. PICK b \in BOOLEAN :
           call' = [call EXCEPT ![c] = [@ EXCEPT !.got = truth, !.partial = b]]
    BY <1>7 DEF Read
  <2>2. call[c] \in Call /\ pc[c] # "idle"
    BY <1>7 DEF Read
  <2>3. /\ [call[c] EXCEPT !.got = truth, !.partial = b] \in Call
        /\ [call[c] EXCEPT !.got = truth, !.partial = b].key = call[c].key
    BY <2>2
  <2>4. /\ call' \in [Caller -> Call]
        /\ \A d \in Caller : call'[d].key = call[d].key
    BY <2>1, <2>3
  <2> QED
    BY <1>7, <2>4 DEF Read, Goto
<1>8. ASSUME NEW c \in Caller, FetchError(c) PROVE TypeOK'
  BY <1>8 DEF FetchError, Return, NoCall, NoAnswer
<1>9. ASSUME NEW c \in Caller, Store(c) PROVE TypeOK'
  BY <1>9 DEF Store, Return, NoCall
<1>10. ASSUME NEW i \in Invalidator, Bump(i) PROVE TypeOK'
  BY <1>10 DEF Bump
<1>11. ASSUME NEW i \in Invalidator, Take(i) PROVE TypeOK'
  BY <1>11 DEF Take, NoEntry
<1>12. CASE Change
  BY <1>12 DEF Change
<1>13. CASE Tick
  <2> DEFINE older == slot.age + 1
  <2>1. older \in Nat
    OBVIOUS
  <2>2. [slot EXCEPT !.age = older] \in Entry
    <3> HIDE DEF older
    <3> QED BY <2>1
  <2> QED
    BY <1>13, <2>2 DEF Tick
<1>14. CASE UNCHANGED vars
  BY <1>14 DEF vars
<1> QED
  BY <1>1, <1>2, <1>3, <1>4, <1>5, <1>6, <1>7, <1>8, <1>9, <1>10, <1>11,
     <1>12, <1>13, <1>14 DEF Next, CallerStep

(* Every reachable state of the cache is well typed.                        *)
THEOREM TypeCorrect == Spec => []TypeOK
<1>1. Init => TypeOK
  BY DEF Init, TypeOK, NoEntry, NoCall, NoAnswer, Entry, Call, TenantAnswer, Named, Places
<1> QED
  BY <1>1, TypeStep, PTL DEF Spec

-----------------------------------------------------------------------------
(* A probe that hits found an entry of the caller's own tenant.             *)
LEMMA HitIsOwn ==
  ASSUME TypeOK, NEW c \in Caller, pc[c] # "idle", Fresh(c)
  PROVE  slot # NoEntry /\ slot.tenant = call[c].key /\ call[c].key \in Tenant
BY DEF TypeOK, Fresh, NoEntry, Call, Named

(* The strengthened invariant is kept by every step.                        *)
LEMMA InvStep == IInv /\ [Next]_vars => IInv'
<1> SUFFICES ASSUME IInv, [Next]_vars PROVE IInv'
  OBVIOUS
<1> USE DEF Holding
<1>0. TypeOK /\ TypeOK'
  BY TypeStep DEF IInv
<1>t. /\ truth \in Nat /\ floor \in Nat /\ epoch \in Nat /\ slot.ver \in Nat
      /\ \A d \in Caller : /\ call[d].sampled \in Nat
                          /\ call[d].due \in Nat
                          /\ call[d].got \in Nat
      /\ \A j \in Invalidator : seen[j] \in Nat
  BY <1>0 DEF TypeOK, Call, Entry
<1> USE DEF IInv, cacheVars, callVars, worldVars
<1>1. ASSUME NEW c \in Caller, Enter(c) PROVE IInv'
  <2>1. PICK t \in Tenant, n \in TTLs :
           call' = [call EXCEPT ![c] = [key |-> t, ttl |-> n, sampled |-> epoch,
                                        due |-> floor, got |-> 0, partial |-> FALSE]]
    BY <1>1 DEF Enter
  <2>2. \A d \in Caller : call'[d].due <= floor /\ call'[d].sampled <= epoch
    BY <2>1, <1>0, <1>t DEF Ordered, TypeOK
  <2>3. \A d \in Caller : pc'[d] = "fetched" =>
           d # c /\ pc[d] = "fetched" /\ call'[d] = call[d]
    BY <1>1, <2>1, <1>0 DEF Enter, TypeOK
  <2>4. SingleFlight'
    BY <1>1, <1>0 DEF Enter, SingleFlight, TypeOK
  <2> QED
    BY <1>1, <2>2, <2>3, <2>4, <1>0 DEF Enter, Ordered, FetchedIsFresh, NoStaleStore
<1>2. ASSUME NEW c \in Caller,
             ProbeHit(c) \/ GatedHit(c) \/ FetchError(c) PROVE IInv'
  <2>1. /\ UNCHANGED <<slot, epoch, worldVars>>
        /\ pc' = [pc EXCEPT ![c] = "idle"]
        /\ call' = [call EXCEPT ![c] = NoCall]
    BY <1>2 DEF ProbeHit, GatedHit, FetchError, Return
  <2>2. \A d \in Caller : call'[d].due <= floor /\ call'[d].sampled <= epoch
    BY <2>1, <1>0, <1>t DEF Ordered, TypeOK, NoCall
  <2>3. \A d \in Caller : pc'[d] = "fetched" =>
           d # c /\ pc[d] = "fetched" /\ call'[d] = call[d]
    BY <2>1, <1>0 DEF TypeOK
  <2>4. SingleFlight'
    BY <1>2, <1>0 DEF ProbeHit, GatedHit, FetchError, Return, SingleFlight, TypeOK
  <2> QED
    BY <2>1, <2>2, <2>3, <2>4, <1>0 DEF Ordered, FetchedIsFresh, NoStaleStore
<1>3. ASSUME NEW c \in Caller,
             ProbeMiss(c) \/ TakeGate(c) \/ GatedMiss(c) PROVE IInv'
  <2>1. /\ UNCHANGED <<slot, epoch, call, worldVars>>
        /\ \A d \in Caller : pc'[d] = "fetched" => pc[d] = "fetched"
    BY <1>3, <1>0 DEF ProbeMiss, TakeGate, GatedMiss, Goto, TypeOK
  <2>2. SingleFlight'
    BY <1>3, <1>0 DEF ProbeMiss, TakeGate, GatedMiss, Goto, SingleFlight, TypeOK
  <2> QED
    BY <2>1, <2>2, <1>0 DEF Ordered, FetchedIsFresh, NoStaleStore
<1>4. ASSUME NEW c \in Caller, Read(c) PROVE IInv'
  <2>1. PICK b \in BOOLEAN :
           call' = [call EXCEPT ![c] = [@ EXCEPT !.got = truth, !.partial = b]]
    BY <1>4 DEF Read
  <2>2. UNCHANGED <<cacheVars, worldVars>> /\ pc' = [pc EXCEPT ![c] = "fetched"]
    BY <1>4 DEF Read, Goto
  <2>3. /\ call[c] \in Call
        /\ call'[c] = [call[c] EXCEPT !.got = truth, !.partial = b]
        /\ \A d \in Caller : d # c => call'[d] = call[d]
    BY <2>1, <1>0 DEF TypeOK
  <2>4. call'[c].got = truth /\ call'[c].due = call[c].due
          /\ call'[c].sampled = call[c].sampled
    BY <2>3 DEF Call
  <2>5. Ordered'
    BY <2>2, <2>3, <2>4 DEF Ordered
  <2>6. FetchedIsFresh'
    <3> SUFFICES ASSUME NEW d \in Caller, pc'[d] = "fetched"
                 PROVE  /\ call'[d].due <= call'[d].got
                        /\ call'[d].got <= truth
                        /\ call'[d].sampled = epoch =>
                              /\ floor <= call'[d].got
                              /\ \A i \in Invalidator : seen[i] <= call'[d].got
      BY <2>2 DEF FetchedIsFresh
    <3>1. CASE d = c
      BY <3>1, <2>4, <1>t DEF Ordered
    <3>2. CASE d # c
      BY <3>2, <2>2, <2>3, <1>0 DEF FetchedIsFresh, TypeOK
    <3> QED
      BY <3>1, <3>2
  <2>7. SingleFlight'
    BY <1>4, <2>2, <1>0 DEF Read, SingleFlight, TypeOK
  <2> QED
    BY <2>2, <2>5, <2>6, <2>7, <1>0 DEF NoStaleStore
<1>5. ASSUME NEW c \in Caller, Store(c) PROVE IInv'
  <2>1. /\ UNCHANGED <<epoch, worldVars>>
        /\ pc[c] = "fetched"
        /\ pc' = [pc EXCEPT ![c] = "idle"]
        /\ call' = [call EXCEPT ![c] = NoCall]
        /\ slot' = slot \/ (call[c].sampled = epoch /\ slot'.ver = call[c].got)
    BY <1>5 DEF Store, Return
  <2>2. \A d \in Caller : call'[d].due <= floor /\ call'[d].sampled <= epoch
    BY <2>1, <1>0, <1>t DEF Ordered, TypeOK, NoCall
  <2>3. \A d \in Caller : pc'[d] = "fetched" =>
           d # c /\ pc[d] = "fetched" /\ call'[d] = call[d]
    BY <2>1, <1>0 DEF TypeOK
  <2>4. FetchedIsFresh'
    BY <2>1, <2>3 DEF FetchedIsFresh
  <2>5. slot'.ver <= truth /\ NoStaleStore'
    BY <2>1 DEF FetchedIsFresh, NoStaleStore, Ordered
  <2>6. SingleFlight'
    BY <1>5, <1>0 DEF Store, Return, SingleFlight, TypeOK
  <2> QED
    BY <2>1, <2>2, <2>4, <2>5, <2>6, <1>0 DEF Ordered
<1>6. ASSUME NEW i \in Invalidator, Bump(i) PROVE IInv'
  <2>1. /\ UNCHANGED <<slot, gate, callVars, truth, floor>>
        /\ epoch' = epoch + 1
        /\ \A j \in Invalidator : seen'[j] = seen[j] \/ seen'[j] = truth
    BY <1>6, <1>0 DEF Bump, TypeOK
  <2>2. \A d \in Caller : call[d].sampled <= epoch /\ call[d].sampled # epoch'
    BY <2>1, <1>t DEF Ordered
  <2>3. Ordered'
    BY <2>1, <2>2, <1>t DEF Ordered
  <2>4. FetchedIsFresh'
    BY <2>1, <2>2 DEF FetchedIsFresh
  <2> QED
    BY <2>1, <2>3, <2>4, <1>0 DEF SingleFlight, NoStaleStore
<1>7. ASSUME NEW i \in Invalidator, Take(i) PROVE IInv'
  <2>1. /\ UNCHANGED <<epoch, gate, callVars, truth>>
        /\ slot' = NoEntry
        /\ floor' = floor \/ floor' = seen[i]
        /\ floor <= floor'
        /\ \A j \in Invalidator : seen'[j] = seen[j] \/ seen'[j] = 0
    BY <1>7, <1>0, <1>t DEF Take, TypeOK
  <2>2. Ordered'
    BY <2>1, <1>t, <1>0 DEF Ordered, NoEntry, TypeOK
  <2>3. FetchedIsFresh'
    BY <2>1, <1>t DEF FetchedIsFresh
  <2> QED
    BY <2>1, <2>2, <2>3, <1>0 DEF SingleFlight, NoStaleStore
<1>8. CASE Change
  <2>1. UNCHANGED <<cacheVars, callVars, ipc, seen, floor>> /\ truth' = truth + 1
    BY <1>8 DEF Change
  <2>2. Ordered' /\ FetchedIsFresh'
    BY <2>1, <1>t DEF Ordered, FetchedIsFresh
  <2> QED
    BY <2>1, <2>2, <1>0 DEF SingleFlight, NoStaleStore
<1>9. CASE Tick
  <2>1. /\ UNCHANGED <<epoch, gate, callVars, worldVars>>
        /\ slot # NoEntry
        /\ slot'.ver = slot.ver
    BY <1>9, <1>0 DEF Tick, TypeOK, Entry
  <2> QED
    BY <2>1, <1>0 DEF Ordered, FetchedIsFresh, SingleFlight, NoStaleStore
<1>10. CASE UNCHANGED vars
  BY <1>10, <1>0 DEF vars, Ordered, FetchedIsFresh, SingleFlight, NoStaleStore
<1> QED
  BY <1>1, <1>2, <1>3, <1>4, <1>5, <1>6, <1>7, <1>8, <1>9, <1>10
     DEF Next, CallerStep

(* The strengthened invariant holds in every reachable state.               *)
THEOREM Inductive == Spec => []IInv
<1>1. Init => TypeOK
  BY DEF Init, TypeOK, NoEntry, NoCall, NoAnswer, Entry, Call, TenantAnswer, Named, Places
<1>2. Init => IInv
  BY <1>1 DEF Init, IInv, SingleFlight, Holding, Ordered, FetchedIsFresh,
              NoStaleStore, NoEntry, NoCall
<1> QED
  BY <1>2, InvStep, PTL DEF Spec

(* No entry survives an invalidation that has returned, and no fetch that   *)
(* was in flight brings one back: the slot is never older than the floor.   *)
THEOREM NeverStale == Spec => []NoStaleStore
<1>1. IInv => NoStaleStore
  BY DEF IInv
<1> QED
  BY <1>1, Inductive, PTL

(* At most one caller is past the gate, whoever is waiting.                 *)
THEOREM OneFetchAtATime == Spec => []SingleFlight
<1>1. IInv => SingleFlight
  BY DEF IInv
<1> QED
  BY <1>1, Inductive, PTL

-----------------------------------------------------------------------------
(* What a returning call answers: its own tenant, between what was due when *)
(* it called and what NinjaOne would report now.                            *)
LEMMA AnswerInRange ==
  ASSUME IInv, NEW c \in Caller,
         \/ (ProbeHit(c) \/ GatedHit(c))
         \/ Store(c)
  PROVE  \E v \in call[c].due .. truth :
            /\ answer' = [answer EXCEPT ![c] = [tenant |-> call[c].key, ver |-> v]]
            /\ call' = [call EXCEPT ![c] = NoCall]
            /\ call[c].key \in Tenant
            /\ UNCHANGED <<truth, floor>>
<1>0. TypeOK
  BY DEF IInv
<1>t. /\ truth \in Nat /\ floor \in Nat /\ slot.ver \in Nat
      /\ call[c].due \in Nat /\ call[c].got \in Nat /\ call[c].due <= floor
  BY <1>0 DEF TypeOK, Call, Entry, IInv, Ordered
<1>k. pc[c] # "idle" => call[c].key \in Tenant
  BY <1>0 DEF TypeOK, Call, Named
<1>1. CASE ProbeHit(c) \/ GatedHit(c)
  <2>1. slot # NoEntry /\ slot.tenant = call[c].key /\ pc[c] # "idle"
    BY <1>1, <1>0, HitIsOwn DEF ProbeHit, GatedHit
  <2>2. slot.ver \in call[c].due .. truth
    BY <2>1, <1>t DEF IInv, NoStaleStore, Ordered
  <2>3. /\ answer' = [answer EXCEPT ![c] = [tenant |-> call[c].key, ver |-> slot.ver]]
        /\ call' = [call EXCEPT ![c] = NoCall]
        /\ UNCHANGED <<truth, floor>>
    BY <1>1, <2>1 DEF ProbeHit, GatedHit, Return, Cached, worldVars
  <2> QED
    BY <2>1, <2>2, <2>3, <1>k
<1>2. CASE Store(c)
  <2>1. call[c].got \in call[c].due .. truth
    BY <1>2, <1>t DEF Store, IInv, FetchedIsFresh
  <2> QED
    BY <1>2, <2>1, <1>k DEF Store, Return, worldVars
<1> QED
  BY <1>1, <1>2

(* A caller is never answered for another tenant, nor with data older than  *)
(* the last invalidation that had returned when it called.                  *)
THEOREM CallersReadSettles == Spec => ReadsYourSettles
<1> DEFINE Step == \A c \in Caller :
                      answer'[c] \notin {answer[c], NoAnswer} =>
                          /\ answer'[c].tenant = call[c].key
                          /\ answer'[c].ver >= call[c].due
<1>1. IInv /\ [Next]_vars => [Step]_vars
  <2> SUFFICES ASSUME IInv, Next, NEW c \in Caller,
                      answer'[c] \notin {answer[c], NoAnswer}
               PROVE  /\ answer'[c].tenant = call[c].key
                      /\ answer'[c].ver >= call[c].due
    BY DEF Step
  <2>0. TypeOK
    BY DEF IInv
  <2>t. truth \in Nat /\ call[c].due \in Nat
    BY <2>0 DEF TypeOK, Call
  <2>1. \/ ProbeHit(c) \/ GatedHit(c)
        \/ Store(c)
    <3>1. CASE Change \/ Tick \/ \E i \in Invalidator : Bump(i) \/ Take(i)
      BY <3>1 DEF Change, Tick, Bump, Take, callVars
    <3>2. ASSUME NEW d \in Caller,
                 ProbeMiss(d) \/ TakeGate(d) \/ GatedMiss(d) \/ Read(d)
          PROVE  FALSE
      BY <3>2 DEF ProbeMiss, TakeGate, GatedMiss, Read, Goto
    <3>3. ASSUME NEW d \in Caller, Enter(d) \/ FetchError(d) PROVE FALSE
      <4>1. answer' = [answer EXCEPT ![d] = NoAnswer]
        BY <3>3 DEF Enter, FetchError, Return
      <4> QED
        BY <4>1, <2>0 DEF TypeOK
    <3>4. ASSUME NEW d \in Caller, ProbeHit(d) \/ GatedHit(d) \/ Store(d)
          PROVE  d = c
      <4>1. answer'[c] = answer[c] \/ d = c
        BY <3>4, <2>0 DEF ProbeHit, GatedHit, Store, Return, TypeOK
      <4> QED
        BY <4>1
    <3> QED
      BY <3>1, <3>2, <3>3, <3>4 DEF Next, CallerStep
  <2>2. PICK v \in call[c].due .. truth :
           answer' = [answer EXCEPT ![c] = [tenant |-> call[c].key, ver |-> v]]
    BY <2>1, AnswerInRange
  <2> QED
    BY <2>2, <2>0, <2>t DEF TypeOK
<1> QED
  BY <1>1, Inductive, PTL DEF Spec, ReadsYourSettles

-----------------------------------------------------------------------------
(* How a change of one caller's locals shows through the mapping.           *)
LEMMA AskedUpdate ==
  ASSUME call \in [Caller -> Call], NEW c \in Caller, NEW r,
         call' = [call EXCEPT ![c] = r]
  PROVE  Asked' = [Asked EXCEPT ![c] = [tenant |-> r.key, due |-> r.due]]
BY DEF Asked

(* The mapping shows a call exactly while one runs.                         *)
LEMMA AskedWhen ==
  ASSUME TypeOK, NEW c \in Caller
  PROVE  /\ Asked[c].tenant = call[c].key /\ Asked[c].due = call[c].due
         /\ pc[c] = "idle" => Asked[c] = Promise!NoCall
         /\ pc[c] # "idle" => Asked[c] # Promise!NoCall
<1>1. Asked[c] = [tenant |-> call[c].key, due |-> call[c].due]
  BY DEF Asked
<1>2. CASE pc[c] = "idle"
  BY <1>1, <1>2 DEF TypeOK, NoCall, Promise!NoCall
<1>3. CASE pc[c] # "idle"
  BY <1>1, <1>3 DEF TypeOK, Promise!NoCall
<1> QED
  BY <1>1, <1>2, <1>3

(* The cache implements FreshRead, step by step: a hit or a store is an     *)
(* Answer, a take is a Settle, and everything between is a stutter.         *)
THEOREM ImplementsFreshRead == Spec => Promise!Init /\ [][Promise!Next]_(Promise!vars)
<1>1. Init => Promise!Init
  BY DEF Init, Promise!Init, Asked, NoCall, NoAnswer, Promise!NoCall, Promise!NoAnswer
<1>2. IInv /\ [Next]_vars => [Promise!Next]_(Promise!vars)
  <2> SUFFICES ASSUME IInv, [Next]_vars PROVE [Promise!Next]_(Promise!vars)
    OBVIOUS
  <2> USE DEF Promise!vars, Promise!NoAnswer, cacheVars, callVars, worldVars
  <2>0. TypeOK
    BY DEF IInv
  <2>t. /\ truth \in Nat /\ floor \in Nat /\ floor <= truth
        /\ \A j \in Invalidator : seen[j] \in Nat /\ seen[j] <= truth
    BY <2>0 DEF TypeOK, IInv, Ordered
  <2>1. ASSUME NEW c \in Caller, Enter(c) PROVE Promise!Next
    <3>1. PICK t \in Tenant, n \in TTLs :
             call' = [call EXCEPT ![c] = [key |-> t, ttl |-> n, sampled |-> epoch,
                                          due |-> floor, got |-> 0, partial |-> FALSE]]
      BY <2>1 DEF Enter
    <3>2. Asked' = [Asked EXCEPT ![c] = [tenant |-> t, due |-> floor]]
      BY <3>1, <2>0, AskedUpdate, ZenonT(60) DEF TypeOK
    <3>3. Asked[c] = Promise!NoCall
      BY <2>1, <2>0, AskedWhen DEF Enter
    <3>4. Promise!Ask(c, t)
      BY <2>1, <3>2, <3>3 DEF Enter, Promise!Ask, NoAnswer
    <3> QED
      BY <3>4 DEF Promise!Next
  <2>2. ASSUME NEW c \in Caller,
               \/ (ProbeHit(c) \/ GatedHit(c))
               \/ Store(c)
        PROVE  Promise!Next
    <3>1. PICK v \in call[c].due .. truth :
             /\ answer' = [answer EXCEPT ![c] = [tenant |-> call[c].key, ver |-> v]]
             /\ call' = [call EXCEPT ![c] = NoCall]
             /\ UNCHANGED <<truth, floor>>
      BY <2>2, AnswerInRange
    <3>2. Asked' = [Asked EXCEPT ![c] = Promise!NoCall]
      BY <3>1, <2>0, AskedUpdate DEF TypeOK, NoCall, Promise!NoCall
    <3>3. /\ Asked[c] # Promise!NoCall
          /\ Asked[c].tenant = call[c].key /\ Asked[c].due = call[c].due
      BY <2>2, <2>0, AskedWhen DEF ProbeHit, GatedHit, Store
    <3>4. Promise!Answer(c)
      BY <3>1, <3>2, <3>3 DEF Promise!Answer
    <3> QED
      BY <3>4 DEF Promise!Next
  <2>3. ASSUME NEW c \in Caller, FetchError(c) PROVE Promise!Next
    <3>1. Asked' = [Asked EXCEPT ![c] = Promise!NoCall]
      BY <2>3, <2>0, AskedUpdate DEF FetchError, Return, TypeOK, NoCall, Promise!NoCall
    <3>2. Asked[c] # Promise!NoCall
      BY <2>3, <2>0, AskedWhen DEF FetchError
    <3>3. answer' = [answer EXCEPT ![c] = NoAnswer]
      BY <2>3 DEF FetchError, Return
    <3>4. Promise!Fail(c)
      BY <2>3, <3>1, <3>2, <3>3 DEF FetchError, Return, NoAnswer, Promise!Fail
    <3> QED
      BY <3>4 DEF Promise!Next
  <2>4. ASSUME NEW c \in Caller,
               ProbeMiss(c) \/ TakeGate(c) \/ GatedMiss(c) \/ Read(c)
        PROVE  UNCHANGED Promise!vars
    <3>1. UNCHANGED <<truth, floor, answer>>
      BY <2>4 DEF ProbeMiss, TakeGate, GatedMiss, Read, Goto
    <3>2. \A d \in Caller : call'[d].key = call[d].key /\ call'[d].due = call[d].due
      <4>1. CASE call' = call
        BY <4>1
      <4>2. CASE Read(c)
        <5>1. PICK b \in BOOLEAN :
                 call' = [call EXCEPT ![c] = [@ EXCEPT !.got = truth, !.partial = b]]
          BY <4>2 DEF Read
        <5> QED
          BY <5>1, <2>0 DEF TypeOK, Call
      <4> QED
        BY <2>4, <4>1, <4>2 DEF ProbeMiss, TakeGate, GatedMiss
    <3> QED
      BY <3>1, <3>2 DEF Asked
  <2>5. ASSUME NEW i \in Invalidator, Take(i) PROVE Promise!Next
    <3>1. UNCHANGED <<truth, answer, Asked>> /\ floor' \in floor .. truth
      BY <2>5, <2>t DEF Take, Asked
    <3> QED
      BY <3>1 DEF Promise!Next, Promise!Settle
  <2>6. ASSUME NEW i \in Invalidator, Bump(i) PROVE UNCHANGED Promise!vars
    BY <2>6 DEF Bump, Asked
  <2>7. CASE Change
    BY <2>7 DEF Change, Asked, Promise!Next, Promise!Change
  <2>8. CASE Tick
    BY <2>8 DEF Tick, Asked
  <2>9. CASE UNCHANGED vars
    BY <2>9 DEF vars, Asked
  <2> QED
    BY <2>1, <2>2, <2>3, <2>4, <2>5, <2>6, <2>7, <2>8, <2>9 DEF Next, CallerStep
<1> QED
  BY <1>1, <1>2, Inductive, PTL DEF Spec
=============================================================================
