------------------------ MODULE WorkspaceManagerProofs ------------------------
(***************************************************************************)
(* What the operations of WorkspaceManager keep, for any outputs, monitor  *)
(* lists and configurations: the lemmas behind the theorems about module   *)
(* WorkspaceTopology and about the modules that compose it with windows.   *)
(***************************************************************************)
EXTENDS WorkspaceManager, FiniteSetTheorems, SequenceTheorems, NaturalsInduction, TLAPS
-----------------------------------------------------------------------------
(* What the operators of module Ranking return, for every argument.        *)

\* A set of naturals that is not empty has a least member.
LEMMA LeastExists ==
  ASSUME NEW T \in SUBSET Nat, T # {}
  PROVE  \E m \in T : \A n \in T : m <= n
<1>1. IsWellFoundedOn(OpToRel(<, Nat), Nat)
  BY NatLessThanWellFounded
<1>2. PICK m \in T : \A n \in T : ~ (<<n, m>> \in OpToRel(<, Nat))
  BY <1>1, WFMin
<1>3. \A n \in T : ~ (n < m)
  BY <1>2 DEF OpToRel
<1> QED
  BY <1>3

\* List(f) is the list f: it only changes how TLC computes it.
LEMMA ListIs ==
  ASSUME NEW S, NEW n \in Nat, NEW f \in [1 .. n -> S]
  PROVE  List(f) = f /\ f \in Seq(S) /\ Len(f) = n /\ DOMAIN f = 1 .. n
<1>1. f \in Seq(S) /\ Len(f) = n /\ DOMAIN f = 1 .. n
  OBVIOUS
<1>2. SubSeq(f, 1, Len(f)) = f
  BY <1>1, SubSeqFull
<1> QED
  BY <1>1, <1>2 DEF List

\* index_of finds x exactly where the list has it.
LEMMA IndexOf ==
  ASSUME NEW S, NEW s \in Seq(S), NEW x
  PROVE  /\ index_of(s, x) \in 0 .. Len(s)
         /\ x \in Range(s) => index_of(s, x) \in 1 .. Len(s) /\ s[index_of(s, x)] = x
         /\ x \notin Range(s) => index_of(s, x) = 0
<1>1. DOMAIN s = 1 .. Len(s) /\ Len(s) \in Nat
  OBVIOUS
<1>2. CASE x \in Range(s)
  <2>1. \E i \in DOMAIN s : s[i] = x
    BY <1>2 DEF Range
  <2>2. index_of(s, x) \in DOMAIN s /\ s[index_of(s, x)] = x
    BY <1>2, <2>1 DEF index_of
  <2> QED
    BY <1>1, <1>2, <2>2
<1>3. CASE x \notin Range(s)
  BY <1>1, <1>3 DEF index_of
<1> QED
  BY <1>2, <1>3

\* Ranks are positions, and differ where the keys differ.
LEMMA RankOrders ==
  ASSUME NEW S, IsFiniteSet(S), NEW key \in [S -> Int], NEW x \in S, NEW y \in S
  PROVE  /\ Rank(S, key, x) \in 1 .. Cardinality(S)
         /\ key[x] < key[y] => Rank(S, key, x) < Rank(S, key, y)
<1> DEFINE Below(z) == {v \in S : key[v] <= key[z]}
<1>1. IsFiniteSet(Below(x)) /\ Cardinality(Below(x)) <= Cardinality(S)
  BY FS_Subset
<1>2. IsFiniteSet(Below(y))
  BY FS_Subset
<1>3. Cardinality(Below(x)) \in Nat /\ Cardinality(Below(y)) \in Nat /\ Cardinality(S) \in Nat
  BY <1>1, <1>2, FS_CardinalityType
<1>4. x \in Below(x)
  OBVIOUS
<1>5. Cardinality(Below(x)) # 0
  BY <1>1, <1>4, FS_EmptySet
<1>6. ASSUME key[x] < key[y]
      PROVE  Cardinality(Below(x)) < Cardinality(Below(y))
  <2>1. Below(x) \in SUBSET Below(y) /\ y \in Below(y) /\ y \notin Below(x)
    BY <1>6
  <2>2. Cardinality(Below(x)) <= Cardinality(Below(y))
        /\ (Cardinality(Below(y)) = Cardinality(Below(x)) => Below(y) = Below(x))
    BY <1>2, <2>1, FS_Subset
  <2> QED
    BY <1>3, <2>1, <2>2
<1> QED
  BY <1>1, <1>3, <1>5, <1>6 DEF Rank

\* SortedBy lists every member of S exactly once.
LEMMA SortedByLists ==
  ASSUME NEW S, IsFiniteSet(S), NEW key \in [S -> Int],
         \A x, y \in S : key[x] = key[y] => x = y
  PROVE  /\ SortedBy(S, key) \in Seq(S)
         /\ Range(SortedBy(S, key)) = S
         /\ \A i, j \in DOMAIN SortedBy(S, key) :
              SortedBy(S, key)[i] = SortedBy(S, key)[j] => i = j
         /\ \A x \in S : /\ Rank(S, key, x) \in DOMAIN SortedBy(S, key)
                         /\ SortedBy(S, key)[Rank(S, key, x)] = x
<1> DEFINE n == Cardinality(S)
           rank == [x \in S |-> Rank(S, key, x)]
           f == [k \in 1 .. n |-> CHOOSE x \in S : Rank(S, key, x) = k]
<1>1. n \in Nat
  BY FS_CardinalityType
<1>2. rank \in Injection(S, 1 .. n)
  <2>1. \A x, y \in S : rank[x] = rank[y] => x = y
    <3> SUFFICES ASSUME NEW x \in S, NEW y \in S, x # y
                 PROVE  rank[x] # rank[y]
      OBVIOUS
    <3>1. key[x] \in Int /\ key[y] \in Int /\ key[x] # key[y]
      OBVIOUS
    <3>2. key[x] < key[y] => rank[x] < rank[y]
      BY RankOrders
    <3>3. key[y] < key[x] => rank[y] < rank[x]
      BY RankOrders
    <3>4. rank[x] \in 1 .. n /\ rank[y] \in 1 .. n
      BY RankOrders
    <3> QED
      BY <1>1, <3>1, <3>2, <3>3, <3>4
  <2>2. rank \in [S -> 1 .. n]
    BY RankOrders
  <2> QED
    BY <2>1, <2>2 DEF Injection, IsInjective
<1>3. IsFiniteSet(1 .. n) /\ Cardinality(1 .. n) = n
  BY <1>1, FS_Interval
<1>4. rank \in Surjection(S, 1 .. n)
  BY <1>2, <1>3, FS_Injection
<1>5. \A k \in 1 .. n : \E x \in S : Rank(S, key, x) = k
  BY <1>4 DEF Surjection
<1>6. \A k \in 1 .. n : f[k] \in S /\ Rank(S, key, f[k]) = k
  BY <1>5
<1>7. f \in [1 .. n -> S]
  BY <1>6
<1>8. SortedBy(S, key) = f /\ f \in Seq(S) /\ DOMAIN f = 1 .. n
  BY <1>1, <1>7, ListIs, ZenonT(60) DEF SortedBy
<1>9. \A x \in S : f[Rank(S, key, x)] = x
  <2> SUFFICES ASSUME NEW x \in S PROVE f[Rank(S, key, x)] = x
    OBVIOUS
  <2>1. Rank(S, key, x) \in 1 .. n
    BY RankOrders
  <2>2. rank[f[Rank(S, key, x)]] = rank[x] /\ f[Rank(S, key, x)] \in S
    BY <1>6, <2>1
  <2> QED
    BY <1>2, <2>2 DEF Injection, IsInjective
<1>10. Range(f) = S
  <2>1. \A x \in S : x \in Range(f)
    BY <1>7, <1>9, RankOrders DEF Range
  <2>2. Range(f) \subseteq S
    BY <1>7 DEF Range
  <2> QED
    BY <2>1, <2>2
<1>11. \A i, j \in DOMAIN f : f[i] = f[j] => i = j
  BY <1>6, <1>8
<1>12. \A x \in S : Rank(S, key, x) \in DOMAIN f
  BY <1>8, RankOrders
<1> QED
  BY <1>8, <1>9, <1>10, <1>11, <1>12

\* SortedBy lists them in ascending order of key.
LEMMA SortedByOrders ==
  ASSUME NEW S, IsFiniteSet(S), NEW key \in [S -> Int],
         \A x, y \in S : key[x] = key[y] => x = y,
         NEW x \in S, NEW y \in S, key[x] < key[y]
  PROVE  index_of(SortedBy(S, key), x) < index_of(SortedBy(S, key), y)
<1> DEFINE s == SortedBy(S, key)
<1>1. /\ s \in Seq(S) /\ Range(s) = S
      /\ \A i, j \in DOMAIN s : s[i] = s[j] => i = j
      /\ \A z \in S : Rank(S, key, z) \in DOMAIN s /\ s[Rank(S, key, z)] = z
  BY SortedByLists
<1> HIDE DEF s
<1>2. ASSUME NEW z \in S PROVE index_of(s, z) = Rank(S, key, z)
  <2>1. index_of(s, z) \in 1 .. Len(s) /\ s[index_of(s, z)] = z
    BY <1>1, IndexOf
  <2>2. index_of(s, z) \in DOMAIN s
    BY <1>1, <2>1
  <2> QED
    BY <1>1, <2>1, <2>2
<1>3. Rank(S, key, x) < Rank(S, key, y)
  BY RankOrders
<1> QED
  BY <1>2, <1>3 DEF s

\* Of two lists of the same elements in the same order, each once, the second
\* begins like the first.
LEMMA SameStart ==
  ASSUME NEW T, NEW p \in Seq(T), NEW q \in Seq(T), Range(p) = Range(q),
         \A i, j \in DOMAIN p : p[i] = p[j] => i = j,
         \A i, j \in DOMAIN q : q[i] = q[j] => i = j,
         \A x, y \in Range(p) : index_of(p, x) < index_of(p, y) =>
                                index_of(q, x) < index_of(q, y)
  PROVE  \A k \in 1 .. Len(p) : k <= Len(q) /\ p[k] = q[k]
<1> DEFINE Off == {k \in 1 .. Len(p) : ~ (k <= Len(q) /\ p[k] = q[k])}
<1> SUFFICES ASSUME Off # {} PROVE FALSE
  OBVIOUS
<1>1. /\ Len(p) \in Nat /\ DOMAIN p = 1 .. Len(p)
      /\ Len(q) \in Nat /\ DOMAIN q = 1 .. Len(q)
  OBVIOUS
<1>2. Off \in SUBSET Nat
  BY <1>1
<1>3. PICK k \in Off : \A j \in Off : k <= j
  BY <1>2, LeastExists
<1>4. k \in 1 .. Len(p) /\ k \in Nat /\ ~ (k <= Len(q) /\ p[k] = q[k])
  BY <1>1, <1>3
<1>5. \A j \in 1 .. Len(p) : j < k => j <= Len(q) /\ p[j] = q[j]
  BY <1>1, <1>3, <1>4
<1> HIDE DEF Off
<1>6. p[k] \in Range(q)
  BY <1>1, <1>4 DEF Range
<1>7. PICK a \in 1 .. Len(q) : q[a] = p[k]
  BY <1>1, <1>6 DEF Range
<1>8. ~ (a < k)
  <2> SUFFICES ASSUME a < k PROVE FALSE
    OBVIOUS
  <2>1. a \in 1 .. Len(p)
    BY <1>1, <1>4, <1>7
  <2>2. p[a] = q[a]
    BY <1>5, <2>1
  <2> QED
    BY <1>1, <1>4, <1>7, <2>1, <2>2
<1>9. k < a /\ k \in 1 .. Len(q)
  BY <1>1, <1>4, <1>7, <1>8
<1>10. PICK b \in 1 .. Len(p) : p[b] = q[k]
  <2>1. q[k] \in Range(p)
    BY <1>1, <1>9 DEF Range
  <2> QED
    BY <1>1, <2>1 DEF Range
<1>11. ~ (b < k)
  <2> SUFFICES ASSUME b < k PROVE FALSE
    OBVIOUS
  <2>1. p[b] = q[b] /\ b \in 1 .. Len(q)
    BY <1>1, <1>5, <1>9, <1>10
  <2>2. b \in DOMAIN q /\ k \in DOMAIN q /\ q[b] = q[k]
    BY <1>1, <1>9, <1>10, <2>1
  <2>3. b = k
    BY <2>2
  <2> QED
    BY <1>4, <2>3
<1>12. k < b
  BY <1>1, <1>4, <1>9, <1>10, <1>11
<1>13. \A i \in 1 .. Len(p) : index_of(p, p[i]) = i
  <2> TAKE i \in 1 .. Len(p)
  <2>1. p[i] \in Range(p)
    BY <1>1 DEF Range
  <2>2. index_of(p, p[i]) \in 1 .. Len(p) /\ p[index_of(p, p[i])] = p[i]
    BY <2>1, IndexOf
  <2> QED
    BY <1>1, <2>2
<1>14. \A i \in 1 .. Len(q) : index_of(q, q[i]) = i
  <2> TAKE i \in 1 .. Len(q)
  <2>1. q[i] \in Range(q)
    BY <1>1 DEF Range
  <2>2. index_of(q, q[i]) \in 1 .. Len(q) /\ q[index_of(q, q[i])] = q[i]
    BY <2>1, IndexOf
  <2> QED
    BY <1>1, <2>2
<1>15. index_of(p, p[k]) < index_of(p, p[b])
  BY <1>4, <1>10, <1>12, <1>13
<1>16. p[k] \in Range(p) /\ p[b] \in Range(p)
  BY <1>1, <1>4, <1>10 DEF Range
<1>17. index_of(q, p[k]) < index_of(q, p[b])
  BY <1>15, <1>16
<1>18. index_of(q, p[k]) = a /\ index_of(q, p[b]) = k
  BY <1>7, <1>9, <1>10, <1>14
<1> QED
  BY <1>1, <1>4, <1>7, <1>9, <1>17, <1>18

\* Two lists of the same elements in the same order, each once, are equal.
LEMMA SameList ==
  ASSUME NEW T, NEW p \in Seq(T), NEW q \in Seq(T), Range(p) = Range(q),
         \A i, j \in DOMAIN p : p[i] = p[j] => i = j,
         \A i, j \in DOMAIN q : q[i] = q[j] => i = j,
         \A x, y \in Range(p) : index_of(p, x) < index_of(p, y) =>
                                index_of(q, x) < index_of(q, y)
  PROVE  p = q
<1>1. \A k \in 1 .. Len(p) : k <= Len(q) /\ p[k] = q[k]
  BY SameStart
<1>2. Len(p) \in Nat /\ Len(q) \in Nat /\ DOMAIN q = 1 .. Len(q) /\ DOMAIN p = 1 .. Len(p)
  OBVIOUS
<1>3. \A k \in 1 .. Len(q) : k <= Len(p)
  <2> SUFFICES ASSUME NEW k \in 1 .. Len(q) PROVE k <= Len(p)
    OBVIOUS
  <2>1. q[k] \in Range(p)
    BY <1>2 DEF Range
  <2>2. PICK j \in 1 .. Len(p) : p[j] = q[k]
    BY <1>2, <2>1 DEF Range
  <2>3. j <= Len(q) /\ q[j] = q[k]
    BY <1>1, <2>2
  <2> QED
    BY <1>2, <2>2, <2>3
<1> DEFINE a == Len(p)
           b == Len(q)
<1>4. a \in Nat /\ b \in Nat /\ (a > 0 => a <= b) /\ (b > 0 => b <= a)
  BY <1>1, <1>2, <1>3
<1> HIDE DEF a, b
<1>5. a = b
  BY <1>4
<1>6. Len(p) = Len(q)
  BY <1>5 DEF a, b
<1> QED
  BY <1>1, <1>2, <1>6

\* Keep drops the other elements of a list and repeats none.
LEMMA KeepLists ==
  ASSUME NEW T, NEW s \in Seq(T), NEW S
  PROVE  /\ Keep(s, S) \in Seq(T \cap S)
         /\ Range(Keep(s, S)) = Range(s) \cap S
         /\ \A i, j \in DOMAIN Keep(s, S) : Keep(s, S)[i] = Keep(s, S)[j] => i = j
<1> DEFINE R == Range(s) \cap S
           key == [x \in R |-> index_of(s, x)]
<1>1. R \subseteq T \cap S
  BY DEF Range
<1>2. IsFiniteSet(R)
  <2>1. s \in Surjection(1 .. Len(s), Range(s))
    BY DEF Surjection, Range
  <2>2. IsFiniteSet(1 .. Len(s))
    BY FS_Interval
  <2>3. IsFiniteSet(Range(s))
    BY <2>1, <2>2, FS_Surjection
  <2> QED
    BY <2>3, FS_Subset
<1>3. key \in [R -> Int]
  BY IndexOf
<1>4. \A x, y \in R : key[x] = key[y] => x = y
  BY IndexOf
<1>5. /\ SortedBy(R, key) \in Seq(R)
      /\ Range(SortedBy(R, key)) = R
      /\ \A i, j \in DOMAIN SortedBy(R, key) :
           SortedBy(R, key)[i] = SortedBy(R, key)[j] => i = j
  BY <1>2, <1>3, <1>4, SortedByLists
<1>6. Keep(s, S) = SortedBy(R, key)
  BY DEF Keep
<1>7. SortedBy(R, key) \in Seq(T \cap S)
  BY <1>1, <1>5, SeqMonotonic
<1> QED
  BY <1>5, <1>6, <1>7
-----------------------------------------------------------------------------
(* The operations of the manager.                                          *)

\* A set of positions of a list that is not empty has a greatest member.
LEMMA GreatestExists ==
  ASSUME NEW k \in Nat, NEW T \in SUBSET (1 .. k), T # {}
  PROVE  \E m \in T : \A n \in T : n <= m
<1> DEFINE U == {k - i : i \in T}
<1>1. U \in SUBSET Nat /\ U # {}
  <2>1. \A i \in T : k - i \in Nat
    OBVIOUS
  <2>2. PICK i \in T : TRUE
    OBVIOUS
  <2>3. k - i \in U
    OBVIOUS
  <2> QED
    BY <2>1, <2>3
<1>2. PICK d \in U : \A e \in U : d <= e
  BY <1>1, LeastExists
<1>3. PICK m \in T : d = k - m
  BY <1>2
<1>4. \A n \in T : k - m <= k - n
  BY <1>2, <1>3
<1> QED
  BY <1>4

-----------------------------------------------------------------------------
(* The private helpers.                                                    *)

\* monitor_index_by_name finds a monitor by its name, or says there is none.
LEMMA IndexByName ==
  ASSUME NEW mons \in Seq(Outputs), NEW o
  PROVE  /\ monitor_index_by_name(mons, o) \in 0 .. Len(mons)
         /\ o \in Range(mons) =>
              /\ monitor_index_by_name(mons, o) \in 1 .. Len(mons)
              /\ mons[monitor_index_by_name(mons, o)] = o
BY IndexOf DEF monitor_index_by_name

\* A monitor shows nothing, or a workspace of its pool.
LEMMA ActiveOf ==
  ASSUME NEW n \in Nat, NEW t \in Fields(n), NEW m,
         Len(t.monitor_pools) = Len(t.monitors)
  PROVE  /\ active_ws_of_monitor(t, m) \in 0 .. n
         /\ active_ws_of_monitor(t, m) > 0 =>
              /\ m \in 1 .. Len(t.monitors)
              /\ active_ws_of_monitor(t, m) \in Range(t.monitor_pools[m])
<1>1. /\ t.monitor_pools \in Seq(Seq(1 .. n)) /\ t.monitor_active_local \in Seq(Nat)
      /\ DOMAIN t.monitor_pools = 1 .. Len(t.monitors)
  BY DEF Fields
<1>2. CASE m \notin DOMAIN t.monitor_pools \/ t.monitor_pools[m] = <<>>
  BY <1>2 DEF active_ws_of_monitor
<1>3. CASE m \in DOMAIN t.monitor_pools /\ t.monitor_pools[m] # <<>>
  <2> DEFINE pool == t.monitor_pools[m]
             a    == active_ws_of_monitor(t, m)
  <2>1. pool \in Seq(1 .. n) /\ Len(pool) \in Nat /\ 1 \in 1 .. Len(pool)
    BY <1>1, <1>3
  <2>2. \E i \in 1 .. Len(pool) : a = pool[i]
    <3>1. CASE t.monitor_active_local[m] \in DOMAIN pool
      BY <1>3, <2>1, <3>1 DEF active_ws_of_monitor
    <3>2. CASE t.monitor_active_local[m] \notin DOMAIN pool
      BY <1>3, <2>1, <3>2 DEF active_ws_of_monitor
    <3> QED
      BY <3>1, <3>2
  <2>3. a \in 1 .. n /\ a \in Range(pool)
    BY <2>1, <2>2 DEF Range
  <2> QED
    BY <1>1, <1>3, <2>3
<1> QED
  BY <1>2, <1>3

\* sync_monitors_active_ws refreshes the copies and nothing else.
LEMMA SyncActive ==
  ASSUME NEW n \in Nat, NEW t \in Fields(n),
         Len(t.monitor_pools) = Len(t.monitors)
  PROVE  LET u == sync_monitors_active_ws(t)
         IN  /\ u \in Fields(n)
             /\ u = [t EXCEPT !.active_ws = u.active_ws]
             /\ Len(u.active_ws) = Len(t.monitors)
             /\ \A m \in 1 .. Len(t.monitors) :
                  /\ u.active_ws[m] = active_ws_of_monitor(u, m)
                  /\ u.active_ws[m] <= n
<1> DEFINE u == sync_monitors_active_ws(t)
           f == [m \in DOMAIN t.monitors |-> active_ws_of_monitor(t, m)]
<1>1. DOMAIN t.monitors = 1 .. Len(t.monitors) /\ Len(t.monitors) \in Nat
  BY DEF Fields
<1>2. f \in [1 .. Len(t.monitors) -> 0 .. n]
  BY <1>1, ActiveOf
<1>3. List(f) = f /\ f \in Seq(0 .. n) /\ Len(f) = Len(t.monitors)
  BY <1>1, <1>2, ListIs, ZenonT(60)
<1>4. f \in Seq(Nat)
  BY <1>3, SeqMonotonic
<1>5. u = [t EXCEPT !.active_ws = f]
  BY <1>3 DEF sync_monitors_active_ws
<1>6. u \in Fields(n) /\ u.active_ws = f
  BY <1>4, <1>5 DEF Fields
<1>7. /\ u.monitor_pools = t.monitor_pools /\ u.monitors = t.monitors
      /\ u.monitor_active_local = t.monitor_active_local
  BY <1>5 DEF Fields
<1>8. \A m : active_ws_of_monitor(u, m) = active_ws_of_monitor(t, m)
  BY <1>7 DEF active_ws_of_monitor
<1> QED
  BY <1>1, <1>2, <1>3, <1>5, <1>6, <1>8

\* select_valid_focused_monitor picks some monitor and changes nothing else.
LEMMA SelectFocused ==
  ASSUME NEW n \in Nat, NEW t \in Fields(n)
  PROVE  LET u == select_valid_focused_monitor(t)
         IN  u \in Fields(n) /\ u = [t EXCEPT !.focused_monitor = u.focused_monitor]
<1> DEFINE showing == {m \in DOMAIN t.monitors : active_ws_of_monitor(t, m) > 0}
           here    == IF is_mon_valid(t, t.focused_monitor) THEN t.focused_monitor ELSE 1
           first   == IF showing = {} THEN 1
                      ELSE CHOOSE m \in showing : \A k \in showing : m <= k
           f       == IF here \in showing THEN here ELSE first
<1>1. showing \in SUBSET Nat
  BY DEF Fields
<1>2. first \in Nat
  <2>1. CASE showing = {}
    BY <2>1
  <2>2. CASE showing # {}
    <3>1. \E m \in showing : \A k \in showing : m <= k
      BY <1>1, <2>2, LeastExists
    <3> QED
      BY <1>1, <2>2, <3>1
  <2> QED
    BY <2>1, <2>2
<1>3. here \in Nat
  BY DEF Fields
<1>4. f \in Nat
  BY <1>2, <1>3
<1>5. select_valid_focused_monitor(t) = [t EXCEPT !.focused_monitor = f]
  BY DEF select_valid_focused_monitor
<1> HIDE DEF f
<1> QED
  BY <1>4, <1>5 DEF Fields

\* rebuild_pools_from_owner lists every owned workspace once and selects a
\* workspace of the pool, whatever the seeds are.
LEMMA Rebuild ==
  ASSUME NEW n \in Nat, NEW t \in Fields(n), NEW preferred,
         NEW seed \in [1 .. Len(t.monitors) -> Seq(Nat)]
  PROVE  LET u == rebuild_pools_from_owner(t, seed, preferred)
         IN  /\ u \in Fields(n)
             /\ u = [t EXCEPT !.monitor_pools = u.monitor_pools,
                              !.monitor_active_local = u.monitor_active_local]
             /\ Len(u.monitor_pools) = Len(t.monitors)
             /\ Len(u.monitor_active_local) = Len(t.monitors)
             /\ ListsOwned(u)
             /\ ActiveInPool(u)
<1> DEFINE M        == Len(t.monitors)
           owned(m) == {ws \in DOMAIN t.ws_owner : t.ws_owner[ws] = m}
           key(m)   == [ws \in owned(m) |-> IF ws \in Range(seed[m])
                                            THEN index_of(seed[m], ws)
                                            ELSE Len(seed[m]) + ws]
           sorted   == [m \in DOMAIN t.monitors |-> SortedBy(owned(m), key(m))]
           pools    == List(sorted)
           local(m) == IF pools[m] = <<>> THEN 0
                       ELSE IF preferred[m] \in Range(pools[m])
                            THEN index_of(pools[m], preferred[m]) ELSE 1
           locals   == [m \in DOMAIN t.monitors |-> local(m)]
           u        == rebuild_pools_from_owner(t, seed, preferred)
<1>1. M \in Nat /\ DOMAIN t.monitors = 1 .. M /\ DOMAIN t.ws_owner = 1 .. n
  BY DEF Fields
<1>2. ASSUME NEW m \in 1 .. M
      PROVE  /\ SortedBy(owned(m), key(m)) \in Seq(owned(m))
             /\ SortedBy(owned(m), key(m)) \in Seq(1 .. n)
             /\ Range(SortedBy(owned(m), key(m))) = owned(m)
             /\ \A i, j \in DOMAIN SortedBy(owned(m), key(m)) :
                  SortedBy(owned(m), key(m))[i] = SortedBy(owned(m), key(m))[j] => i = j
  <2>1. owned(m) \subseteq 1 .. n
    BY <1>1
  <2>2. IsFiniteSet(owned(m))
    <3>1. IsFiniteSet(1 .. n)
      BY FS_Interval
    <3> QED
      BY <2>1, <3>1, FS_Subset
  <2>3. seed[m] \in Seq(Nat) /\ Len(seed[m]) \in Nat
    OBVIOUS
  <2>4. \A ws : /\ index_of(seed[m], ws) \in 0 .. Len(seed[m])
                /\ ws \in Range(seed[m]) => seed[m][index_of(seed[m], ws)] = ws
    BY <2>3, IndexOf
  <2>5. key(m) \in [owned(m) -> Int]
    BY <2>1, <2>3, <2>4
  <2>6. \A x, y \in owned(m) : key(m)[x] = key(m)[y] => x = y
    <3> SUFFICES ASSUME NEW x \in owned(m), NEW y \in owned(m), key(m)[x] = key(m)[y]
                 PROVE  x = y
      OBVIOUS
    <3>0. x \in 1 .. n /\ y \in 1 .. n
      BY <2>1
    <3>1. CASE x \in Range(seed[m]) /\ y \in Range(seed[m])
      BY <2>4, <3>1
    <3>2. CASE x \in Range(seed[m]) /\ y \notin Range(seed[m])
      BY <2>3, <2>4, <3>0, <3>2
    <3>3. CASE x \notin Range(seed[m]) /\ y \in Range(seed[m])
      BY <2>3, <2>4, <3>0, <3>3
    <3>4. CASE x \notin Range(seed[m]) /\ y \notin Range(seed[m])
      BY <2>3, <3>0, <3>4
    <3> QED
      BY <3>1, <3>2, <3>3, <3>4
  <2> HIDE DEF key, owned
  <2>7. /\ SortedBy(owned(m), key(m)) \in Seq(owned(m))
        /\ Range(SortedBy(owned(m), key(m))) = owned(m)
        /\ \A i, j \in DOMAIN SortedBy(owned(m), key(m)) :
             SortedBy(owned(m), key(m))[i] = SortedBy(owned(m), key(m))[j] => i = j
    BY <2>2, <2>5, <2>6, SortedByLists
  <2> QED
    BY <2>1, <2>7, SeqMonotonic
<1>3. sorted \in [1 .. M -> Seq(1 .. n)]
  BY <1>1, <1>2
<1>3a. \A m \in 1 .. M : sorted[m] = SortedBy(owned(m), key(m))
  BY <1>1
<1> HIDE DEF sorted, owned, key
<1>4. pools = sorted /\ pools \in Seq(Seq(1 .. n)) /\ Len(pools) = M
  <2> DEFINE Lists == Seq(1 .. n)
  <2>1. sorted \in [1 .. M -> Lists]
    BY <1>3
  <2> HIDE DEF Lists
  <2>2. List(sorted) = sorted /\ sorted \in Seq(Lists) /\ Len(sorted) = M
    BY <1>1, <2>1, ListIs
  <2> QED
    BY <2>2 DEF Lists
<1>5. \A m \in 1 .. M : /\ pools[m] \in Seq(1 .. n)
                         /\ Range(pools[m]) = owned(m)
                         /\ \A i, j \in DOMAIN pools[m] : pools[m][i] = pools[m][j] => i = j
  <2> SUFFICES ASSUME NEW m \in 1 .. M
               PROVE  /\ pools[m] \in Seq(1 .. n)
                      /\ Range(pools[m]) = owned(m)
                      /\ \A i, j \in DOMAIN pools[m] : pools[m][i] = pools[m][j] => i = j
    OBVIOUS
  <2>1. pools[m] = SortedBy(owned(m), key(m))
    BY <1>3a, <1>4
  <2> QED
    BY <1>2, <2>1
<1> HIDE DEF pools
<1>6. \A m \in 1 .. M : /\ locals[m] \in Nat
                         /\ (pools[m] # <<>> => locals[m] \in DOMAIN pools[m])
  <2> SUFFICES ASSUME NEW m \in 1 .. M
               PROVE  /\ locals[m] \in Nat
                      /\ (pools[m] # <<>> => locals[m] \in DOMAIN pools[m])
    OBVIOUS
  <2>0. locals[m] = local(m)
    BY <1>1
  <2>1. pools[m] \in Seq(1 .. n) /\ Len(pools[m]) \in Nat
        /\ DOMAIN pools[m] = 1 .. Len(pools[m])
    BY <1>5
  <2>2. CASE pools[m] = <<>>
    BY <2>0, <2>2
  <2>3. CASE pools[m] # <<>>
    <3>1. 1 \in DOMAIN pools[m]
      BY <2>1, <2>3
    <3>2. preferred[m] \in Range(pools[m]) =>
            index_of(pools[m], preferred[m]) \in 1 .. Len(pools[m])
      BY <2>1, IndexOf
    <3>3. local(m) \in DOMAIN pools[m]
      BY <2>1, <2>3, <3>1, <3>2
    <3> QED
      BY <2>0, <2>1, <3>3
  <2> QED
    BY <2>2, <2>3
<1>7. locals \in [1 .. M -> Nat]
  <2>1. \A m \in 1 .. M : locals[m] = local(m) /\ locals[m] \in Nat
    BY <1>1, <1>6
  <2>2. \A m \in 1 .. M : local(m) \in Nat
    BY <2>1
  <2> HIDE DEF local
  <2> QED
    BY <1>1, <2>2
<1>7a. u = [t EXCEPT !.monitor_pools = pools, !.monitor_active_local = List(locals)]
  BY DEF rebuild_pools_from_owner, pools, sorted, key, owned
<1> HIDE DEF locals, u
<1>8. List(locals) = locals /\ locals \in Seq(Nat) /\ Len(locals) = M
  BY <1>1, <1>7, ListIs
<1>9. u = [t EXCEPT !.monitor_pools = pools, !.monitor_active_local = locals]
  BY <1>7a, <1>8
<1>11. u \in Fields(n) /\ u.monitor_pools = pools /\ u.monitor_active_local = locals
       /\ u.monitors = t.monitors /\ u.ws_owner = t.ws_owner
  BY <1>4, <1>8, <1>9 DEF Fields
<1>12. ListsOwned(u)
  <2> SUFFICES ASSUME NEW m \in 1 .. M
               PROVE  /\ Range(u.monitor_pools[m]) =
                           {ws \in DOMAIN u.ws_owner : u.ws_owner[ws] = m}
                      /\ \A i, j \in DOMAIN u.monitor_pools[m] :
                           u.monitor_pools[m][i] = u.monitor_pools[m][j] => i = j
    BY <1>1, <1>11 DEF ListsOwned
  <2>1. owned(m) = {ws \in DOMAIN u.ws_owner : u.ws_owner[ws] = m}
    BY <1>11 DEF owned
  <2> QED
    BY <1>5, <1>11, <2>1
<1>13. ActiveInPool(u)
  BY <1>1, <1>6, <1>11 DEF ActiveInPool
<1> QED
  BY <1>4, <1>8, <1>9, <1>11, <1>12, <1>13 DEF u

-----------------------------------------------------------------------------
(* The inductive invariant, and what every operation makes of it.          *)

\* What assign_workspaces needs of the state it is given.
Draft(t, n) ==
  /\ t \in Fields(n)
  /\ Len(t.monitor_pools) = Len(t.monitors)
  /\ Len(t.active_ws) = Len(t.monitors)

Refreshed(t) ==
  \A m \in DOMAIN t.monitors : t.active_ws[m] = active_ws_of_monitor(t, m)

\* What every operation leaves, and needs when it starts.
Sound(t, n) ==
  WellFormed(t, n) /\ ListsOwned(t) /\ AllOwned(t) /\ ActiveInPool(t) /\ Refreshed(t)

\* The state u is as sound as t, with the same monitors and owners.
Keeps(t, u, n) ==
  Sound(u, n) /\ u.monitors = t.monitors /\ u.ws_owner = t.ws_owner

\* The three steps set_monitors and assign_workspaces end with.
LEMMA Finish ==
  ASSUME NEW n \in Nat, NEW t \in Fields(n), NEW preferred,
         NEW seed \in [1 .. Len(t.monitors) -> Seq(Nat)],
         \A ws \in 1 .. n : t.ws_owner[ws] <= Len(t.monitors)
  PROVE  LET u == sync_monitors_active_ws(select_valid_focused_monitor(
                    rebuild_pools_from_owner(t, seed, preferred)))
         IN  /\ WellFormed(u, n) /\ ListsOwned(u) /\ ActiveInPool(u) /\ Refreshed(u)
             /\ u.monitors = t.monitors /\ u.ws_owner = t.ws_owner
<1> DEFINE r == rebuild_pools_from_owner(t, seed, preferred)
           s == select_valid_focused_monitor(r)
           u == sync_monitors_active_ws(s)
<1>1. /\ r \in Fields(n) /\ ListsOwned(r) /\ ActiveInPool(r)
      /\ r = [t EXCEPT !.monitor_pools = r.monitor_pools,
                       !.monitor_active_local = r.monitor_active_local]
      /\ Len(r.monitor_pools) = Len(t.monitors)
      /\ Len(r.monitor_active_local) = Len(t.monitors)
  BY Rebuild, ZenonT(60)
<1>2. r.monitors = t.monitors /\ r.ws_owner = t.ws_owner
  BY <1>1 DEF Fields
<1> HIDE DEF r
<1>3. s \in Fields(n) /\ s = [r EXCEPT !.focused_monitor = s.focused_monitor]
  BY <1>1, SelectFocused
<1>4. /\ s.monitors = r.monitors /\ s.ws_owner = r.ws_owner
      /\ s.monitor_pools = r.monitor_pools /\ s.monitor_active_local = r.monitor_active_local
  BY <1>1, <1>3 DEF Fields
<1> HIDE DEF s
<1>5. /\ u \in Fields(n) /\ u = [s EXCEPT !.active_ws = u.active_ws]
      /\ Len(u.active_ws) = Len(s.monitors)
      /\ \A m \in 1 .. Len(s.monitors) :
           u.active_ws[m] = active_ws_of_monitor(u, m) /\ u.active_ws[m] <= n
  BY <1>1, <1>2, <1>3, <1>4, SyncActive
<1>6. /\ u.monitors = t.monitors /\ u.ws_owner = t.ws_owner
      /\ u.monitor_pools = r.monitor_pools /\ u.monitor_active_local = r.monitor_active_local
  BY <1>2, <1>3, <1>4, <1>5 DEF Fields
<1> HIDE DEF u
<1>7. ListsOwned(u) /\ ActiveInPool(u)
  BY <1>1, <1>2, <1>6 DEF ListsOwned, ActiveInPool
<1>8. DOMAIN u.monitors = 1 .. Len(u.monitors)
  BY <1>5 DEF Fields
<1>9. WellFormed(u, n) /\ Refreshed(u)
  BY <1>1, <1>2, <1>4, <1>5, <1>6, <1>8 DEF WellFormed, Refreshed
<1> QED
  BY <1>6, <1>7, <1>9 DEF u, s, r

\* assign_workspaces gives every workspace to a monitor that is connected.
LEMMA Assign ==
  ASSUME NEW c \in Config, NEW t, Draft(t, Len(c.pins))
  PROVE  LET u == assign_workspaces(t, c)
         IN  Sound(u, Len(c.pins)) /\ u.monitors = t.monitors
<1> DEFINE n == Len(c.pins)
           M == Len(t.monitors)
           u == assign_workspaces(t, c)
<1>1. n \in Nat /\ c.pins \in Seq(Outputs \cup {NoOutput})
  BY DEF Config
<1>2. /\ t \in Fields(n) /\ M \in Nat /\ DOMAIN t.monitors = 1 .. M
      /\ DOMAIN t.ws_owner = 1 .. n /\ t.monitors \in Seq(Outputs)
      /\ t.ws_owner \in [1 .. n -> Nat]
  BY DEF Draft, Fields
<1>3. CASE t.monitors = <<>>
  <2> DEFINE owner == [ws \in DOMAIN t.ws_owner |-> 0]
  <2>1. u = [t EXCEPT !.ws_owner = owner, !.monitor_pools = <<>>,
                      !.monitor_active_local = <<>>]
    BY <1>3 DEF assign_workspaces
  <2>2. owner \in [1 .. n -> Nat] /\ \A ws \in 1 .. n : owner[ws] = 0
    BY <1>2
  <2>3. <<>> \in Seq(Seq(1 .. n)) /\ <<>> \in Seq(Nat)
    OBVIOUS
  <2> HIDE DEF owner
  <2>4. /\ u \in Fields(n) /\ u.monitors = <<>> /\ u.ws_owner = owner
        /\ u.monitor_pools = <<>> /\ u.monitor_active_local = <<>>
        /\ u.active_ws = t.active_ws
    BY <1>2, <1>3, <2>1, <2>2, <2>3 DEF Fields
  <2> HIDE DEF u
  <2>5. Len(u.active_ws) = 0 /\ Len(u.monitors) = 0 /\ DOMAIN u.monitors = {}
    BY <1>3, <2>4 DEF Draft
  <2>6. WellFormed(u, n)
    BY <1>1, <2>2, <2>4, <2>5 DEF WellFormed
  <2>7. ListsOwned(u) /\ AllOwned(u) /\ ActiveInPool(u) /\ Refreshed(u)
    BY <2>4, <2>5 DEF ListsOwned, AllOwned, ActiveInPool, Refreshed
  <2> QED
    BY <1>3, <2>4, <2>6, <2>7 DEF Sound, u
<1>4. CASE t.monitors # <<>>
  <2> DEFINE pinned(ws) == monitor_index_by_name(t.monitors, c.pins[ws])
             keep == [ws \in DOMAIN t.ws_owner |->
                        IF pinned(ws) > 0 THEN pinned(ws) ELSE monitor_of(t, ws)]
             kept == List(keep)
             before(ws) == Cardinality({v \in DOMAIN kept : v < ws /\ kept[v] = 0})
             dealt(ws) == ((primary_monitor_index(t, c) - 1 + before(ws)) % M) + 1
             own == [ws \in DOMAIN kept |-> IF kept[ws] > 0 THEN kept[ws] ELSE dealt(ws)]
             owner == List(own)
             shown == List([m \in DOMAIN t.monitors |-> active_ws_of_monitor(t, m)])
             t2 == [t EXCEPT !.ws_owner = owner]
  <2>0. M > 0
    BY <1>2, <1>4
  <2>1. u = sync_monitors_active_ws(select_valid_focused_monitor(
              rebuild_pools_from_owner(t2, t.monitor_pools, shown)))
    BY <1>4 DEF assign_workspaces
  <2>2. keep \in [1 .. n -> 0 .. M]
    <3>1. \A ws \in 1 .. n : pinned(ws) \in 0 .. M
      BY <1>2, IndexByName
    <3>2. \A ws \in 1 .. n : monitor_of(t, ws) \in 0 .. M
      BY <1>2 DEF monitor_of, is_mon_valid, is_ws_valid
    <3> HIDE DEF pinned
    <3> QED
      BY <1>2, <3>1, <3>2
  <2> HIDE DEF keep
  <2>3. kept \in [1 .. n -> 0 .. M] /\ DOMAIN kept = 1 .. n
    BY <1>1, <2>2, ListIs
  <2> HIDE DEF kept
  <2>4. primary_monitor_index(t, c) \in 1 .. M
    BY <1>2, <2>0, IndexByName DEF primary_monitor_index
  <2>5. \A ws \in 1 .. n : before(ws) \in Nat
    <3> TAKE ws \in 1 .. n
    <3>1. IsFiniteSet(1 .. n)
      BY <1>1, FS_Interval
    <3>2. IsFiniteSet({v \in DOMAIN kept : v < ws /\ kept[v] = 0})
      BY <2>3, <3>1, FS_Subset
    <3> QED
      BY <3>2, FS_CardinalityType
  <2> HIDE DEF before
  <2>6. \A ws \in 1 .. n : dealt(ws) \in 1 .. M
    BY <1>2, <2>0, <2>4, <2>5
  <2> HIDE DEF dealt
  <2>7. own \in [1 .. n -> 1 .. M]
    BY <1>2, <2>3, <2>6
  <2> HIDE DEF own
  <2>8. owner \in [1 .. n -> 1 .. M] /\ owner \in [1 .. n -> Nat]
    <3>1. owner = own
      BY <1>1, <2>7, ListIs
    <3> HIDE DEF owner
    <3> QED
      BY <1>2, <2>7, <3>1
  <2> HIDE DEF owner
  <2>9. /\ t2 \in Fields(n) /\ t2.ws_owner = owner /\ t2.monitors = t.monitors
    BY <1>2, <2>8 DEF Fields
  <2>10. t.monitor_pools \in [1 .. Len(t2.monitors) -> Seq(Nat)]
    <3>1. t.monitor_pools \in Seq(Seq(1 .. n)) /\ Len(t.monitor_pools) = M
      BY <1>2 DEF Draft, Fields
    <3>2. Seq(1 .. n) \subseteq Seq(Nat)
      BY SeqMonotonic
    <3> QED
      BY <1>2, <2>9, <3>1, <3>2
  <2> HIDE DEF t2, shown
  <2>11. /\ WellFormed(u, n) /\ ListsOwned(u) /\ ActiveInPool(u) /\ Refreshed(u)
         /\ u.monitors = t.monitors /\ u.ws_owner = owner
    <3>1. \A ws \in 1 .. n : t2.ws_owner[ws] <= Len(t2.monitors)
      BY <1>2, <2>8, <2>9
    <3> DEFINE v == sync_monitors_active_ws(select_valid_focused_monitor(
                      rebuild_pools_from_owner(t2, t.monitor_pools, shown)))
    <3>2. /\ WellFormed(v, n) /\ ListsOwned(v) /\ ActiveInPool(v) /\ Refreshed(v)
          /\ v.monitors = t2.monitors /\ v.ws_owner = t2.ws_owner
      BY <1>1, <2>9, <2>10, <3>1, Finish
    <3> HIDE DEF u, v
    <3> QED
      BY <2>1, <2>9, <3>2 DEF v
  <2>12. AllOwned(u)
    BY <1>2, <2>8, <2>11 DEF AllOwned, is_mon_valid
  <2> QED
    BY <2>11, <2>12 DEF Sound
<1> QED
  BY <1>3, <1>4

\* set_monitors leaves a state assign_workspaces can complete.
LEMMA SetMonitors ==
  ASSUME NEW n \in Nat, NEW t, Sound(t, n), NEW mons \in Seq(Outputs)
  PROVE  Draft(set_monitors(t, mons), n)
<1> DEFINE M == Len(t.monitors)
           K == Len(mons)
           oldIdx(i) == monitor_index_by_name(t.monitors, mons[i])
           gone   == {o \in Range(t.monitors) : o \notin Range(mons)}
           parked == [o \in Outputs |-> IF o \in gone THEN park(t, o) ELSE t.parked[o]]
           back   == {i \in DOMAIN mons : oldIdx(i) = 0}
           claims(ws) == {i \in back : ws \in Range(parked[mons[i]].pool)}
           moved(ws) == LET m == monitor_of(t, ws)
                        IN  IF m > 0 THEN monitor_index_by_name(mons, t.monitors[m]) ELSE 0
           own    == [ws \in DOMAIN t.ws_owner |->
                        IF claims(ws) = {} THEN moved(ws)
                        ELSE CHOOSE i \in claims(ws) : \A j \in claims(ws) : j <= i]
           owner  == List(own)
           seeds  == [i \in DOMAIN mons |->
                        IF oldIdx(i) > 0 THEN t.monitor_pools[oldIdx(i)]
                        ELSE parked[mons[i]].pool]
           seed   == List(seeds)
           shown  == List([i \in DOMAIN mons |->
                        IF oldIdx(i) > 0 THEN active_ws_of_monitor(t, oldIdx(i))
                        ELSE parked[mons[i]].active])
           left   == [o \in Outputs |->
                        IF \E i \in back : mons[i] = o THEN nothing_parked ELSE parked[o]]
           next   == [t EXCEPT !.monitors = mons, !.ws_owner = owner,
                               !.focused_monitor = refocus(t, mons), !.parked = left]
           Entry  == [pool : Seq(1 .. n), active : 0 .. n]
           u      == set_monitors(t, mons)
<1>1. u = sync_monitors_active_ws(select_valid_focused_monitor(
            rebuild_pools_from_owner(next, seed, shown)))
  BY DEF set_monitors
<1>2. /\ t \in Fields(n) /\ M \in Nat /\ DOMAIN t.monitors = 1 .. M
      /\ t.monitors \in Seq(Outputs) /\ DOMAIN t.ws_owner = 1 .. n
      /\ t.monitor_pools \in Seq(Seq(1 .. n)) /\ Len(t.monitor_pools) = M
      /\ t.parked \in [Outputs -> Entry] /\ t.focused_monitor \in Nat
  BY DEF Sound, WellFormed, Fields
<1>3. K \in Nat /\ DOMAIN mons = 1 .. K /\ \A i \in 1 .. K : mons[i] \in Outputs
  OBVIOUS
<1>4. \A m \in 1 .. M : t.monitor_pools[m] \in Seq(1 .. n)
  BY <1>2
<1>5. \A o \in gone : park(t, o) \in Entry
  <2> TAKE o \in gone
  <2> DEFINE i == monitor_index_by_name(t.monitors, o)
  <2>1. i \in 1 .. M
    BY <1>2, IndexByName
  <2>2. t.monitor_pools[i] \in Seq(1 .. n)
    BY <1>4, <2>1
  <2>3. active_ws_of_monitor(t, i) \in 0 .. n
    BY <1>2, ActiveOf
  <2> QED
    BY <2>2, <2>3 DEF park
<1> HIDE DEF Entry, gone
<1>6. parked \in [Outputs -> Entry]
  BY <1>2, <1>5
<1> HIDE DEF parked
<1>7. left \in [Outputs -> Entry]
  <2>1. nothing_parked \in Entry
    BY DEF nothing_parked, Entry
  <2> QED
    BY <1>6, <2>1
<1>8. \A i \in 1 .. K : oldIdx(i) \in 0 .. M
  BY <1>2, IndexByName
<1>9. \A i \in 1 .. K : parked[mons[i]].pool \in Seq(1 .. n)
  BY <1>3, <1>6 DEF Entry
<1>10. own \in [1 .. n -> 0 .. K]
  <2>1. ASSUME NEW ws \in 1 .. n PROVE moved(ws) \in 0 .. K
    BY <1>3, IndexByName
  <2>2. ASSUME NEW ws \in 1 .. n, claims(ws) # {}
        PROVE  (CHOOSE i \in claims(ws) : \A j \in claims(ws) : j <= i) \in 0 .. K
    <3> DEFINE T == claims(ws)
    <3>1. T \in SUBSET (1 .. K) /\ T # {}
      BY <1>3, <2>2
    <3> HIDE DEF T
    <3>2. \E i \in T : \A j \in T : j <= i
      BY <1>3, <3>1, GreatestExists
    <3> DEFINE last == CHOOSE i \in T : \A j \in T : j <= i
    <3>3. last \in T
      BY <3>2
    <3> HIDE DEF last
    <3>4. last \in 0 .. K
      BY <1>3, <3>1, <3>3
    <3> QED
      BY <3>4 DEF T, last
  <2> HIDE DEF claims, moved
  <2> QED
    BY <1>2, <2>1, <2>2
<1> HIDE DEF own, left
<1>11. owner = own
  BY <1>2, <1>10, ListIs
<1>12. owner \in [1 .. n -> Nat] /\ \A ws \in 1 .. n : owner[ws] <= K
  <2> HIDE DEF owner
  <2> QED
    BY <1>3, <1>10, <1>11
<1> HIDE DEF owner
<1>13. refocus(t, mons) \in Nat
  BY <1>2, <1>3, IndexByName DEF refocus
<1>14. seed \in [1 .. K -> Seq(Nat)]
  <2> DEFINE Lists == Seq(Nat)
  <2>1. Seq(1 .. n) \subseteq Lists
    BY SeqMonotonic
  <2>2. \A i \in 1 .. K : seeds[i] \in Lists
    BY <1>3, <1>4, <1>8, <1>9, <2>1
  <2> HIDE DEF Lists
  <2>3. seeds \in [1 .. K -> Lists]
    BY <1>3, <2>2
  <2> HIDE DEF seeds
  <2>4. seed = seeds
    BY <1>3, <2>3, ListIs
  <2> HIDE DEF seed
  <2> QED
    BY <2>3, <2>4 DEF Lists
<1> HIDE DEF seed, shown
<1>15. /\ next \in Fields(n) /\ next.monitors = mons /\ next.ws_owner = owner
  BY <1>2, <1>7, <1>12, <1>13 DEF Fields, Entry
<1> HIDE DEF next
<1> DEFINE v == sync_monitors_active_ws(select_valid_focused_monitor(
                  rebuild_pools_from_owner(next, seed, shown)))
<1>16. \A ws \in 1 .. n : next.ws_owner[ws] <= Len(next.monitors)
  BY <1>12, <1>15
<1>17. WellFormed(v, n)
  BY <1>14, <1>15, <1>16, Finish
<1> HIDE DEF u, v
<1>18. u = v
  BY <1>1 DEF v
<1> QED
  BY <1>17, <1>18 DEF WellFormed, Draft, u

\* update_workspace_defs leaves a state assign_workspaces can complete, with
\* more workspaces or with fewer.
LEMMA UpdateDefs ==
  ASSUME NEW n \in Nat, NEW t, Sound(t, n), NEW c \in Config, Len(c.pins) > 0
  PROVE  /\ Draft(update_workspace_defs(t, c), Len(c.pins))
         /\ update_workspace_defs(t, c).monitors = t.monitors
<1> DEFINE M == Len(t.monitors)
           count == Len(c.pins)
           own == [ws \in 1 .. count |-> IF ws <= n THEN t.ws_owner[ws] ELSE 0]
           owner == List(own)
           u == update_workspace_defs(t, c)
<1>1. count \in Nat
  BY DEF Config
<1>2. /\ t \in Fields(n) /\ M \in Nat /\ DOMAIN t.monitors = 1 .. M
      /\ t.monitors \in Seq(Outputs) /\ t.ws_owner \in [1 .. n -> Nat]
      /\ t.monitor_pools \in Seq(Seq(1 .. n)) /\ Len(t.monitor_pools) = M
      /\ t.monitor_active_local \in Seq(Nat) /\ Len(t.monitor_active_local) = M
      /\ t.active_ws \in Seq(Nat) /\ Len(t.active_ws) = M
      /\ t.parked \in [Outputs -> [pool : Seq(1 .. n), active : 0 .. n]]
      /\ t.focused_monitor \in Nat
  BY DEF Sound, WellFormed, Fields
<1>3. Len(t.ws_owner) = n
  BY <1>2
<1>4. owner \in [1 .. count -> Nat]
  <2>1. own \in [1 .. count -> Nat]
    BY <1>1, <1>2
  <2> HIDE DEF own
  <2>2. owner = own
    BY <1>1, <2>1, ListIs
  <2> HIDE DEF owner
  <2> QED
    BY <2>1, <2>2
<1>5. CASE count >= n
  <2>1. u = [t EXCEPT !.ws_owner = owner]
    BY <1>3, <1>5 DEF update_workspace_defs
  <2>2. 1 .. n \subseteq 1 .. count /\ 0 .. n \subseteq 0 .. count
    BY <1>1, <1>5
  <2>3. Seq(1 .. n) \subseteq Seq(1 .. count)
    BY <2>2, SeqMonotonic
  <2>4. Seq(Seq(1 .. n)) \subseteq Seq(Seq(1 .. count))
    BY <2>3, SeqMonotonic
  <2>5. t.parked \in [Outputs -> [pool : Seq(1 .. count), active : 0 .. count]]
    <3>1. [pool : Seq(1 .. n), active : 0 .. n] \subseteq
            [pool : Seq(1 .. count), active : 0 .. count]
      BY <2>2, <2>3
    <3> QED
      BY <1>2, <3>1
  <2> HIDE DEF owner
  <2>6. /\ u \in Fields(count) /\ u.monitors = t.monitors /\ u.active_ws = t.active_ws
        /\ u.monitor_pools = t.monitor_pools
    BY <1>2, <1>4, <2>1, <2>4, <2>5 DEF Fields
  <2> QED
    BY <1>2, <2>6 DEF Draft
<1>6. CASE ~ (count >= n)
  <2> DEFINE dst(m) == fallback_for(t, active_ws_of_monitor(t, m), count)
             local(m) == IF active_ws_of_monitor(t, m) <= count
                         THEN t.monitor_active_local[m]
                         ELSE IF dst(m) \in Range(t.monitor_pools[m])
                              THEN index_of(t.monitor_pools[m], dst(m)) ELSE 1
             loc == [m \in DOMAIN t.monitors |-> local(m)]
             cut == [m \in DOMAIN t.monitors |-> Keep(t.monitor_pools[m], 1 .. count)]
             parked == prune_parked(t, count)
  <2>1. u = [t EXCEPT !.ws_owner = owner, !.monitor_active_local = List(loc),
                      !.monitor_pools = List(cut), !.parked = parked]
    BY <1>3, <1>6 DEF update_workspace_defs
  <2>2. ASSUME NEW p \in Seq(1 .. n) PROVE Keep(p, 1 .. count) \in Seq(1 .. count)
    <3>1. Keep(p, 1 .. count) \in Seq((1 .. n) \cap (1 .. count))
      BY KeepLists
    <3> QED
      BY <3>1, SeqMonotonic
  <2>3. /\ \A m \in 1 .. M : t.monitor_pools[m] \in Seq(1 .. n)
        /\ \A m \in 1 .. M : t.monitor_active_local[m] \in Nat
    <3>1. DOMAIN t.monitor_pools = 1 .. M /\ DOMAIN t.monitor_active_local = 1 .. M
      BY <1>2
    <3> HIDE DEF M
    <3> QED
      BY <1>2, <3>1, ElementOfSeq
  <2>4. \A m \in 1 .. M : local(m) \in Nat
    <3> TAKE m \in 1 .. M
    <3>1. t.monitor_active_local[m] \in Nat
      BY <2>3
    <3>2. index_of(t.monitor_pools[m], dst(m)) \in 0 .. Len(t.monitor_pools[m])
      BY <2>3, IndexOf
    <3>3. Len(t.monitor_pools[m]) \in Nat
      BY <2>3
    <3> HIDE DEF dst
    <3> QED
      BY <3>1, <3>2, <3>3
  <2> HIDE DEF local
  <2>5. List(loc) \in Seq(Nat)
    <3>1. loc \in [1 .. M -> Nat]
      BY <1>2, <2>4
    <3> HIDE DEF loc
    <3> QED
      BY <1>2, <3>1, ListIs
  <2>6. List(cut) \in Seq(Seq(1 .. count)) /\ Len(List(cut)) = M
    <3> DEFINE Lists == Seq(1 .. count)
    <3>1. \A m \in 1 .. M : Keep(t.monitor_pools[m], 1 .. count) \in Lists
      BY <2>2, <2>3
    <3> HIDE DEF Lists
    <3>2. cut \in [1 .. M -> Lists]
      BY <1>2, <3>1
    <3> HIDE DEF cut
    <3>3. List(cut) = cut /\ cut \in Seq(Lists) /\ Len(cut) = M
      BY <1>2, <3>2, ListIs
    <3> QED
      BY <3>3 DEF Lists
  <2>7. parked \in [Outputs -> [pool : Seq(1 .. count), active : 0 .. count]]
    <3> DEFINE entry(o) == [pool |-> Keep(t.parked[o].pool, 1 .. count),
                            active |-> IF t.parked[o].active > count THEN 1
                                       ELSE t.parked[o].active]
    <3>1. \A o \in Outputs : entry(o) \in [pool : Seq(1 .. count), active : 0 .. count]
      <4> TAKE o \in Outputs
      <4>1. t.parked[o].pool \in Seq(1 .. n) /\ t.parked[o].active \in 0 .. n
        BY <1>2
      <4>2. Keep(t.parked[o].pool, 1 .. count) \in Seq(1 .. count)
        BY <2>2, <4>1
      <4>3. (IF t.parked[o].active > count THEN 1 ELSE t.parked[o].active) \in 0 .. count
        BY <1>1, <1>6, <4>1
      <4> QED
        BY <4>2, <4>3
    <3> HIDE DEF entry
    <3>2. parked = [o \in Outputs |-> entry(o)]
      BY DEF prune_parked, entry
    <3> QED
      BY <3>1, <3>2
  <2> HIDE DEF owner, loc, cut, parked
  <2>8. /\ u \in Fields(count) /\ u.monitors = t.monitors /\ u.active_ws = t.active_ws
        /\ u.monitor_pools = List(cut)
    BY <1>2, <1>4, <2>1, <2>5, <2>6, <2>7 DEF Fields
  <2> QED
    BY <1>2, <2>6, <2>8 DEF Draft
<1> QED
  BY <1>5, <1>6

\* Changing active positions within the pools, and the focused monitor, then
\* refreshing Monitor.active_ws, disturbs nothing.
LEMMA Reselect ==
  ASSUME NEW n \in Nat, NEW t, Sound(t, n), NEW L \in Seq(Nat), NEW f \in Nat,
         Len(L) = Len(t.monitors),
         \A m \in 1 .. Len(t.monitors) :
           t.monitor_pools[m] # <<>> => L[m] \in DOMAIN t.monitor_pools[m]
  PROVE  Keeps(t, sync_monitors_active_ws(
                    [t EXCEPT !.monitor_active_local = L, !.focused_monitor = f]), n)
<1> DEFINE s == [t EXCEPT !.monitor_active_local = L, !.focused_monitor = f]
           u == sync_monitors_active_ws(s)
<1>1. /\ t \in Fields(n) /\ DOMAIN t.monitors = 1 .. Len(t.monitors)
      /\ Len(t.monitor_pools) = Len(t.monitors) /\ ListsOwned(t) /\ AllOwned(t)
      /\ \A ws \in 1 .. n : t.ws_owner[ws] <= Len(t.monitors)
  BY DEF Sound, WellFormed, Fields
<1>2. /\ s \in Fields(n) /\ s.monitors = t.monitors /\ s.ws_owner = t.ws_owner
      /\ s.monitor_pools = t.monitor_pools /\ s.monitor_active_local = L
  BY <1>1 DEF Fields
<1> HIDE DEF s
<1>3. /\ u \in Fields(n) /\ u = [s EXCEPT !.active_ws = u.active_ws]
      /\ Len(u.active_ws) = Len(s.monitors)
      /\ \A m \in 1 .. Len(s.monitors) :
           u.active_ws[m] = active_ws_of_monitor(u, m) /\ u.active_ws[m] <= n
  BY <1>1, <1>2, SyncActive
<1> HIDE DEF u
<1>4. /\ u.monitors = t.monitors /\ u.ws_owner = t.ws_owner
      /\ u.monitor_pools = t.monitor_pools /\ u.monitor_active_local = L
  BY <1>2, <1>3 DEF Fields
<1>5. ListsOwned(u)
  BY <1>1, <1>4 DEF ListsOwned
<1>6. AllOwned(u)
  BY <1>1, <1>4 DEF AllOwned, is_mon_valid
<1>7. ActiveInPool(u)
  BY <1>1, <1>4 DEF ActiveInPool
<1>8. WellFormed(u, n) /\ Refreshed(u)
  BY <1>1, <1>2, <1>3, <1>4 DEF WellFormed, Refreshed
<1> QED
  BY <1>4, <1>5, <1>6, <1>7, <1>8 DEF Keeps, Sound, u, s

\* A workspace that has a monitor is in the pool of that monitor.
LEMMA Listed ==
  ASSUME NEW n \in Nat, NEW t, Sound(t, n), NEW ws, monitor_of(t, ws) > 0
  PROVE  /\ ws \in 1 .. n /\ t.ws_owner[ws] = monitor_of(t, ws)
         /\ monitor_of(t, ws) \in 1 .. Len(t.monitors)
         /\ ws \in Range(t.monitor_pools[monitor_of(t, ws)])
         /\ index_of(t.monitor_pools[monitor_of(t, ws)], ws) \in
              DOMAIN t.monitor_pools[monitor_of(t, ws)]
         /\ index_of(t.monitor_pools[monitor_of(t, ws)], ws) \in Nat \ {0}
<1> DEFINE m == monitor_of(t, ws)
           pool == t.monitor_pools[m]
<1>1. /\ t.monitors \in Seq(Outputs) /\ DOMAIN t.monitors = 1 .. Len(t.monitors)
      /\ t.ws_owner \in [1 .. n -> Nat] /\ t.monitor_pools \in Seq(Seq(1 .. n))
      /\ Len(t.monitor_pools) = Len(t.monitors)
  BY DEF Sound, WellFormed, Fields
<1>2. ws \in 1 .. n /\ t.ws_owner[ws] = m /\ m \in 1 .. Len(t.monitors)
  BY <1>1 DEF monitor_of, is_ws_valid, is_mon_valid
<1>3. ws \in Range(pool)
  BY <1>1, <1>2 DEF Sound, ListsOwned
<1>4. pool \in Seq(1 .. n)
  BY <1>1, <1>2
<1> HIDE DEF pool, m
<1>5. index_of(pool, ws) \in 1 .. Len(pool)
  BY <1>3, <1>4, IndexOf
<1>6. index_of(pool, ws) \in DOMAIN pool /\ index_of(pool, ws) \in Nat \ {0}
  BY <1>4, <1>5
<1> QED
  BY <1>2, <1>3, <1>6 DEF pool, m

\* While a monitor is connected, every workspace has one.
LEMMA Owner ==
  ASSUME NEW n \in Nat, NEW t, Sound(t, n), NEW ws \in 1 .. n, t.monitors # <<>>
  PROVE  monitor_of(t, ws) > 0
<1>1. DOMAIN t.ws_owner = 1 .. n /\ DOMAIN t.monitors = 1 .. Len(t.monitors)
      /\ Len(t.monitors) \in Nat
  BY DEF Sound, WellFormed, Fields
<1>2. is_mon_valid(t, t.ws_owner[ws])
  BY <1>1 DEF Sound, AllOwned
<1> QED
  BY <1>1, <1>2 DEF monitor_of, is_ws_valid, is_mon_valid

\* switch_to selects the workspace on the monitor that owns it.
LEMMA SwitchesTo ==
  ASSUME NEW n \in Nat, NEW t, Sound(t, n), NEW ws \in 1 .. n, t.monitors # <<>>,
         NEW hint, NEW c
  PROVE  Keeps(t, switch_to(t, ws, hint, c), n)
<1> DEFINE m == monitor_of(t, ws)
           pool == t.monitor_pools[m]
           local == index_of(pool, ws)
           L == [t.monitor_active_local EXCEPT ![m] = local]
<1>1. /\ t \in Fields(n) /\ t.monitor_active_local \in Seq(Nat)
      /\ Len(t.monitor_active_local) = Len(t.monitors) /\ Len(t.monitors) \in Nat
      /\ t.ws_owner \in [1 .. n -> Nat] /\ t.monitor_pools \in Seq(Seq(1 .. n))
      /\ t.focused_monitor \in Nat /\ DOMAIN t.monitors = 1 .. Len(t.monitors)
  BY DEF Sound, WellFormed, Fields
<1>2. m > 0
  BY Owner
<1>3. /\ t.ws_owner[ws] = m /\ m \in 1 .. Len(t.monitors)
      /\ ws \in Range(pool) /\ local \in DOMAIN pool /\ local \in Nat
  BY <1>2, Listed
<1> HIDE DEF m, pool, local
<1>4. switch_to(t, ws, hint, c) =
        sync_monitors_active_ws([t EXCEPT !.ws_owner[ws] = m, !.monitor_pools[m] = pool,
                                          !.monitor_active_local[m] = local])
  BY <1>2, <1>3 DEF switch_to, m, pool, local
<1>5. [t.ws_owner EXCEPT ![ws] = m] = t.ws_owner
  BY <1>1, <1>3
<1>6. [t.monitor_pools EXCEPT ![m] = pool] = t.monitor_pools
  BY <1>1 DEF pool
<1>7. [t EXCEPT !.ws_owner[ws] = m, !.monitor_pools[m] = pool,
                !.monitor_active_local[m] = local]
      = [t EXCEPT !.monitor_active_local = L, !.focused_monitor = t.focused_monitor]
  BY <1>1, <1>5, <1>6 DEF Fields
<1>8. L \in Seq(Nat) /\ Len(L) = Len(t.monitors)
  BY <1>1, <1>3
<1>9. ASSUME NEW k \in 1 .. Len(t.monitors), t.monitor_pools[k] # <<>>
      PROVE  L[k] \in DOMAIN t.monitor_pools[k]
  <2>1. CASE k = m
    <3>1. L[m] = local
      BY <1>1, <1>3
    <3> QED
      BY <1>3, <2>1, <3>1, Zenon DEF pool
  <2>2. CASE k # m
    <3>1. L[k] = t.monitor_active_local[k]
      BY <1>1, <2>2
    <3>2. t.monitor_active_local[k] \in DOMAIN t.monitor_pools[k]
      BY <1>1, <1>9 DEF Sound, ActiveInPool
    <3> QED
      BY <3>1, <3>2
  <2> QED
    BY <2>1, <2>2
<1> HIDE DEF L
<1>10. Keeps(t, sync_monitors_active_ws(
               [t EXCEPT !.monitor_active_local = L, !.focused_monitor = t.focused_monitor]), n)
  BY <1>1, <1>8, <1>9, Reselect
<1> QED
  BY <1>4, <1>7, <1>10

\* What Sound says of the fields, for a proof to cite.
LEMMA Parts ==
  ASSUME NEW n \in Nat, NEW t, Sound(t, n)
  PROVE  /\ t \in Fields(n) /\ t.monitor_active_local \in Seq(Nat)
         /\ Len(t.monitor_active_local) = Len(t.monitors) /\ Len(t.monitors) \in Nat
         /\ t.monitor_pools \in Seq(Seq(1 .. n)) /\ Len(t.monitor_pools) = Len(t.monitors)
         /\ t.focused_monitor \in Nat /\ DOMAIN t.monitors = 1 .. Len(t.monitors)
         /\ \A m \in 1 .. Len(t.monitors) :
              t.monitor_pools[m] # <<>> =>
                t.monitor_active_local[m] \in DOMAIN t.monitor_pools[m]
<1>1. DOMAIN t.monitors = 1 .. Len(t.monitors)
  BY DEF Sound, WellFormed, Fields
<1>2. \A m \in 1 .. Len(t.monitors) :
        t.monitor_pools[m] # <<>> => t.monitor_active_local[m] \in DOMAIN t.monitor_pools[m]
  BY <1>1 DEF Sound, ActiveInPool
<1>3. /\ t \in Fields(n) /\ Len(t.monitor_active_local) = Len(t.monitors)
      /\ Len(t.monitor_pools) = Len(t.monitors)
  BY DEF Sound, WellFormed
<1>4. /\ t.monitor_active_local \in Seq(Nat) /\ Len(t.monitors) \in Nat
      /\ t.monitor_pools \in Seq(Seq(1 .. n)) /\ t.focused_monitor \in Nat
  BY <1>3 DEF Fields
<1> QED
  BY <1>1, <1>2, <1>3, <1>4

\* switch_local_index selects a position of the pool it is given.
LEMMA SwitchLocal ==
  ASSUME NEW n \in Nat, NEW t, Sound(t, n), NEW m, NEW local,
         m \in DOMAIN t.monitor_pools, local \in DOMAIN t.monitor_pools[m]
  PROVE  Keeps(t, switch_local_index(t, m, local), n)
<1> DEFINE L == [t.monitor_active_local EXCEPT ![m] = local]
<1>1. /\ t \in Fields(n) /\ t.monitor_active_local \in Seq(Nat)
      /\ Len(t.monitor_active_local) = Len(t.monitors) /\ Len(t.monitors) \in Nat
      /\ t.monitor_pools \in Seq(Seq(1 .. n)) /\ Len(t.monitor_pools) = Len(t.monitors)
      /\ t.focused_monitor \in Nat /\ DOMAIN t.monitors = 1 .. Len(t.monitors)
  BY Parts
<1>2. m \in 1 .. Len(t.monitors) /\ local \in Nat
  <2>1. t.monitor_pools[m] \in Seq(1 .. n) /\ m \in 1 .. Len(t.monitors)
    BY <1>1, SMTT(60)
  <2> QED
    BY <2>1
<1>3. [t EXCEPT !.monitor_active_local[m] = local]
      = [t EXCEPT !.monitor_active_local = L, !.focused_monitor = t.focused_monitor]
  BY <1>1 DEF Fields
<1>4. L \in Seq(Nat) /\ Len(L) = Len(t.monitors)
  BY <1>1, <1>2
<1>5. \A k \in 1 .. Len(t.monitors) :
        t.monitor_pools[k] # <<>> => L[k] \in DOMAIN t.monitor_pools[k]
  <2> SUFFICES ASSUME NEW k \in 1 .. Len(t.monitors), t.monitor_pools[k] # <<>>
               PROVE  L[k] \in DOMAIN t.monitor_pools[k]
    OBVIOUS
  <2>1. t.monitor_active_local[k] \in DOMAIN t.monitor_pools[k]
    BY Parts
  <2>2. CASE k = m
    BY <1>1, <1>2, <2>2
  <2>3. CASE k # m
    BY <1>1, <1>2, <2>1, <2>3
  <2> QED
    BY <2>2, <2>3
<1> HIDE DEF L
<1>6. Keeps(t, sync_monitors_active_ws(
              [t EXCEPT !.monitor_active_local = L, !.focused_monitor = t.focused_monitor]), n)
  BY <1>1, <1>4, <1>5, Reselect
<1> QED
  BY <1>3, <1>6 DEF switch_local_index

\* Focusing a window selects its workspace on the monitor that owns it.
LEMMA FocusWorkspace ==
  ASSUME NEW n \in Nat, NEW t, Sound(t, n), NEW ws
  PROVE  Keeps(t, focus_workspace(t, ws), n)
<1> DEFINE m == monitor_of(t, ws)
           local == index_of(t.monitor_pools[m], ws)
           L == [t.monitor_active_local EXCEPT ![m] = local]
<1>1. /\ t \in Fields(n) /\ t.monitor_active_local \in Seq(Nat)
      /\ Len(t.monitor_active_local) = Len(t.monitors) /\ Len(t.monitors) \in Nat
      /\ DOMAIN t.monitors = 1 .. Len(t.monitors)
  BY DEF Sound, WellFormed, Fields
<1>2. CASE m = 0
  BY <1>2 DEF focus_workspace, Keeps
<1>3. CASE m # 0
  <2>0. m > 0
    BY <1>1, <1>3 DEF monitor_of, is_mon_valid
  <2>1. /\ m \in 1 .. Len(t.monitors) /\ local \in DOMAIN t.monitor_pools[m]
        /\ local \in Nat \ {0}
    BY <2>0, Listed
  <2> HIDE DEF m, local
  <2>1a. local > 0
    BY <2>1
  <2>2. focus_workspace(t, ws) = sync_monitors_active_ws(
          [t EXCEPT !.monitor_active_local[m] = local, !.focused_monitor = m])
    BY <1>3, <2>1a DEF focus_workspace, m, local
  <2>3. [t EXCEPT !.monitor_active_local[m] = local, !.focused_monitor = m]
        = [t EXCEPT !.monitor_active_local = L, !.focused_monitor = m]
    BY <1>1 DEF Fields
  <2>4. L \in Seq(Nat) /\ Len(L) = Len(t.monitors)
    BY <1>1, <2>1
  <2>5. \A k \in 1 .. Len(t.monitors) :
          t.monitor_pools[k] # <<>> => L[k] \in DOMAIN t.monitor_pools[k]
    BY <1>1, <2>1, SMTT(60) DEF Sound, ActiveInPool
  <2>6. m \in Nat
    BY <2>1
  <2> HIDE DEF L
  <2>7. Keeps(t, sync_monitors_active_ws(
                [t EXCEPT !.monitor_active_local = L, !.focused_monitor = m]), n)
    BY <2>4, <2>5, <2>6, Reselect
  <2> QED
    BY <2>2, <2>3, <2>7
<1> QED
  BY <1>2, <1>3

\* The end of a reload selects saved workspaces where they are listed now.
LEMMA RestoreActive ==
  ASSUME NEW n \in Nat, NEW t, Sound(t, n), NEW saved
  PROVE  Keeps(t, restore_active(t, saved), n)
<1> DEFINE M == Len(t.monitors)
           chosen(m) == {i \in DOMAIN saved \cap DOMAIN t.monitors :
                           is_ws_valid(t, saved[i]) /\ monitor_of(t, saved[i]) = m}
           last(m)  == CHOOSE i \in chosen(m) : \A j \in chosen(m) : j <= i
           local(m) == IF chosen(m) = {} THEN t.monitor_active_local[m]
                       ELSE index_of(t.monitor_pools[m], saved[last(m)])
           L == [m \in DOMAIN t.monitors |-> local(m)]
<1>1. /\ t \in Fields(n) /\ t.monitor_active_local \in Seq(Nat)
      /\ Len(t.monitor_active_local) = M /\ M \in Nat
      /\ DOMAIN t.monitors = 1 .. M /\ t.focused_monitor \in Nat
  BY DEF Sound, WellFormed, Fields
<1>2. \A m \in 1 .. M :
        /\ local(m) \in Nat
        /\ (t.monitor_pools[m] # <<>> => local(m) \in DOMAIN t.monitor_pools[m])
  <2> TAKE m \in 1 .. M
  <2>1. CASE chosen(m) = {}
    BY <1>1, <2>1 DEF Sound, ActiveInPool
  <2>2. CASE chosen(m) # {}
    <3> DEFINE T == chosen(m)
    <3>1. T \in SUBSET (1 .. M) /\ T # {}
      BY <1>1, <2>2
    <3> HIDE DEF T
    <3>2. \E i \in T : \A j \in T : j <= i
      BY <1>1, <3>1, GreatestExists
    <3>3. (CHOOSE i \in T : \A j \in T : j <= i) \in T
      BY <3>2
    <3>4. last(m) \in chosen(m)
      BY <3>3 DEF T
    <3>5. monitor_of(t, saved[last(m)]) = m /\ m > 0
      BY <3>4
    <3> HIDE DEF last
    <3>6. /\ index_of(t.monitor_pools[m], saved[last(m)]) \in DOMAIN t.monitor_pools[m]
          /\ index_of(t.monitor_pools[m], saved[last(m)]) \in Nat
      BY <3>5, Listed
    <3> QED
      BY <2>2, <3>6 DEF last
  <2> QED
    BY <2>1, <2>2
<1>3. restore_active(t, saved) =
        sync_monitors_active_ws([t EXCEPT !.monitor_active_local = List(L)])
  BY DEF restore_active
<1> HIDE DEF local
<1>4. L \in [1 .. M -> Nat] /\ \A m \in 1 .. M : L[m] = local(m)
  BY <1>1, <1>2
<1> HIDE DEF L
<1>5. List(L) = L /\ L \in Seq(Nat) /\ Len(L) = M
  BY <1>1, <1>4, ListIs
<1>6. [t EXCEPT !.monitor_active_local = List(L)]
      = [t EXCEPT !.monitor_active_local = L, !.focused_monitor = t.focused_monitor]
  BY <1>1, <1>5 DEF Fields
<1>6a. \A m \in 1 .. M : t.monitor_pools[m] # <<>> => L[m] \in DOMAIN t.monitor_pools[m]
  BY <1>2, <1>4
<1>7. Keeps(t, sync_monitors_active_ws(
              [t EXCEPT !.monitor_active_local = L, !.focused_monitor = t.focused_monitor]), n)
  BY <1>1, <1>5, <1>6a, Reselect
<1> QED
  BY <1>3, <1>6, <1>7

\* Only the focused monitor changes.
LEMMA FocusOnly ==
  ASSUME NEW n \in Nat, NEW t, Sound(t, n), NEW f \in Nat
  PROVE  Keeps(t, [t EXCEPT !.focused_monitor = f], n)
<1> DEFINE u == [t EXCEPT !.focused_monitor = f]
<1>1. t \in Fields(n)
  BY DEF Sound, WellFormed
<1>2. /\ u \in Fields(n) /\ u.monitors = t.monitors /\ u.ws_owner = t.ws_owner
      /\ u.monitor_pools = t.monitor_pools /\ u.active_ws = t.active_ws
      /\ u.monitor_active_local = t.monitor_active_local
  BY <1>1 DEF Fields
<1> HIDE DEF u
<1>3. WellFormed(u, n)
  BY <1>2 DEF Sound, WellFormed
<1>4. ListsOwned(u) /\ ActiveInPool(u)
  BY <1>2 DEF Sound, ListsOwned, ActiveInPool
<1>5. AllOwned(u) /\ Refreshed(u)
  BY <1>2 DEF Sound, AllOwned, Refreshed, is_mon_valid, active_ws_of_monitor
<1> QED
  BY <1>2, <1>3, <1>4, <1>5 DEF Keeps, Sound, u

\* init_from_defs assigns the workspaces of a manager that owns nothing yet.
LEMMA InitDraft ==
  ASSUME NEW mons \in Seq(Outputs), NEW c \in Config
  PROVE  \E t : /\ Draft(t, Len(c.pins)) /\ t.monitors = mons
               /\ init_from_defs(mons, c) = assign_workspaces(t, c)
<1> DEFINE n == Len(c.pins)
           t == [monitors |-> mons,
                 ws_owner |-> [ws \in DOMAIN c.pins |-> 0],
                 monitor_pools |-> [m \in DOMAIN mons |-> <<>>],
                 monitor_active_local |-> [m \in DOMAIN mons |-> 0],
                 active_ws |-> [m \in DOMAIN mons |-> 0],
                 parked |-> [o \in Outputs |-> nothing_parked],
                 focused_monitor |-> 1]
<1>1. c.pins \in Seq(Outputs \cup {NoOutput}) /\ n \in Nat /\ DOMAIN c.pins = 1 .. n
  BY DEF Config
<1>2. DOMAIN mons = 1 .. Len(mons) /\ Len(mons) \in Nat
  OBVIOUS
<1>3. [ws \in DOMAIN c.pins |-> 0] \in [1 .. n -> Nat]
  BY <1>1
<1>4. /\ [m \in DOMAIN mons |-> <<>>] \in Seq(Seq(1 .. n))
      /\ Len([m \in DOMAIN mons |-> <<>>]) = Len(mons)
  <2> DEFINE Lists == Seq(1 .. n)
  <2>1. <<>> \in Lists
    OBVIOUS
  <2> HIDE DEF Lists
  <2>2. [m \in DOMAIN mons |-> <<>>] \in [1 .. Len(mons) -> Lists]
    BY <1>2, <2>1
  <2> QED
    BY <1>2, <2>2, ListIs DEF Lists
<1>5. /\ [m \in DOMAIN mons |-> 0] \in Seq(Nat)
      /\ Len([m \in DOMAIN mons |-> 0]) = Len(mons)
  BY <1>2
<1>6. [o \in Outputs |-> nothing_parked] \in
        [Outputs -> [pool : Seq(1 .. n), active : 0 .. n]]
  <2>1. nothing_parked \in [pool : Seq(1 .. n), active : 0 .. n]
    BY <1>1 DEF nothing_parked
  <2> QED
    BY <2>1
<1>7. t \in Fields(n)
  BY <1>3, <1>4, <1>5, <1>6 DEF Fields
<1>8. Draft(t, n)
  BY <1>4, <1>5, <1>7 DEF Draft
<1> QED
  BY <1>8 DEF init_from_defs

\* init_from_defs gives every workspace to one of the monitors it finds.
LEMMA InitFromDefs ==
  ASSUME NEW mons \in Seq(Outputs), NEW c \in Config
  PROVE  Sound(init_from_defs(mons, c), Len(c.pins))
BY InitDraft, Assign

\* No workspace is shown on two monitors: the pools have nothing in common.
LEMMA ShownOnce ==
  ASSUME NEW n \in Nat, NEW t, Sound(t, n), NEW m \in DOMAIN t.monitors,
         NEW k \in DOMAIN t.monitors, t.active_ws[m] = t.active_ws[k], t.active_ws[m] > 0
  PROVE  m = k
<1>1. /\ t \in Fields(n) /\ Len(t.monitor_pools) = Len(t.monitors)
  BY DEF Sound, WellFormed
<1>2. /\ t.active_ws[m] = active_ws_of_monitor(t, m)
      /\ t.active_ws[k] = active_ws_of_monitor(t, k)
  BY DEF Sound, Refreshed
<1>3. t.active_ws[m] \in Range(t.monitor_pools[m])
  BY <1>1, <1>2, ActiveOf
<1>4. t.active_ws[m] \in Range(t.monitor_pools[k])
  BY <1>1, <1>2, ActiveOf
<1>5. t.ws_owner[t.active_ws[m]] = m /\ t.ws_owner[t.active_ws[m]] = k
  BY <1>3, <1>4 DEF Sound, ListsOwned
<1> QED
  BY <1>5
=============================================================================
