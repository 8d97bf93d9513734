------------------------- MODULE CoreDispatchProofs --------------------------
(***************************************************************************)
(* What every command of Core keeps, for any outputs, configurations and   *)
(* windows: the lists of windows, the index from window to workspace, the  *)
(* cursors and the manager underneath agree.  The lemmas follow the order  *)
(* of module CoreDispatch.                                                 *)
(***************************************************************************)
EXTENDS CoreDispatch, WorkspaceManagerProofs

Places == {Own} \cup {TileOn(o) : o \in Outputs} \cup {WholeOf(o) : o \in Outputs}

WindowStates ==
  [mapped : BOOLEAN, hidden_by_workspace : BOOLEAN, floating : BOOLEAN,
   fullscreen : BOOLEAN, borderless : BOOLEAN, suppress_focus_once : BOOLEAN,
   place : Places, place_before_fullscreen : Places, pending_wm_unmaps : Nat]

WorkspaceStates(W) == [windows : Seq(W), current : Nat, fullscreen : BOOLEAN]

Effects(W) ==
  [kind : {"map", "unmap", "focus", "root", "raise", "lower"}, window : W \cup {NoWindow}]

CoreFields(W) ==
  [wsman : UNION {Fields(n) : n \in Nat}, settings : Configs,
   workspaces : Seq(WorkspaceStates(W)),
   window : UNION {[D -> WindowStates] : D \in SUBSET W},
   window_workspace : UNION {[D -> Nat] : D \in SUBSET W},
   effects : Seq(Effects(W))]

\* No window twice, and the cursor on one of them.
Cursor(s) ==
  /\ \A i, j \in DOMAIN s.windows : s.windows[i] = s.windows[j] => i = j
  /\ IF s.windows = <<>> THEN s.current = 0 ELSE s.current \in DOMAIN s.windows

\* The index gives every window one of the workspaces.
Indexes(k) ==
  /\ DOMAIN k.window_workspace = DOMAIN k.window
  /\ \A w \in DOMAIN k.window : k.window_workspace[w] \in DOMAIN k.workspaces

\* The lists are the ones the index gives.
ListsMatch(k) ==
  \A ws \in DOMAIN k.workspaces :
    /\ Range(k.workspaces[ws].windows) = {w \in DOMAIN k.window : k.window_workspace[w] = ws}
    /\ Cursor(k.workspaces[ws])

SoundCore(k) ==
  /\ Len(k.settings.pins) = Len(k.workspaces)
  /\ Sound(k.wsman, Len(k.workspaces))
  /\ Indexes(k) /\ ListsMatch(k)

\* The states of Core that manage windows of W.
Cores(W) == {k \in CoreFields(W) : SoundCore(k)}

\* The same windows under the same configuration.
Alike(k, j) == DOMAIN j.window = DOMAIN k.window /\ j.settings = k.settings
-----------------------------------------------------------------------------
(* Folds from the left, FoldLeft and FlattenSeq of SequencesExt: the value *)
(* is that of a recursive function on sets of positions, which exists when *)
(* every step stays in a set Q, and then stays in Q itself.                *)

\* The greatest number of a nonempty set of numbers up to n.
LEMMA MaxOf ==
  ASSUME NEW n \in Nat, NEW s \in SUBSET (1 .. n), n \in s
  PROVE  Max(s) = n
<1>1. \A y \in s : n >= y
  OBVIOUS
<1>2. \A x \in s : (\A y \in s : x >= y) => x = n
  OBVIOUS
<1> QED
  BY <1>1, <1>2 DEF Max

\* It is one of them.
LEMMA MaxIn ==
  ASSUME NEW n \in Nat, NEW s \in SUBSET (1 .. n), s # {}
  PROVE  Max(s) \in 1 .. n
<1> DEFINE T == {k \in Nat : k <= n /\ n - k \in s}
<1>1. T \in SUBSET Nat /\ T # {}
  <2>1. PICK x \in s : TRUE
    OBVIOUS
  <2>2. n - x \in T
    OBVIOUS
  <2> QED
    BY <2>2
<1>2. PICK k \in T : \A j \in T : k <= j
  <2> HIDE DEF T
  <2> QED
    BY <1>1, LeastExists
<1>3. n - k \in s /\ \A y \in s : n - k >= y
  <2>1. ASSUME NEW y \in s PROVE n - y \in T
    OBVIOUS
  <2> QED
    BY <1>2, <2>1
<1> QED
  BY <1>3 DEF Max

\* F gives what the element at a position makes of a state of Q.
IsStep(F, Q, N) == F \in [Q \X (1 .. N) -> Q]

\* g gives what the elements at a set of positions make of b, in their order.
IsFold(g, b, F, Q, N) ==
  /\ g \in [SUBSET (1 .. N) -> Q]
  /\ \A s \in SUBSET (1 .. N) :
       g[s] = IF s = {} THEN b ELSE F[<<g[s \ {Max(s)}], Max(s)>>]

LEMMA FoldExists ==
  ASSUME NEW Q, NEW b \in Q, NEW N \in Nat, NEW F, IsStep(F, Q, N)
  PROVE  \E g : IsFold(g, b, F, Q, N)
<1>0. F \in [Q \X (1 .. N) -> Q]
  BY DEF IsStep
<1> DEFINE Good(g, n) ==
             /\ g \in [SUBSET (1 .. n) -> Q]
             /\ \A s \in SUBSET (1 .. n) :
                  g[s] = IF s = {} THEN b ELSE F[<<g[s \ {Max(s)}], Max(s)>>]
           Bad == {n \in Nat : n <= N /\ ~ \E g : Good(g, n)}
<1>1. ASSUME Bad # {} PROVE FALSE
  <2>0. PICK m \in Bad : \A n \in Bad : m <= n
    <3> HIDE DEF Bad
    <3>1. Bad \in SUBSET Nat
      BY DEF Bad
    <3> QED
      BY <1>1, <3>1, LeastExists
  <2>1. /\ m \in Nat /\ m <= N /\ ~ \E g : Good(g, m)
        /\ \A n \in Nat : n < m => \E g : Good(g, n)
    <3> HIDE DEF Good
    <3>1. m \in Nat /\ m <= N /\ ~ \E g : Good(g, m)
      BY <2>0
    <3>2. ASSUME NEW n \in Nat, n < m PROVE \E g : Good(g, n)
      <4>1. n \notin Bad /\ n <= N
        BY <2>0, <3>1, <3>2
      <4> QED
        BY <4>1
    <3> QED
      BY <3>1, <3>2
  <2>2. m # 0
    <3> SUFFICES ASSUME m = 0 PROVE FALSE
      OBVIOUS
    <3> DEFINE g == [s \in SUBSET (1 .. 0) |-> b]
    <3>1. Good(g, 0)
      <4>1. \A s \in SUBSET (1 .. 0) : s = {}
        OBVIOUS
      <4> QED
        BY <4>1
    <3> HIDE DEF Good, g
    <3> QED
      BY <2>1, <3>1
  <2>3. m \in Nat /\ m - 1 \in Nat /\ m <= N /\ m - 1 < m
    BY <2>1, <2>2
  <2>4. PICK h : Good(h, m - 1)
    <3> HIDE DEF Good
    <3> QED
      BY <2>1, <2>3
  <2> DEFINE low(s) == s \in SUBSET (1 .. (m - 1))
             g == [s \in SUBSET (1 .. m) |-> IF low(s) THEN h[s] ELSE F[<<h[s \ {m}], m>>]]
  <2>5. \A s \in SUBSET (1 .. m) : ~ low(s) => m \in s /\ low(s \ {m}) /\ Max(s) = m
    <3> SUFFICES ASSUME NEW s \in SUBSET (1 .. m), ~ low(s)
                 PROVE  m \in s /\ low(s \ {m}) /\ Max(s) = m
      OBVIOUS
    <3>1. m \in s /\ low(s \ {m})
      BY <2>3
    <3> QED
      BY <2>3, <3>1, MaxOf
  <2>6. g \in [SUBSET (1 .. m) -> Q]
    <3> SUFFICES ASSUME NEW s \in SUBSET (1 .. m)
                 PROVE  (IF low(s) THEN h[s] ELSE F[<<h[s \ {m}], m>>]) \in Q
      OBVIOUS
    <3>1. CASE low(s)
      BY <2>4, <3>1
    <3>2. CASE ~ low(s)
      <4>1. h[s \ {m}] \in Q /\ m \in 1 .. N
        BY <2>3, <2>4, <2>5, <3>2
      <4> QED
        BY <1>0, <3>2, <4>1
    <3> QED
      BY <3>1, <3>2
  <2>7. ASSUME NEW s \in SUBSET (1 .. m)
        PROVE  g[s] = IF s = {} THEN b ELSE F[<<g[s \ {Max(s)}], Max(s)>>]
    <3>1. CASE low(s)
      <4>1. CASE s = {}
        BY <2>4, <3>1, <4>1
      <4>2. CASE s # {}
        <5>1. s \ {Max(s)} \in SUBSET (1 .. m) /\ low(s \ {Max(s)})
          BY <3>1
        <5>2. g[s] = h[s] /\ g[s \ {Max(s)}] = h[s \ {Max(s)}]
          BY <3>1, <5>1
        <5> QED
          BY <2>4, <3>1, <4>2, <5>2
      <4> QED
        BY <4>1, <4>2
    <3>2. CASE ~ low(s)
      <4>1. m \in s /\ low(s \ {m}) /\ Max(s) = m /\ s # {} /\ s \ {m} \in SUBSET (1 .. m)
        BY <2>5, <3>2
      <4>2. g[s] = F[<<h[s \ {m}], m>>] /\ g[s \ {m}] = h[s \ {m}]
        BY <3>2, <4>1
      <4> QED
        BY <4>1, <4>2
    <3> QED
      BY <3>1, <3>2
  <2> QED
    <3> HIDE DEF g
    <3>1. Good(g, m)
      BY <2>6, <2>7
    <3> HIDE DEF Good
    <3> QED
      BY <2>1, <3>1
<1>2. \E g : Good(g, N)
  <2> HIDE DEF Good
  <2> QED
    BY <1>1
<1> QED
  BY <1>2 DEF IsFold

\* What every step keeps holds at the end.
LEMMA FoldStays ==
  ASSUME NEW Q, NEW N \in Nat, NEW it, it[{}] \in Q,
         \A i \in 1 .. N : it[1 .. (i - 1)] \in Q => it[1 .. i] \in Q
  PROVE  it[1 .. N] \in Q
<1> DEFINE Bad == {n \in Nat : n <= N /\ it[1 .. n] \notin Q}
<1>1. ASSUME Bad # {} PROVE FALSE
  <2>1. PICK m \in Bad : \A n \in Bad : m <= n
    <3> HIDE DEF Bad
    <3>1. Bad \in SUBSET Nat
      BY DEF Bad
    <3> QED
      BY <1>1, <3>1, LeastExists
  <2>2. 1 .. 0 = {}
    OBVIOUS
  <2>3. m # 0
    BY <2>1, <2>2
  <2>4. m \in 1 .. N /\ m - 1 \in Nat /\ m - 1 <= N /\ m - 1 \notin Bad
    BY <2>1, <2>3
  <2> QED
    BY <2>1, <2>4
<1> QED
  BY <1>1

\* The positions 1 .. i without the last.
LEMMA Prefix ==
  ASSUME NEW i \in Nat \ {0}
  PROVE  Max(1 .. i) = i /\ (1 .. i) \ {i} = 1 .. (i - 1) /\ 1 .. i # {}
<1>1. i \in 1 .. i /\ 1 .. i \in SUBSET (1 .. i)
  OBVIOUS
<1>2. Max(1 .. i) = i
  BY <1>1, MaxOf
<1>3. (1 .. i) \ {i} = 1 .. (i - 1)
  OBVIOUS
<1> QED
  BY <1>1, <1>2, <1>3

\* A fold over the positions 1 .. N, position by position.
LEMMA FoldSteps ==
  ASSUME NEW Q, NEW b, NEW N \in Nat, NEW F, NEW g, IsFold(g, b, F, Q, N)
  PROVE  /\ g[1 .. 0] = b
         /\ \A i \in 1 .. N : g[1 .. i] \in Q /\ g[1 .. i] = F[<<g[1 .. (i - 1)], i>>]
         /\ \A i \in 1 .. N : g[1 .. (i - 1)] \in Q
<1>0. /\ g \in [SUBSET (1 .. N) -> Q]
      /\ \A s \in SUBSET (1 .. N) :
           g[s] = IF s = {} THEN b ELSE F[<<g[s \ {Max(s)}], Max(s)>>]
  BY DEF IsFold
<1>1. 1 .. 0 = {} /\ {} \in SUBSET (1 .. N)
  OBVIOUS
<1>2. ASSUME NEW i \in 1 .. N
      PROVE  g[1 .. i] \in Q /\ g[1 .. i] = F[<<g[1 .. (i - 1)], i>>]
  <2>1. i \in Nat \ {0} /\ 1 .. i \in SUBSET (1 .. N)
    OBVIOUS
  <2>2. Max(1 .. i) = i /\ (1 .. i) \ {i} = 1 .. (i - 1) /\ 1 .. i # {}
    BY <2>1, Prefix
  <2> QED
    BY <1>0, <2>1, <2>2
<1> QED
  <2>1. \A i \in 1 .. N : 1 .. (i - 1) \in SUBSET (1 .. N)
    OBVIOUS
  <2> QED
    BY <1>0, <1>1, <1>2, <2>1

\* FlattenSeq lists what the lists it is given list.
LEMMA Flattened ==
  ASSUME NEW T, NEW e \in Seq(Seq(T))
  PROVE  /\ FlattenSeq(e) \in Seq(T)
         /\ \A x : x \in Range(FlattenSeq(e)) <=> \E i \in DOMAIN e : x \in Range(e[i])
<1> DEFINE N  == Len(e)
           F  == [p \in Seq(T) \X (1 .. N) |-> p[1] \o e[p[2]]]
           it == CHOOSE it : it = [i \in 1 .. N |-> IF i = 1 THEN e[i] ELSE it[i - 1] \o e[i]]
<1>1. N \in Nat /\ DOMAIN e = 1 .. N /\ \A i \in 1 .. N : e[i] \in Seq(T)
  OBVIOUS
<1>2. CASE N = 0
  <2>1. e = <<>> /\ FlattenSeq(e) = e
    BY <1>2 DEF FlattenSeq
  <2>2. FlattenSeq(e) \in Seq(T) /\ Range(FlattenSeq(e)) = {} /\ DOMAIN e = {}
    <3>1. <<>> \in Seq(T) /\ DOMAIN <<>> = {}
      OBVIOUS
    <3> QED
      BY <2>1, <3>1 DEF Range
  <2> QED
    BY <2>2
<1>3. CASE N # 0
  <2>1. FlattenSeq(e) = it[N]
    BY <1>3 DEF FlattenSeq
  <2>2. \A q \in Seq(T), i \in 1 .. N : q \o e[i] \in Seq(T)
    BY <1>1, ConcatProperties
  <2>3. F \in [Seq(T) \X (1 .. N) -> Seq(T)]
    BY <2>2
  <2>4. <<>> \in Seq(T)
    OBVIOUS
  <2>5. IsStep(F, Seq(T), N)
    BY <2>3 DEF IsStep
  <2>6. PICK g : IsFold(g, <<>>, F, Seq(T), N)
    <3> HIDE DEF F, N
    <3> QED
      BY <1>1, <2>4, <2>5, FoldExists
  <2>7. /\ g[1 .. 0] = <<>>
        /\ \A i \in 1 .. N : g[1 .. i] \in Seq(T) /\ g[1 .. i] = F[<<g[1 .. (i - 1)], i>>]
        /\ \A i \in 1 .. N : g[1 .. (i - 1)] \in Seq(T)
    <3> HIDE DEF F, N
    <3> QED
      BY <1>1, <2>6, FoldSteps
  <2>8. \A i \in 1 .. N : g[1 .. i] = g[1 .. (i - 1)] \o e[i]
    BY <2>7
  <2> HIDE DEF N, F
  <2> DEFINE h == [i \in 1 .. N |-> g[1 .. i]]
  <2>9. ASSUME NEW i \in 1 .. N
        PROVE  h[i] = IF i = 1 THEN e[i] ELSE h[i - 1] \o e[i]
    <3>1. CASE i = 1
      <4>1. g[1 .. 1] = <<>> \o e[1]
        <5>1. 1 - 1 = 0 /\ 1 \in 1 .. N
          BY <3>1
        <5> QED
          BY <2>7, <2>8, <5>1
      <4>2. <<>> \o e[1] = e[1]
        BY <1>1, <3>1, ConcatEmptySeq
      <4> QED
        BY <3>1, <4>1, <4>2
    <3>2. CASE i # 1
      <4>1. i - 1 \in 1 .. N
        BY <1>1, <3>2
      <4> QED
        BY <2>8, <3>2, <4>1
    <3> QED
      BY <3>1, <3>2
  <2>10. h = [i \in 1 .. N |-> IF i = 1 THEN e[i] ELSE h[i - 1] \o e[i]]
    BY <2>9
  <2> HIDE DEF h
  <2>11. it = [i \in 1 .. N |-> IF i = 1 THEN e[i] ELSE it[i - 1] \o e[i]]
    BY <2>10
  <2> HIDE DEF it
  <2> DEFINE Good(i) == /\ it[i] \in Seq(T)
                        /\ \A x : x \in Range(it[i]) <=> \E j \in 1 .. i : x \in Range(e[j])
             Bad == {i \in 1 .. N : ~ Good(i)}
  <2>12. \A a, b \in Seq(T) : \A x : x \in Range(a \o b) <=> x \in Range(a) \/ x \in Range(b)
    <3> SUFFICES ASSUME NEW a \in Seq(T), NEW b \in Seq(T)
                 PROVE  Range(a \o b) = Range(a) \cup Range(b)
      OBVIOUS
    <3> QED
      BY RangeConcatenation
  <2>13. ASSUME Bad # {} PROVE FALSE
    <3>1. PICK m \in Bad : \A i \in Bad : m <= i
      <4>1. Bad \in SUBSET Nat
        OBVIOUS
      <4> HIDE DEF Bad
      <4> QED
        BY <2>13, <4>1, LeastExists
    <3>2. m \in 1 .. N /\ ~ Good(m)
      OBVIOUS
    <3>3. m # 1
      <4> SUFFICES ASSUME m = 1 PROVE FALSE
        OBVIOUS
      <4>1. it[1] = e[1]
        BY <2>11, <3>2
      <4>2. Good(1)
        BY <1>1, <3>2, <4>1
      <4> QED
        BY <3>2, <4>2
    <3>4. m - 1 \in 1 .. N /\ m - 1 \notin Bad
      <4>1. m - 1 \in 1 .. N /\ ~ m <= m - 1
        BY <1>1, <3>2, <3>3
      <4> HIDE DEF Bad
      <4> QED
        BY <3>1, <4>1
    <3>5. Good(m - 1)
      BY <3>4
    <3>6. it[m] = it[m - 1] \o e[m]
      BY <2>11, <3>2, <3>3
    <3>7. it[m] \in Seq(T)
      BY <1>1, <3>2, <3>5, <3>6, ConcatProperties
    <3>8. \A x : x \in Range(it[m]) <=> x \in Range(it[m - 1]) \/ x \in Range(e[m])
      <4>1. it[m - 1] \in Seq(T) /\ e[m] \in Seq(T)
        BY <1>1, <3>2, <3>5
      <4> QED
        BY <2>12, <3>6, <4>1
    <3>9. ASSUME NEW x PROVE x \in Range(it[m]) <=> \E j \in 1 .. m : x \in Range(e[j])
      <4>1. 1 .. m = (1 .. (m - 1)) \cup {m}
        BY <3>2
      <4> QED
        BY <3>5, <3>8, <4>1
    <3> QED
      BY <3>2, <3>7, <3>9
  <2>14. Good(N)
    <3>1. N \in 1 .. N
      BY <1>1, <1>3
    <3> QED
      BY <2>13, <3>1
  <2> QED
    BY <1>1, <2>1, <2>14
<1> QED
  BY <1>2, <1>3
-----------------------------------------------------------------------------
(* Replacing one part of the state.                                        *)

\* What a sound state is made of.
LEMMA CoreParts ==
  ASSUME NEW W, NEW k \in Cores(W)
  PROVE  /\ k \in CoreFields(W) /\ SoundCore(k)
         /\ k.settings \in Configs /\ k.settings \in Config
         /\ k.workspaces \in Seq(WorkspaceStates(W))
         /\ DOMAIN k.workspaces = 1 .. Len(k.workspaces)
         /\ Len(k.workspaces) \in Nat /\ Len(k.workspaces) > 0
         /\ DOMAIN k.window \in SUBSET W
         /\ k.window \in [DOMAIN k.window -> WindowStates]
         /\ k.window_workspace \in [DOMAIN k.window -> DOMAIN k.workspaces]
         /\ k.effects \in Seq(Effects(W))
         /\ Sound(k.wsman, Len(k.workspaces))
         /\ DOMAIN k.wsman.ws_owner = DOMAIN k.workspaces
<1>1. k \in CoreFields(W) /\ SoundCore(k)
  BY DEF Cores
<1>2. /\ k.settings \in Configs /\ k.workspaces \in Seq(WorkspaceStates(W))
      /\ k.window \in UNION {[D -> WindowStates] : D \in SUBSET W}
      /\ k.window_workspace \in UNION {[D -> Nat] : D \in SUBSET W}
      /\ k.effects \in Seq(Effects(W))
  BY <1>1 DEF CoreFields
<1>3. k.settings \in Config /\ Len(k.settings.pins) > 0
  BY <1>2, TopologyAssumption
<1>4. DOMAIN k.workspaces = 1 .. Len(k.workspaces) /\ Len(k.workspaces) \in Nat
  BY <1>2
<1>5. Len(k.workspaces) > 0
  BY <1>1, <1>3 DEF SoundCore
<1>6. PICK D \in SUBSET W : k.window \in [D -> WindowStates]
  BY <1>2
<1>7. PICK E \in SUBSET W : k.window_workspace \in [E -> Nat]
  BY <1>2
<1>8. DOMAIN k.window \in SUBSET W /\ k.window \in [DOMAIN k.window -> WindowStates]
  BY <1>6
<1>9. k.window_workspace \in [DOMAIN k.window -> DOMAIN k.workspaces]
  BY <1>1, <1>7 DEF SoundCore, Indexes
<1>10. Sound(k.wsman, Len(k.workspaces))
  BY <1>1 DEF SoundCore
<1>11. DOMAIN k.wsman.ws_owner = 1 .. Len(k.workspaces)
  BY <1>10 DEF Sound, WellFormed, Fields
<1> QED
  BY <1>1, <1>2, <1>3, <1>4, <1>5, <1>8, <1>9, <1>10, <1>11

\* A field of every window.
LEMMA WindowParts ==
  ASSUME NEW W, NEW k \in Cores(W), NEW w \in DOMAIN k.window
  PROVE  /\ k.window[w] \in WindowStates
         /\ k.window_workspace[w] \in DOMAIN k.workspaces
         /\ w \in W
BY CoreParts

LEMMA NewWindows ==
  ASSUME NEW W, NEW k \in Cores(W), NEW f \in [DOMAIN k.window -> WindowStates]
  PROVE  [k EXCEPT !.window = f] \in Cores(W) /\ Alike(k, [k EXCEPT !.window = f])
<1> DEFINE j == [k EXCEPT !.window = f]
<1>1. k \in CoreFields(W) /\ SoundCore(k) /\ DOMAIN k.window \in SUBSET W
  BY CoreParts
<1>2. f \in UNION {[D -> WindowStates] : D \in SUBSET W} /\ DOMAIN f = DOMAIN k.window
  BY <1>1
<1>3. /\ j \in CoreFields(W) /\ j.window = f /\ j.window_workspace = k.window_workspace
      /\ j.workspaces = k.workspaces /\ j.wsman = k.wsman /\ j.settings = k.settings
  BY <1>1, <1>2 DEF CoreFields
<1> HIDE DEF j
<1>4. SoundCore(j)
  BY <1>1, <1>2, <1>3 DEF SoundCore, Indexes, ListsMatch
<1> QED
  BY <1>2, <1>3, <1>4 DEF Cores, Alike, j

LEMMA NewEffects ==
  ASSUME NEW W, NEW k \in Cores(W), NEW e \in Seq(Effects(W))
  PROVE  [k EXCEPT !.effects = e] \in Cores(W) /\ Alike(k, [k EXCEPT !.effects = e])
<1> DEFINE j == [k EXCEPT !.effects = e]
<1>1. k \in CoreFields(W) /\ SoundCore(k)
  BY CoreParts
<1>3. /\ j \in CoreFields(W) /\ j.window = k.window /\ j.window_workspace = k.window_workspace
      /\ j.workspaces = k.workspaces /\ j.wsman = k.wsman /\ j.settings = k.settings
  BY <1>1 DEF CoreFields
<1> HIDE DEF j
<1>4. SoundCore(j)
  BY <1>1, <1>3 DEF SoundCore, Indexes, ListsMatch
<1> QED
  BY <1>3, <1>4 DEF Cores, Alike, j

LEMMA NewManager ==
  ASSUME NEW W, NEW k \in Cores(W), NEW t, Sound(t, Len(k.workspaces))
  PROVE  [k EXCEPT !.wsman = t] \in Cores(W) /\ Alike(k, [k EXCEPT !.wsman = t])
<1> DEFINE j == [k EXCEPT !.wsman = t]
<1>1. k \in CoreFields(W) /\ SoundCore(k) /\ Len(k.workspaces) \in Nat
  BY CoreParts
<1>2. t \in UNION {Fields(n) : n \in Nat}
  BY <1>1 DEF Sound, WellFormed
<1>3. /\ j \in CoreFields(W) /\ j.window = k.window /\ j.window_workspace = k.window_workspace
      /\ j.workspaces = k.workspaces /\ j.wsman = t /\ j.settings = k.settings
  BY <1>1, <1>2 DEF CoreFields
<1> HIDE DEF j
<1>4. SoundCore(j)
  BY <1>1, <1>3 DEF SoundCore, Indexes, ListsMatch
<1> QED
  BY <1>3, <1>4 DEF Cores, Alike, j

\* A workspace whose list changes its order, its cursor or its mode.
LEMMA NewWorkspace ==
  ASSUME NEW W, NEW k \in Cores(W), NEW ws \in DOMAIN k.workspaces,
         NEW s \in WorkspaceStates(W), Cursor(s),
         Range(s.windows) = Range(k.workspaces[ws].windows)
  PROVE  /\ [k EXCEPT !.workspaces[ws] = s] \in Cores(W)
         /\ Alike(k, [k EXCEPT !.workspaces[ws] = s])
<1> DEFINE j == [k EXCEPT !.workspaces[ws] = s]
<1>1. /\ k \in CoreFields(W) /\ SoundCore(k) /\ k.workspaces \in Seq(WorkspaceStates(W))
      /\ DOMAIN k.workspaces = 1 .. Len(k.workspaces) /\ Len(k.workspaces) \in Nat
  BY CoreParts
<1>2. [k.workspaces EXCEPT ![ws] = s] \in Seq(WorkspaceStates(W))
  BY <1>1
<1>3. /\ j \in CoreFields(W) /\ j.window = k.window /\ j.window_workspace = k.window_workspace
      /\ j.workspaces = [k.workspaces EXCEPT ![ws] = s]
      /\ j.wsman = k.wsman /\ j.settings = k.settings
  BY <1>1, <1>2 DEF CoreFields
<1>4. Len(j.workspaces) = Len(k.workspaces) /\ DOMAIN j.workspaces = DOMAIN k.workspaces
  BY <1>1, <1>3
<1> HIDE DEF j
<1>5. ListsMatch(j)
  BY <1>1, <1>3, <1>4 DEF SoundCore, ListsMatch
<1>6. SoundCore(j)
  BY <1>1, <1>3, <1>4, <1>5 DEF SoundCore, Indexes
<1> QED
  BY <1>3, <1>6 DEF Cores, Alike, j
-----------------------------------------------------------------------------
(* Workspace.                                                              *)

\* A list without the element at position i.
LEMMA Removed ==
  ASSUME NEW T, NEW s \in Seq(T), NEW i \in 1 .. Len(s)
  PROVE  /\ RemoveAt(s, i) \in Seq(T) /\ Len(RemoveAt(s, i)) = Len(s) - 1
         /\ \A j \in 1 .. Len(s) - 1 :
              RemoveAt(s, i)[j] = IF j < i THEN s[j] ELSE s[j + 1]
<1> DEFINE a == SubSeq(s, 1, i - 1)
           b == SubSeq(s, i + 1, Len(s))
<1>1. Len(s) \in Nat /\ i \in Nat /\ i <= Len(s) /\ DOMAIN s = 1 .. Len(s)
  OBVIOUS
<1>2. /\ a \in Seq(T) /\ Len(a) = i - 1
      /\ \A j \in 1 .. i - 1 : a[j] = s[j]
  <2>1. \A j \in 1 .. i - 1 : s[j] \in T
    BY <1>1
  <2> QED
    BY <1>1, <2>1, SubSeqProperties
<1>3. /\ b \in Seq(T) /\ Len(b) = Len(s) - i
      /\ \A j \in 1 .. Len(s) - i : b[j] = s[i + j]
  <2>1. b = [j \in 1 .. Len(s) - i |-> s[i + j]]
    BY <1>1
  <2>2. \A j \in 1 .. Len(s) - i : s[i + j] \in T
    BY <1>1
  <2>3. Len(s) - i \in Nat
    BY <1>1
  <2> QED
    BY <2>1, <2>2, <2>3
<1>4. RemoveAt(s, i) = a \o b
  BY DEF RemoveAt
<1> HIDE DEF a, b
<1>5. a \o b \in Seq(T) /\ Len(a \o b) = Len(s) - 1
  <2>1. a \o b \in Seq(T) /\ Len(a \o b) = Len(a) + Len(b)
    BY <1>2, <1>3, ConcatProperties
  <2> QED
    BY <1>1, <1>2, <1>3, <2>1
<1>6. ASSUME NEW j \in 1 .. Len(s) - 1
      PROVE  (a \o b)[j] = IF j < i THEN s[j] ELSE s[j + 1]
  <2>1. CASE j < i
    BY <1>1, <1>2, <1>3, <2>1
  <2>2. CASE ~ j < i
    <3>1. j - (i - 1) \in 1 .. Len(s) - i /\ j > Len(a) /\ j <= Len(a) + Len(b)
      BY <1>1, <1>2, <1>3, <2>2
    <3>2. (a \o b)[j] = b[j - (i - 1)]
      BY <1>1, <1>2, <1>3, <3>1
    <3>3. b[j - (i - 1)] = s[i + (j - (i - 1))]
      BY <1>3, <3>1
    <3>4. i + (j - (i - 1)) = j + 1
      BY <1>1
    <3> QED
      BY <2>2, <3>2, <3>3, <3>4
  <2> QED
    BY <2>1, <2>2
<1> QED
  BY <1>4, <1>5, <1>6

\* add_window: the list grows by the window.
LEMMA AddWindow ==
  ASSUME NEW W, NEW s \in WorkspaceStates(W), Cursor(s), NEW w \in W,
         w \notin Range(s.windows)
  PROVE  LET r == Workspace_add_window(s, w)
         IN  /\ r \in WorkspaceStates(W) /\ Cursor(r)
             /\ Range(r.windows) = Range(s.windows) \cup {w}
<1> DEFINE r == Workspace_add_window(s, w)
           n == Len(s.windows)
<1>1. s.windows \in Seq(W) /\ s.current \in Nat /\ n \in Nat /\ DOMAIN s.windows = 1 .. n
  BY DEF WorkspaceStates
<1>2. /\ r.windows = Append(s.windows, w)
      /\ r.current = IF s.current = 0 THEN 1 ELSE s.current
      /\ r \in WorkspaceStates(W)
  <2>1. Append(s.windows, w) \in Seq(W)
    BY <1>1
  <2>2. (IF s.current = 0 THEN 1 ELSE s.current) \in Nat
    BY <1>1
  <2> QED
    BY <2>1, <2>2 DEF Workspace_add_window, WorkspaceStates
<1> HIDE DEF r
<1>3. /\ DOMAIN r.windows = 1 .. n + 1 /\ r.windows[n + 1] = w
      /\ \A i \in 1 .. n : r.windows[i] = s.windows[i]
  BY <1>1, <1>2
<1>4. Range(r.windows) = Range(s.windows) \cup {w}
  BY <1>1, <1>3 DEF Range
<1>5. \A i \in 1 .. n : r.windows[i] # w
  BY <1>1, <1>3 DEF Range
<1>6. \A i, j \in DOMAIN r.windows : r.windows[i] = r.windows[j] => i = j
  BY <1>1, <1>3, <1>5, SMTT(60) DEF Cursor
<1>7. r.windows # <<>> /\ r.current \in DOMAIN r.windows
  <2>1. s.current = 0 \/ s.current \in 1 .. n
    BY <1>1 DEF Cursor
  <2> QED
    BY <1>1, <1>2, <1>3, <2>1
<1> QED
  BY <1>2, <1>4, <1>6, <1>7 DEF Cursor, r

\* remove_window: the window leaves the list, the cursor stays in it.
LEMMA RemoveWindow ==
  ASSUME NEW W, NEW s \in WorkspaceStates(W), Cursor(s), NEW w
  PROVE  LET r == Workspace_remove_window(s, w)
         IN  /\ r \in WorkspaceStates(W) /\ Cursor(r)
             /\ Range(r.windows) = Range(s.windows) \ {w}
<1> DEFINE r == Workspace_remove_window(s, w)
           n == Len(s.windows)
           i == index_of(s.windows, w)
           q == RemoveAt(s.windows, i)
<1>1. s.windows \in Seq(W) /\ s.current \in Nat /\ n \in Nat /\ DOMAIN s.windows = 1 .. n
  BY DEF WorkspaceStates
<1>2. /\ i \in 0 .. n
      /\ w \in Range(s.windows) => i \in 1 .. n /\ s.windows[i] = w
      /\ w \notin Range(s.windows) => i = 0
  BY <1>1, IndexOf
<1> HIDE DEF i
<1>3. CASE i = 0
  <2>1. r = s /\ w \notin Range(s.windows)
    BY <1>2, <1>3 DEF Workspace_remove_window, i
  <2> QED
    BY <2>1
<1>4. CASE i # 0
  <2>1. i \in 1 .. n /\ s.windows[i] = w /\ w \in Range(s.windows)
    BY <1>2, <1>4
  <2>2. /\ q \in Seq(W) /\ Len(q) = n - 1
        /\ \A j \in 1 .. n - 1 : q[j] = IF j < i THEN s.windows[j] ELSE s.windows[j + 1]
    BY <1>1, <2>1, Removed
  <2> HIDE DEF q
  <2>3. s.current \in 1 .. n
    BY <1>1, <2>1 DEF Cursor
  <2> DEFINE c == IF s.current > i \/ s.current > Len(q) THEN s.current - 1 ELSE s.current
  <2>4. r = [s EXCEPT !.windows = q, !.current = c]
    BY <1>4 DEF Workspace_remove_window, q, i
  <2>5. c \in Nat /\ (n > 1 => c \in 1 .. n - 1) /\ (n = 1 => c = 0)
    BY <1>1, <2>1, <2>2, <2>3
  <2> HIDE DEF c, r
  <2>6. r.windows = q /\ r.current = c /\ r \in WorkspaceStates(W)
    BY <2>2, <2>4, <2>5 DEF WorkspaceStates
  <2>7. DOMAIN q = 1 .. n - 1 /\ (q = <<>> <=> n = 1)
    <3>1. q = <<>> <=> Len(q) = 0
      BY <2>2, EmptySeq
    <3> QED
      BY <1>1, <2>1, <2>2, <3>1
  <2>8. \A a, b \in DOMAIN s.windows : s.windows[a] = s.windows[b] => a = b
    BY DEF Cursor
  <2>9. ASSUME NEW a \in 1 .. n - 1, NEW b \in 1 .. n - 1, q[a] = q[b] PROVE a = b
    <3>1. /\ q[a] = IF a < i THEN s.windows[a] ELSE s.windows[a + 1]
          /\ q[b] = IF b < i THEN s.windows[b] ELSE s.windows[b + 1]
      BY <2>2
    <3>2. a \in 1 .. n /\ a + 1 \in 1 .. n /\ b \in 1 .. n /\ b + 1 \in 1 .. n
      BY <1>1
    <3>3. CASE a < i /\ b < i
      BY <1>1, <2>8, <2>9, <3>1, <3>2, <3>3
    <3>4. CASE a < i /\ ~ b < i
      <4>1. s.windows[a] = s.windows[b + 1]
        BY <2>9, <3>1, <3>4
      <4>2. a = b + 1
        BY <1>1, <2>8, <3>2, <4>1
      <4> QED
        BY <2>1, <3>4, <4>2
    <3>5. CASE ~ a < i /\ b < i
      <4>1. s.windows[a + 1] = s.windows[b]
        BY <2>9, <3>1, <3>5
      <4>2. a + 1 = b
        BY <1>1, <2>8, <3>2, <4>1
      <4> QED
        BY <2>1, <3>5, <4>2
    <3>6. CASE ~ a < i /\ ~ b < i
      <4>1. s.windows[a + 1] = s.windows[b + 1]
        BY <2>9, <3>1, <3>6
      <4>2. a + 1 = b + 1
        BY <1>1, <2>8, <3>2, <4>1
      <4> QED
        BY <4>2
    <3> QED
      BY <3>3, <3>4, <3>5, <3>6
  <2>10. Cursor(r)
    <3>1. \A a, b \in DOMAIN r.windows : r.windows[a] = r.windows[b] => a = b
      BY <2>6, <2>7, <2>9
    <3>2. IF r.windows = <<>> THEN r.current = 0 ELSE r.current \in DOMAIN r.windows
      BY <1>1, <2>1, <2>5, <2>6, <2>7
    <3> QED
      BY <3>1, <3>2 DEF Cursor
  <2>11. ASSUME NEW v \in Range(q) PROVE v \in Range(s.windows) /\ v # w
    <3>1. PICK j \in 1 .. n - 1 : v = q[j]
      BY <2>7 DEF Range
    <3>2. PICK l \in 1 .. n : l # i /\ v = s.windows[l]
      BY <1>1, <2>1, <2>2, <3>1
    <3> QED
      BY <1>1, <2>1, <2>8, <3>2 DEF Range
  <2>12. ASSUME NEW v \in Range(s.windows), v # w PROVE v \in Range(q)
    <3>1. PICK l \in 1 .. n : v = s.windows[l]
      BY <1>1 DEF Range
    <3>2. l # i
      BY <2>1, <2>12, <3>1
    <3>3. PICK j \in 1 .. n - 1 : v = q[j]
      <4>1. CASE l < i
        <5>1. l \in 1 .. n - 1
          BY <1>1, <2>1, <4>1
        <5> QED
          BY <2>2, <3>1, <4>1, <5>1
      <4>2. CASE l > i
        <5>1. l - 1 \in 1 .. n - 1 /\ ~ l - 1 < i /\ (l - 1) + 1 = l
          BY <1>1, <2>1, <4>2
        <5> QED
          BY <2>2, <3>1, <5>1
      <4> QED
        BY <1>1, <2>1, <3>2, <4>1, <4>2
    <3> QED
      BY <2>7, <3>3 DEF Range
  <2>13. Range(q) = Range(s.windows) \ {w}
    BY <2>11, <2>12
  <2> QED
    BY <2>6, <2>10, <2>13 DEF r
<1> QED
  BY <1>3, <1>4

\* The focused window is one of the list.
LEMMA Focused ==
  ASSUME NEW W, NEW k, NEW s \in WorkspaceStates(W)
  PROVE  /\ s.windows # <<>> => Workspace_focused(k, s) \in Range(s.windows)
         /\ s.windows = <<>> => Workspace_focused(k, s) = NoWindow
<1>1. s.windows = <<>> => Workspace_focused(k, s) = NoWindow
  BY DEF Workspace_focused
<1>2. ASSUME s.windows # <<>> PROVE Workspace_focused(k, s) \in Range(s.windows)
  <2> DEFINE ok == Keep(s.windows, selectable(k, s))
  <2>1. s.windows \in Seq(W)
    BY DEF WorkspaceStates
  <2>2. s.windows[1] \in Range(s.windows)
    BY <1>2, <2>1 DEF Range
  <2>3. selectable(k, s) \subseteq Range(s.windows) /\ selectable(k, s) # {}
    BY <2>2 DEF selectable
  <2>4. ok \in Seq(W \cap selectable(k, s)) /\ Range(ok) = selectable(k, s)
    <3>1. /\ ok \in Seq(W \cap selectable(k, s))
          /\ Range(ok) = Range(s.windows) \cap selectable(k, s)
      BY <2>1, KeepLists
    <3> QED
      BY <2>3, <3>1
  <2> HIDE DEF ok
  <2>5. ok[1] \in Range(s.windows)
    BY <2>3, <2>4 DEF Range
  <2>6. Workspace_focused(k, s) = cursor_or_first(s, ok)
    BY <1>2 DEF Workspace_focused, ok
  <2> QED
    BY <2>3, <2>4, <2>5, <2>6 DEF cursor_or_first
<1> QED
  BY <1>1, <1>2

LEMMA LeastOf ==
  ASSUME NEW T \in SUBSET Nat, T # {}
  PROVE  Min(T) \in T
<1>1. PICK m \in T : \A n \in T : m <= n
  BY LeastExists
<1> QED
  BY <1>1 DEF Min

\* focus_next and focus_prev move the cursor within the list.
LEMMA FocusSteps ==
  ASSUME NEW W, NEW k, NEW s \in WorkspaceStates(W), Cursor(s), NEW dir \in {1, -1}
  PROVE  LET r == Workspace_focus_step(k, s, dir)
         IN  r \in WorkspaceStates(W) /\ Cursor(r) /\ r.windows = s.windows
<1> DEFINE n     == Len(s.windows)
           base  == IF dir = 1 \/ s.current \in 1 .. n THEN s.current ELSE 1
           at(i) == wrap(base + dir * i, n)
           ok    == {i \in 1 .. n : s.windows[at(i)] \in selectable(k, s)}
           tiled == {i \in ok : ~ k.window[s.windows[at(i)]].floating}
           from  == IF tiled = {} THEN ok ELSE tiled
           r     == Workspace_focus_step(k, s, dir)
<1>1. s.windows \in Seq(W) /\ s.current \in Nat /\ n \in Nat /\ DOMAIN s.windows = 1 .. n
  BY DEF WorkspaceStates
<1>2. r = IF n = 0 THEN s ELSE [s EXCEPT !.current = at(Min(from))]
  BY DEF Workspace_focus_step
<1>3. CASE n = 0
  BY <1>2, <1>3
<1>4. CASE n # 0
  <2>1. s.windows # <<>> /\ s.current \in 1 .. n /\ base = s.current
    BY <1>1, <1>4 DEF Cursor
  <2>2. \A i \in 1 .. n : at(i) \in 1 .. n
    <3>1. \A i \in 1 .. n : wrap(s.current + i, n) \in 1 .. n /\ wrap(s.current - i, n) \in 1 .. n
      BY <1>1, <2>1, SMTT(60) DEF wrap
    <3>2. \A i \in 1 .. n : base + dir * i = IF dir = 1 THEN s.current + i ELSE s.current - i
      BY <1>1, <2>1
    <3> QED
      BY <3>1, <3>2
  <2>3. \A p \in 1 .. n : \E i \in 1 .. n : at(i) = p
    <3> SUFFICES ASSUME NEW p \in 1 .. n PROVE \E i \in 1 .. n : at(i) = p
      OBVIOUS
    <3> DEFINE d == IF dir = 1 THEN p - s.current ELSE s.current - p
               i == IF d > 0 THEN d ELSE d + n
    <3>1. CASE dir = 1
      <4>1. i \in 1 .. n /\ base + dir * i = s.current + i
        BY <1>1, <2>1, <3>1
      <4>2. wrap(s.current + i, n) = p
        BY <1>1, <2>1, <3>1 DEF wrap
      <4> QED
        BY <4>1, <4>2
    <3>2. CASE dir = -1
      <4>1. i \in 1 .. n
        BY <1>1, <2>1, <3>2
      <4>2. wrap(s.current - i, n) = p
        BY <1>1, <2>1, <3>2 DEF wrap
      <4> HIDE DEF i
      <4>3. base + dir * i = s.current - i
        BY <1>1, <2>1, <3>2, <4>1
      <4> QED
        BY <4>1, <4>2, <4>3
    <3> QED
      BY <3>1, <3>2
  <2> HIDE DEF at
  <2>4. PICK v \in Range(s.windows) : v \in selectable(k, s)
    <3>1. s.windows[1] \in Range(s.windows)
      BY <1>1, <1>4 DEF Range
    <3> QED
      BY <3>1 DEF selectable
  <2>5. PICK p \in 1 .. n : s.windows[p] = v
    BY <1>1, <2>4 DEF Range
  <2>6. ok # {} /\ ok \subseteq 1 .. n
    BY <2>3, <2>4, <2>5
  <2>7. from # {} /\ from \subseteq 1 .. n
    BY <2>6
  <2> HIDE DEF ok, from
  <2>8. Min(from) \in 1 .. n
    <3>1. from \in SUBSET Nat
      BY <2>7
    <3> QED
      BY <2>7, <3>1, LeastOf
  <2>9. r = [s EXCEPT !.current = at(Min(from))] /\ at(Min(from)) \in 1 .. n
    BY <1>2, <1>4, <2>2, <2>8
  <2> HIDE DEF r
  <2>10. r.windows = s.windows /\ r.current \in 1 .. n /\ r \in WorkspaceStates(W)
    BY <1>1, <2>9 DEF WorkspaceStates
  <2> QED
    BY <1>1, <2>1, <2>10 DEF Cursor, r
<1> QED
  BY <1>3, <1>4

swapped(s, f, o) ==
  [s EXCEPT !.windows = [@ EXCEPT ![f] = s.windows[o], ![o] = s.windows[f]], !.current = o]

\* Two windows of the list change places.
LEMMA Swapped ==
  ASSUME NEW W, NEW s \in WorkspaceStates(W), Cursor(s),
         NEW f \in DOMAIN s.windows, NEW o \in DOMAIN s.windows, f # o
  PROVE  LET r == swapped(s, f, o)
         IN  r \in WorkspaceStates(W) /\ Cursor(r) /\ Range(r.windows) = Range(s.windows)
<1> DEFINE q == [s.windows EXCEPT ![f] = s.windows[o], ![o] = s.windows[f]]
           r == [s EXCEPT !.windows = q, !.current = o]
           n == Len(s.windows)
<1>1. s.windows \in Seq(W) /\ n \in Nat /\ DOMAIN s.windows = 1 .. n
  BY DEF WorkspaceStates
<1>2. /\ DOMAIN q = 1 .. n /\ q[f] = s.windows[o] /\ q[o] = s.windows[f]
      /\ \A i \in 1 .. n : i # f /\ i # o => q[i] = s.windows[i]
  BY <1>1
<1>3. q \in Seq(W)
  BY <1>1
<1> HIDE DEF q
<1>4. r.windows = q /\ r.current = o /\ r \in WorkspaceStates(W)
  <2>1. o \in Nat
    BY <1>1
  <2> QED
    BY <1>3, <2>1 DEF WorkspaceStates
<1> HIDE DEF r
<1>5. \A i, j \in 1 .. n : s.windows[i] = s.windows[j] => i = j
  BY <1>1 DEF Cursor
<1>6. \A i, j \in 1 .. n : q[i] = q[j] => i = j
  BY <1>1, <1>2, <1>5
<1>7. Range(q) = Range(s.windows)
  <2>1. \A i \in 1 .. n : \E j \in 1 .. n : q[i] = s.windows[j]
    BY <1>1, <1>2
  <2>2. \A i \in 1 .. n : \E j \in 1 .. n : s.windows[i] = q[j]
    BY <1>1, <1>2
  <2>3. Range(q) = {q[i] : i \in 1 .. n} /\ Range(s.windows) = {s.windows[i] : i \in 1 .. n}
    BY <1>1, <1>2 DEF Range
  <2> QED
    BY <2>1, <2>2, <2>3, ZenonT(60)
<1>8. q # <<>>
  BY <1>1, <1>2
<1>9. Cursor(r)
  BY <1>1, <1>2, <1>4, <1>6, <1>8 DEF Cursor
<1> QED
  BY <1>4, <1>7, <1>9 DEF r, q, swapped

\* zoom_focused permutes the list and keeps the cursor in it.
LEMMA Zooms ==
  ASSUME NEW W, NEW k, NEW s \in WorkspaceStates(W), Cursor(s)
  PROVE  LET r == Workspace_zoom(k, s)
         IN  r \in WorkspaceStates(W) /\ Cursor(r) /\ Range(r.windows) = Range(s.windows)
<1> DEFINE f     == index_of(s.windows, Workspace_focused(k, s))
           tiled == {i \in DOMAIN s.windows : ~ k.window[s.windows[i]].floating}
           other == IF f = Min(tiled) THEN Min(tiled \ {f}) ELSE Min(tiled)
           r     == Workspace_zoom(k, s)
<1>1. s.windows \in Seq(W) /\ tiled \in SUBSET Nat /\ tiled \subseteq DOMAIN s.windows
  BY DEF WorkspaceStates
<1>2. r = IF f \notin tiled \/ tiled = {f} THEN s
          ELSE swapped(s, f, other)
  BY DEF Workspace_zoom, zoom_at, swapped
<1> HIDE DEF f, tiled
<1>3. CASE f \notin tiled \/ tiled = {f}
  BY <1>2, <1>3
<1>4. CASE ~ (f \notin tiled \/ tiled = {f})
  <2>1. f \in tiled /\ tiled # {} /\ tiled \ {f} # {} /\ tiled \ {f} \in SUBSET Nat
    BY <1>1, <1>4
  <2>2. Min(tiled) \in tiled
    BY <1>1, <2>1, LeastOf
  <2>3. Min(tiled \ {f}) \in tiled \ {f}
    BY <2>1, LeastOf
  <2>4. other \in DOMAIN s.windows /\ other # f /\ f \in DOMAIN s.windows
    BY <1>1, <2>1, <2>2, <2>3
  <2> HIDE DEF other
  <2>5. r = swapped(s, f, other)
    BY <1>2, <1>4
  <2> QED
    BY <2>4, <2>5, Swapped
<1> QED
  BY <1>3, <1>4
-----------------------------------------------------------------------------
(* WorkspaceManager: windows.                                              *)

\* The current workspace exists.
LEMMA CurrentExists ==
  ASSUME NEW W, NEW k \in Cores(W)
  PROVE  current_ws(k) \in DOMAIN k.workspaces
<1> DEFINE n == Len(k.workspaces)
           shows(m) == active_ws_of_monitor(k.wsman, m)
           some == {m \in DOMAIN k.wsman.monitors : shows(m) > 0}
<1>1. n \in Nat /\ n > 0 /\ DOMAIN k.workspaces = 1 .. n /\ Sound(k.wsman, n)
  BY CoreParts
<1>2. /\ k.wsman \in Fields(n) /\ Len(k.wsman.monitor_pools) = Len(k.wsman.monitors)
      /\ some \in SUBSET Nat
  <2>1. k.wsman \in Fields(n) /\ Len(k.wsman.monitor_pools) = Len(k.wsman.monitors)
    BY <1>1 DEF Sound, WellFormed
  <2>2. k.wsman.monitors \in Seq(Outputs)
    BY <2>1 DEF Fields
  <2> QED
    BY <2>1, <2>2
<1>3. \A m : shows(m) \in 0 .. n
  BY <1>1, <1>2, ActiveOf
<1>4. \A m \in some : shows(m) \in 1 .. n
  BY <1>1, <1>3
<1>5. some # {} => (CHOOSE m \in some : \A l \in some : m <= l) \in some
  <2> SUFFICES ASSUME some # {}
               PROVE  (CHOOSE m \in some : \A l \in some : m <= l) \in some
    OBVIOUS
  <2> HIDE DEF some
  <2>1. PICK m \in some : \A l \in some : m <= l
    BY <1>2, LeastExists
  <2> QED
    BY <2>1
<1>6. current_ws(k) = IF k.wsman.focused_monitor \in some
                      THEN shows(k.wsman.focused_monitor)
                      ELSE IF some = {} THEN 1
                      ELSE shows(CHOOSE m \in some : \A l \in some : m <= l)
  BY DEF current_ws
<1> HIDE DEF some, shows
<1> QED
  BY <1>1, <1>4, <1>5, <1>6

\* While there is a monitor every workspace has one.
LEMMA MonitorOf ==
  ASSUME NEW W, NEW k \in Cores(W), NEW ws \in DOMAIN k.workspaces
  PROVE  /\ monitor_of(k.wsman, ws) \in 0 .. Len(k.wsman.monitors)
         /\ k.wsman.monitors # <<>> =>
              monitor_of(k.wsman, ws) \in 1 .. Len(k.wsman.monitors)
         /\ k.wsman.monitors \in Seq(Outputs)
<1>1. /\ Len(k.workspaces) \in Nat /\ Sound(k.wsman, Len(k.workspaces))
      /\ ws \in 1 .. Len(k.workspaces)
  BY CoreParts
<1>2. k.wsman.monitors \in Seq(Outputs)
  BY <1>1 DEF Sound, WellFormed, Fields
<1>3. monitor_of(k.wsman, ws) \in 0 .. Len(k.wsman.monitors)
  BY <1>2 DEF monitor_of, is_mon_valid
<1> QED
  BY <1>1, <1>2, <1>3, Owner

\* A workspace that is shown has a monitor.
LEMMA ShownHasMonitor ==
  ASSUME NEW W, NEW k \in Cores(W), NEW ws \in DOMAIN k.workspaces,
         is_workspace_visible(k, ws)
  PROVE  monitor_of(k.wsman, ws) \in 1 .. Len(k.wsman.monitors)
<1>1. Sound(k.wsman, Len(k.workspaces))
  BY CoreParts
<1>2. /\ k.wsman.active_ws \in Seq(Nat) /\ Len(k.wsman.active_ws) = Len(k.wsman.monitors)
      /\ k.wsman.monitors \in Seq(Outputs)
  BY <1>1 DEF Sound, WellFormed, Fields
<1>3. k.wsman.monitors # <<>>
  BY <1>2 DEF is_workspace_visible, Range
<1> QED
  BY <1>3, MonitorOf

\* The state with the windows win, w among them, and w in the list of ws.
placed(k, win, ws, w) ==
  [k EXCEPT !.window = win,
            !.workspaces = relist(@, workspace_of_window(k, w), ws, w),
            !.window_workspace = insert(@, w, ws)]

\* The window goes from the list it is in, if any, to that of ws.
LEMMA PutWindow ==
  ASSUME NEW W, NEW k \in Cores(W), NEW w \in W, NEW ws \in DOMAIN k.workspaces,
         workspace_of_window(k, w) # ws,
         NEW win \in [DOMAIN k.window \cup {w} -> WindowStates]
  PROVE  LET j == placed(k, win, ws, w)
         IN  j \in Cores(W) /\ DOMAIN j.window = DOMAIN k.window \cup {w}
             /\ j.settings = k.settings
<1> DEFINE old == workspace_of_window(k, w)
           n   == Len(k.workspaces)
           L   == k.workspaces
           idx == k.window_workspace
           new == insert(idx, w, ws)
           M   == [i \in 1 .. n |-> IF i = ws THEN Workspace_add_window(L[i], w)
                                    ELSE IF i = old THEN Workspace_remove_window(L[i], w)
                                    ELSE L[i]]
           j   == [k EXCEPT !.window = win, !.workspaces = M, !.window_workspace = new]
<1>1. /\ k \in CoreFields(W) /\ SoundCore(k) /\ L \in Seq(WorkspaceStates(W))
      /\ DOMAIN L = 1 .. n /\ n \in Nat /\ DOMAIN k.window \in SUBSET W
      /\ idx \in [DOMAIN k.window -> 1 .. n]
  BY CoreParts
<1>2. old \in 0 .. n /\ (w \in DOMAIN k.window => old = idx[w])
                     /\ (w \notin DOMAIN k.window => old = 0)
  BY <1>1 DEF workspace_of_window
<1>3. /\ new \in [DOMAIN k.window \cup {w} -> 1 .. n] /\ new[w] = ws
      /\ \A v \in DOMAIN k.window : v # w => new[v] = idx[v]
  <2>1. ws \in 1 .. n
    BY <1>1
  <2>2. idx \in [DOMAIN k.window -> 1 .. n]
    BY <1>1
  <2> HIDE DEF idx, n
  <2> QED
    BY <2>1, <2>2 DEF insert
<1>4. \A i \in 1 .. n : /\ L[i] \in WorkspaceStates(W) /\ Cursor(L[i])
                        /\ Range(L[i].windows) = {v \in DOMAIN k.window : idx[v] = i}
  BY <1>1 DEF SoundCore, ListsMatch
<1> HIDE DEF old, new, M
<1>5. ASSUME NEW i \in 1 .. n
      PROVE  /\ M[i] \in WorkspaceStates(W) /\ Cursor(M[i])
             /\ Range(M[i].windows) = {v \in DOMAIN k.window \cup {w} : new[v] = i}
  <2>1. CASE i = ws
    <3>1. M[i] = Workspace_add_window(L[i], w)
      BY <2>1 DEF M
    <3>2. w \notin Range(L[i].windows)
      BY <1>2, <1>4, <2>1 DEF old
    <3>3. /\ M[i] \in WorkspaceStates(W) /\ Cursor(M[i])
          /\ Range(M[i].windows) = Range(L[i].windows) \cup {w}
      <4>1. L[i] \in WorkspaceStates(W) /\ Cursor(L[i])
        BY <1>4
      <4> DEFINE s == L[i]
      <4> HIDE DEF s
      <4>2. Range(Workspace_add_window(s, w).windows) = Range(s.windows) \cup {w}
        <5>1. s \in WorkspaceStates(W) /\ Cursor(s) /\ w \notin Range(s.windows)
          BY <3>2, <4>1 DEF s
        <5> QED
          BY <5>1, AddWindow
      <4>3. M[i] \in WorkspaceStates(W) /\ Cursor(M[i])
        BY <3>1, <3>2, <4>1, AddWindow
      <4> QED
        BY <3>1, <4>2, <4>3 DEF s
    <3> QED
      BY <1>3, <1>4, <2>1, <3>3
  <2>2. CASE i # ws /\ i = old
    <3>1. M[i] = Workspace_remove_window(L[i], w)
      BY <2>2 DEF M
    <3>2. /\ M[i] \in WorkspaceStates(W) /\ Cursor(M[i])
          /\ Range(M[i].windows) = Range(L[i].windows) \ {w}
      <4>1. L[i] \in WorkspaceStates(W) /\ Cursor(L[i])
        BY <1>4
      <4>2. Range(Workspace_remove_window(L[i], w).windows) = Range(L[i].windows) \ {w}
        BY <4>1, RemoveWindow
      <4>3. M[i] \in WorkspaceStates(W) /\ Cursor(M[i])
        BY <3>1, <4>1, RemoveWindow
      <4> QED
        BY <3>1, <4>2, <4>3
    <3> QED
      BY <1>3, <1>4, <2>2, <3>2
  <2>3. CASE i # ws /\ i # old
    <3>1. M[i] = L[i]
      BY <2>3 DEF M
    <3>2. w \notin Range(L[i].windows)
      BY <1>2, <1>4, <2>3
    <3> QED
      BY <1>3, <1>4, <2>3, <3>1, <3>2
  <2> QED
    BY <2>1, <2>2, <2>3
<1>6. M \in [1 .. n -> WorkspaceStates(W)]
  BY <1>5 DEF M
<1>7. List(M) = M /\ M \in Seq(WorkspaceStates(W)) /\ Len(M) = n /\ DOMAIN M = 1 .. n
  BY <1>1, <1>6, ListIs
<1>8. /\ win \in UNION {[D -> WindowStates] : D \in SUBSET W}
      /\ new \in UNION {[D -> Nat] : D \in SUBSET W}
  <2>1. DOMAIN k.window \cup {w} \in SUBSET W
    BY <1>1
  <2>2. new \in [DOMAIN k.window \cup {w} -> Nat]
    BY <1>3
  <2> QED
    BY <2>1, <2>2
<1>9. /\ j \in CoreFields(W) /\ j.window = win /\ j.window_workspace = new
      /\ j.workspaces = M /\ j.wsman = k.wsman /\ j.settings = k.settings
  BY <1>1, <1>7, <1>8 DEF CoreFields
<1> HIDE DEF j
<1>10. Indexes(j)
  BY <1>3, <1>7, <1>9 DEF Indexes
<1>11. ListsMatch(j)
  BY <1>5, <1>7, <1>9 DEF ListsMatch
<1>12. SoundCore(j)
  BY <1>1, <1>7, <1>9, <1>10, <1>11 DEF SoundCore
<1>13. j \in Cores(W) /\ DOMAIN j.window = DOMAIN k.window \cup {w} /\ j.settings = k.settings
  BY <1>9, <1>12 DEF Cores
<1>14. placed(k, win, ws, w) = j
  BY <1>1, <1>7 DEF placed, relist, j, M, new, old
<1> QED
  BY <1>13, <1>14

\* move_window_to, for a window that is managed.
LEMMA MoveWindow ==
  ASSUME NEW W, NEW k \in Cores(W), NEW w \in DOMAIN k.window, NEW ws
  PROVE  move_window_to(k, ws, w) \in Cores(W) /\ Alike(k, move_window_to(k, ws, w))
<1> DEFINE j == move_window_to(k, ws, w)
<1>1. CASE workspace_of_window(k, w) = ws \/ ~ is_ws_valid(k.wsman, ws)
  <2>1. j = k
    BY <1>1 DEF move_window_to
  <2> QED
    BY <2>1 DEF Alike
<1>2. CASE ~ (workspace_of_window(k, w) = ws \/ ~ is_ws_valid(k.wsman, ws))
  <2>1. /\ ws \in DOMAIN k.workspaces /\ workspace_of_window(k, w) # ws /\ w \in W
        /\ DOMAIN k.window \cup {w} = DOMAIN k.window
        /\ k.window \in [DOMAIN k.window \cup {w} -> WindowStates]
    <3>1. k.window \in [DOMAIN k.window -> WindowStates] /\ DOMAIN k.window \in SUBSET W
          /\ DOMAIN k.wsman.ws_owner = DOMAIN k.workspaces
      BY CoreParts
    <3>2. DOMAIN k.window \cup {w} = DOMAIN k.window
      OBVIOUS
    <3> QED
      BY <1>2, <3>1, <3>2 DEF is_ws_valid
  <2>2. j = placed(k, k.window, ws, w)
    <3>1. k \in CoreFields(W)
      BY CoreParts
    <3> QED
      BY <1>2, <3>1 DEF move_window_to, placed, CoreFields
  <2> HIDE DEF j
  <2>3. j \in Cores(W) /\ DOMAIN j.window = DOMAIN k.window \cup {w} /\ j.settings = k.settings
    BY <2>1, <2>2, PutWindow
  <2> QED
    BY <2>1, <2>3 DEF Alike, j
<1> QED
  BY <1>1, <1>2

LEMMA NewWindow == new_window \in WindowStates
BY DEF new_window, WindowStates, Places

\* create_window, for a window that is not managed yet.
LEMMA CreateWindow ==
  ASSUME NEW W, NEW k \in Cores(W), NEW w \in W, w \notin DOMAIN k.window, NEW ws
  PROVE  LET j == create_window(k, w, ws)
         IN  /\ j \in Cores(W) /\ DOMAIN j.window = DOMAIN k.window \cup {w}
             /\ j.settings = k.settings
<1> DEFINE active == active_ws_of_monitor(k.wsman, k.wsman.focused_monitor)
           target == IF is_ws_valid(k.wsman, ws) THEN ws
                     ELSE IF is_ws_valid(k.wsman, active) THEN active ELSE 1
           win == insert(k.window, w, new_window)
           h   == [k EXCEPT !.window = win]
           j   == create_window(k, w, ws)
<1>1. /\ k \in CoreFields(W) /\ k.window \in [DOMAIN k.window -> WindowStates]
      /\ DOMAIN k.wsman.ws_owner = DOMAIN k.workspaces /\ 1 \in DOMAIN k.workspaces
      /\ DOMAIN k.window_workspace = DOMAIN k.window
  BY CoreParts DEF SoundCore
<1>2. target \in DOMAIN k.workspaces
  BY <1>1 DEF is_ws_valid
<1>3. win \in [DOMAIN k.window \cup {w} -> WindowStates]
  BY <1>1, NewWindow DEF insert
<1>4. workspace_of_window(k, w) = 0 /\ target # 0
  BY <1>1, <1>2, CoreParts DEF workspace_of_window
<1>5. j = move_window_to(h, target, w)
  BY DEF create_window
<1> HIDE DEF target, win
<1>6. h.workspaces = k.workspaces /\ h.window_workspace = k.window_workspace /\ h.wsman = k.wsman
  BY <1>1 DEF CoreFields
<1>7. workspace_of_window(h, w) = 0 /\ is_ws_valid(h.wsman, target)
  BY <1>1, <1>2, <1>4, <1>6 DEF workspace_of_window, is_ws_valid
<1>8. j = placed(k, win, target, w)
  BY <1>1, <1>4, <1>5, <1>6, <1>7 DEF move_window_to, placed, CoreFields
<1> HIDE DEF j
<1>9. /\ j \in Cores(W) /\ DOMAIN j.window = DOMAIN k.window \cup {w} /\ j.settings = k.settings
  BY <1>2, <1>3, <1>4, <1>8, PutWindow
<1> QED
  BY <1>9 DEF j

\* remove_window_from_all, for a window that is managed.
LEMMA RemoveFromAll ==
  ASSUME NEW W, NEW k \in Cores(W), NEW w \in DOMAIN k.window
  PROVE  LET j == remove_window_from_all(k, w)
         IN  /\ j \in Cores(W) /\ DOMAIN j.window = DOMAIN k.window \ {w}
             /\ j.settings = k.settings
<1> DEFINE n   == Len(k.workspaces)
           L   == k.workspaces
           idx == k.window_workspace
           ws  == workspace_of_window(k, w)
           D   == DOMAIN k.window \ {w}
           win == Restrict(k.window, D)
           new == Restrict(idx, D)
           M   == [L EXCEPT ![ws] = Workspace_remove_window(L[ws], w)]
           j   == [k EXCEPT !.workspaces = M, !.window = win, !.window_workspace = new]
<1>1. /\ k \in CoreFields(W) /\ SoundCore(k) /\ L \in Seq(WorkspaceStates(W))
      /\ DOMAIN L = 1 .. n /\ n \in Nat /\ DOMAIN k.window \in SUBSET W
      /\ k.window \in [DOMAIN k.window -> WindowStates]
      /\ idx \in [DOMAIN k.window -> 1 .. n]
  BY CoreParts
<1>2. ws = idx[w] /\ ws \in 1 .. n /\ ws # 0
  BY <1>1 DEF workspace_of_window
<1>3. remove_window_from_all(k, w) = j
  BY <1>1, <1>2 DEF remove_window_from_all
<1>4. /\ win \in [D -> WindowStates] /\ new \in [D -> 1 .. n]
      /\ \A v \in D : new[v] = idx[v]
  BY <1>1 DEF Restrict
<1>5. \A i \in 1 .. n : /\ L[i] \in WorkspaceStates(W) /\ Cursor(L[i])
                        /\ Range(L[i].windows) = {v \in DOMAIN k.window : idx[v] = i}
  BY <1>1 DEF SoundCore, ListsMatch
<1> HIDE DEF ws, win, new
<1>6. DOMAIN M = 1 .. n /\ \A i \in 1 .. n : i # ws => M[i] = L[i]
  BY <1>1, <1>2
<1>7. M[ws] = Workspace_remove_window(L[ws], w)
  BY <1>1, <1>2
<1>8. /\ Workspace_remove_window(L[ws], w) \in WorkspaceStates(W)
      /\ Cursor(Workspace_remove_window(L[ws], w))
      /\ Range(Workspace_remove_window(L[ws], w).windows) = Range(L[ws].windows) \ {w}
  <2>1. L[ws] \in WorkspaceStates(W) /\ Cursor(L[ws])
    BY <1>2, <1>5
  <2> DEFINE s == L[ws]
  <2> HIDE DEF s
  <2>2. s \in WorkspaceStates(W) /\ Cursor(s)
    BY <2>1 DEF s
  <2>3. /\ Workspace_remove_window(s, w) \in WorkspaceStates(W)
        /\ Cursor(Workspace_remove_window(s, w))
        /\ Range(Workspace_remove_window(s, w).windows) = Range(s.windows) \ {w}
    BY <2>2, RemoveWindow
  <2> QED
    BY <2>3 DEF s
<1>9. M \in Seq(WorkspaceStates(W)) /\ Len(M) = n
  BY <1>1, <1>2, <1>8
<1> HIDE DEF M
<1>10. ASSUME NEW i \in 1 .. n
       PROVE  Cursor(M[i]) /\ Range(M[i].windows) = {v \in D : new[v] = i}
  <2>1. CASE i = ws
    <3>1. Range(M[i].windows) = Range(L[i].windows) \ {w} /\ Cursor(M[i])
      BY <1>7, <1>8, <2>1
    <3> QED
      BY <1>4, <1>5, <2>1, <3>1
  <2>2. CASE i # ws
    <3>1. M[i] = L[i] /\ w \notin Range(L[i].windows)
      BY <1>2, <1>5, <1>6, <2>2
    <3> QED
      BY <1>4, <1>5, <2>2, <3>1
  <2> QED
    BY <2>1, <2>2
<1>11. /\ win \in UNION {[E -> WindowStates] : E \in SUBSET W}
       /\ new \in UNION {[E -> Nat] : E \in SUBSET W}
  <2>1. D \in SUBSET W /\ new \in [D -> Nat]
    BY <1>1, <1>4
  <2> QED
    BY <1>4, <2>1
<1>12. /\ j \in CoreFields(W) /\ j.window = win /\ j.window_workspace = new
       /\ j.workspaces = M /\ j.wsman = k.wsman /\ j.settings = k.settings
  BY <1>1, <1>9, <1>11 DEF CoreFields
<1> HIDE DEF j
<1>13. Indexes(j)
  BY <1>4, <1>6, <1>12 DEF Indexes
<1>14. ListsMatch(j)
  BY <1>4, <1>6, <1>10, <1>12 DEF ListsMatch
<1>15. SoundCore(j)
  BY <1>1, <1>9, <1>12, <1>13, <1>14 DEF SoundCore
<1> QED
  BY <1>3, <1>4, <1>12, <1>15 DEF Cores

\* focus_window: the cursor and the monitor go to the window.
LEMMA FocusesWindow ==
  ASSUME NEW W, NEW k \in Cores(W), NEW w \in DOMAIN k.window
  PROVE  focus_window(k, w) \in Cores(W) /\ Alike(k, focus_window(k, w))
<1> DEFINE ws == k.window_workspace[w]
           s  == k.workspaces[ws]
           c  == index_of(s.windows, w)
           r  == [s EXCEPT !.current = c]
           j  == [k EXCEPT !.workspaces[ws] = r]
           t  == focus_workspace(k.wsman, ws)
<1>1. /\ k \in CoreFields(W) /\ SoundCore(k) /\ ws \in DOMAIN k.workspaces
      /\ Len(k.workspaces) \in Nat /\ Sound(k.wsman, Len(k.workspaces))
      /\ k.workspaces \in Seq(WorkspaceStates(W))
  BY CoreParts
<1>2. s \in WorkspaceStates(W) /\ Cursor(s) /\ w \in Range(s.windows)
  BY <1>1 DEF SoundCore, ListsMatch
<1> HIDE DEF ws, s
<1>3. c \in DOMAIN s.windows /\ c \in Nat /\ s.windows # <<>>
  <2>1. s.windows \in Seq(W)
    BY <1>2 DEF WorkspaceStates
  <2>2. c \in 1 .. Len(s.windows)
    BY <1>2, <2>1, IndexOf
  <2> QED
    BY <2>1, <2>2
<1> HIDE DEF c
<1>4. r \in WorkspaceStates(W) /\ r.windows = s.windows /\ r.current = c
  BY <1>2, <1>3 DEF WorkspaceStates
<1> HIDE DEF r
<1>5. Cursor(r) /\ Range(r.windows) = Range(k.workspaces[ws].windows)
  BY <1>2, <1>3, <1>4 DEF Cursor, s
<1>6. j \in Cores(W) /\ Alike(k, j)
  BY <1>1, <1>4, <1>5, NewWorkspace
<1>7. j.wsman = k.wsman /\ Len(j.workspaces) = Len(k.workspaces)
  BY <1>1 DEF CoreFields
<1>8. Sound(t, Len(k.workspaces))
  BY <1>1, FocusWorkspace DEF Keeps
<1>9. focus_window(k, w) = [j EXCEPT !.wsman = t]
  BY <1>1, <1>2, <1>3 DEF focus_window, CoreFields, r, c, s, ws
<1> HIDE DEF j, t
<1>10. [j EXCEPT !.wsman = t] \in Cores(W) /\ Alike(j, [j EXCEPT !.wsman = t])
  BY <1>6, <1>7, <1>8, NewManager
<1> QED
  BY <1>6, <1>9, <1>10 DEF Alike

\* A list that takes the windows g over.
LEMMA TakesOver ==
  ASSUME NEW W, NEW s \in WorkspaceStates(W), Cursor(s), NEW g \in Seq(W),
         \A i, j \in DOMAIN g : g[i] = g[j] => i = j,
         Range(g) \cap Range(s.windows) = {}
  PROVE  LET r == Workspace_append(s, g)
         IN  /\ r \in WorkspaceStates(W) /\ Cursor(r)
             /\ Range(r.windows) = Range(s.windows) \cup Range(g)
<1> DEFINE q == s.windows \o g
           n == Len(s.windows)
           m == Len(g)
           c == IF s.current = 0 /\ g # <<>> THEN 1 ELSE s.current
           r == Workspace_append(s, g)
<1>1. /\ s.windows \in Seq(W) /\ n \in Nat /\ m \in Nat /\ s.current \in Nat
      /\ DOMAIN s.windows = 1 .. n /\ DOMAIN g = 1 .. m
  BY DEF WorkspaceStates
<1>2. /\ q \in Seq(W) /\ Len(q) = n + m
      /\ \A i \in 1 .. n + m : q[i] = IF i <= n THEN s.windows[i] ELSE g[i - n]
  BY <1>1, ConcatProperties
<1>3. Range(q) = Range(s.windows) \cup Range(g)
  BY <1>1, RangeConcatenation
<1> HIDE DEF q
<1>4. /\ \A i \in 1 .. n : s.windows[i] \in Range(s.windows)
      /\ \A i \in 1 .. m : g[i] \in Range(g)
  BY <1>1 DEF Range
<1>5. ASSUME NEW i \in 1 .. n + m, NEW j \in 1 .. n + m, q[i] = q[j] PROVE i = j
  <2>1. /\ q[i] = IF i <= n THEN s.windows[i] ELSE g[i - n]
        /\ q[j] = IF j <= n THEN s.windows[j] ELSE g[j - n]
    BY <1>2
  <2>2. CASE i <= n /\ j <= n
    <3>1. i \in 1 .. n /\ j \in 1 .. n
      BY <1>1, <2>2
    <3>2. s.windows[i] = s.windows[j]
      BY <1>5, <2>1, <2>2
    <3> QED
      BY <1>1, <3>1, <3>2 DEF Cursor
  <2>3. CASE i <= n /\ ~ j <= n
    <3>1. i \in 1 .. n /\ j - n \in 1 .. m
      BY <1>1, <2>3
    <3> QED
      BY <1>4, <1>5, <2>1, <2>3, <3>1
  <2>4. CASE ~ i <= n /\ j <= n
    <3>1. j \in 1 .. n /\ i - n \in 1 .. m
      BY <1>1, <2>4
    <3> QED
      BY <1>4, <1>5, <2>1, <2>4, <3>1
  <2>5. CASE ~ i <= n /\ ~ j <= n
    <3>1. i - n \in 1 .. m /\ j - n \in 1 .. m
      BY <1>1, <2>5
    <3>2. g[i - n] = g[j - n]
      BY <1>5, <2>1, <2>5
    <3>3. i - n = j - n
      BY <1>1, <3>1, <3>2
    <3> QED
      BY <1>1, <3>3
  <2> QED
    BY <2>2, <2>3, <2>4, <2>5
<1>6. /\ c \in Nat
      /\ n + m = 0 => c = 0
      /\ n + m > 0 => c \in 1 .. n + m
  <2>1. (g = <<>> <=> m = 0) /\ (s.windows = <<>> <=> n = 0)
    BY <1>1, EmptySeq
  <2> QED
    BY <1>1, <2>1 DEF Cursor
<1> HIDE DEF c
<1>7. r \in WorkspaceStates(W) /\ r.windows = q /\ r.current = c
  <2>1. r = [s EXCEPT !.windows = q, !.current = c]
    BY DEF Workspace_append, WorkspaceStates, q, c
  <2> QED
    BY <1>2, <1>6, <2>1 DEF WorkspaceStates
<1>8. DOMAIN q = 1 .. n + m /\ (q = <<>> <=> n + m = 0)
  BY <1>1, <1>2, EmptySeq
<1> HIDE DEF r
<1>9. Cursor(r)
  <2>1. \A i, j \in DOMAIN r.windows : r.windows[i] = r.windows[j] => i = j
    BY <1>5, <1>7, <1>8
  <2>2. IF r.windows = <<>> THEN r.current = 0 ELSE r.current \in DOMAIN r.windows
    BY <1>1, <1>6, <1>7, <1>8
  <2> QED
    BY <2>1, <2>2 DEF Cursor
<1> QED
  BY <1>3, <1>7, <1>9 DEF r, c

\* The workspace the windows of a dropped one go to exists.
LEMMA FallbackExists ==
  ASSUME NEW n \in Nat, NEW t, Sound(t, n), NEW ws, NEW count \in Nat, count > 0
  PROVE  fallback_for(t, ws, count) \in 1 .. count
<1> DEFINE m    == monitor_of(t, ws)
           stay == IF m = 0 THEN <<>> ELSE Keep(t.monitor_pools[m], 1 .. count)
<1>1. fallback_for(t, ws, count) = IF stay = <<>> THEN 1 ELSE stay[1]
  BY DEF fallback_for
<1>2. CASE stay = <<>>
  BY <1>1, <1>2
<1>3. CASE stay # <<>>
  <2>1. m # 0 /\ stay = Keep(t.monitor_pools[m], 1 .. count)
    BY <1>3
  <2>2. t.monitors \in Seq(Outputs) /\ t.monitor_pools \in Seq(Seq(1 .. n))
        /\ Len(t.monitor_pools) = Len(t.monitors)
    BY DEF Sound, WellFormed, Fields
  <2>3. m \in DOMAIN t.monitors
    BY <2>1 DEF monitor_of, is_mon_valid
  <2>4. t.monitor_pools[m] \in Seq(1 .. n)
    BY <2>2, <2>3
  <2> HIDE DEF m
  <2>5. stay \in Seq((1 .. n) \cap (1 .. count))
    BY <2>1, <2>4, KeepLists
  <2> HIDE DEF stay
  <2>6. stay[1] \in (1 .. n) \cap (1 .. count)
    BY <1>3, <2>5
  <2> QED
    BY <1>1, <1>3, <2>6
<1> QED
  BY <1>2, <1>3

\* A piece of a sequence.
LEMMA Cut ==
  ASSUME NEW T, NEW s, NEW m \in Nat, NEW n \in Nat, \A i \in m + 1 .. n : s[i] \in T
  PROVE  LET r == SubSeq(s, m + 1, n)
         IN  /\ r \in Seq(T) /\ DOMAIN r = 1 .. n - m
             /\ \A i \in 1 .. n - m : r[i] = s[m + i]
<1>1. /\ SubSeq(s, m + 1, n) \in Seq(T)
      /\ Len(SubSeq(s, m + 1, n)) = IF m + 1 <= n THEN n - (m + 1) + 1 ELSE 0
      /\ \A i \in 1 .. n - (m + 1) + 1 : SubSeq(s, m + 1, n)[i] = s[m + 1 + i - 1]
  BY SubSeqProperties
<1> QED
  BY <1>1

\* The windows of the workspaces that are dropped.
LEMMA Dropped ==
  ASSUME NEW W, NEW k \in Cores(W), NEW count \in Nat
  PROVE  /\ dropped_windows(k, count) \in Seq(W)
         /\ \A w : w \in Range(dropped_windows(k, count)) <=>
                     w \in DOMAIN k.window /\ k.window_workspace[w] > count
<1> DEFINE old   == Len(k.workspaces)
           L     == k.workspaces
           idx   == k.window_workspace
           lists == [ws \in DOMAIN L |-> L[ws].windows]
           cut   == SubSeq(lists, count + 1, old)
           lost  == dropped_windows(k, count)
<1>1. /\ L \in Seq(WorkspaceStates(W)) /\ SoundCore(k)
      /\ DOMAIN L = 1 .. old /\ old \in Nat /\ old > 0 /\ DOMAIN k.window \in SUBSET W
      /\ idx \in [DOMAIN k.window -> 1 .. old]
  BY CoreParts
<1>2. \A ws \in 1 .. old : /\ L[ws] \in WorkspaceStates(W)
                           /\ Range(L[ws].windows) = {v \in DOMAIN k.window : idx[v] = ws}
  BY <1>1 DEF SoundCore, ListsMatch
<1>3. \A i \in count + 1 .. old : lists[i] \in Seq(W) /\ lists[i] = L[i].windows
  BY <1>1, <1>2 DEF WorkspaceStates
<1>4. lost = FlattenSeq(cut)
  BY DEF dropped_windows
<1> HIDE DEF lists, lost, old
<1>5. /\ cut \in Seq(Seq(W)) /\ DOMAIN cut = 1 .. old - count
      /\ \A i \in 1 .. old - count : cut[i] = lists[count + i]
  BY <1>1, <1>3, Cut
<1> HIDE DEF cut
<1>6. /\ lost \in Seq(W)
      /\ \A w : w \in Range(lost) <=> \E i \in DOMAIN cut : w \in Range(cut[i])
  BY <1>4, <1>5, Flattened
<1>7. ASSUME NEW w, NEW i \in DOMAIN cut, w \in Range(cut[i])
      PROVE  w \in DOMAIN k.window /\ idx[w] > count
  <2>1. i \in 1 .. old - count /\ count + i \in count + 1 .. old /\ count + i \in 1 .. old
    BY <1>1, <1>5
  <2>2. cut[i] = L[count + i].windows
    BY <1>3, <1>5, <2>1
  <2>3. w \in DOMAIN k.window /\ idx[w] = count + i
    BY <1>2, <1>7, <2>1, <2>2
  <2> QED
    BY <2>1, <2>3
<1>8. ASSUME NEW w \in DOMAIN k.window, idx[w] > count
      PROVE  \E i \in DOMAIN cut : w \in Range(cut[i])
  <2>0. idx[w] \in 1 .. old
    BY <1>1
  <2> DEFINE i == idx[w] - count
  <2>1. i \in 1 .. old - count /\ idx[w] \in count + 1 .. old /\ count + i = idx[w]
    BY <1>1, <1>8, <2>0
  <2>2. cut[i] = L[idx[w]].windows
    BY <1>3, <1>5, <2>1
  <2>3. w \in Range(L[idx[w]].windows)
    BY <1>2, <2>0
  <2> QED
    BY <1>5, <2>1, <2>2, <2>3
<1> QED
  BY <1>6, <1>7, <1>8 DEF lost

\* Those of them that workspace ws takes.
LEMMA Taken ==
  ASSUME NEW W, NEW k \in Cores(W), NEW count \in Nat, NEW ws
  PROVE  LET g == taken_over(k, count, ws)
         IN  /\ g \in Seq(W) /\ \A i, j \in DOMAIN g : g[i] = g[j] => i = j
             /\ Range(g) = {w \in Range(dropped_windows(k, count)) :
                              fallback_for(k.wsman, k.window_workspace[w], count) = ws}
<1> DEFINE lost == dropped_windows(k, count)
           S == {w \in Range(lost) : fallback_for(k.wsman, k.window_workspace[w], count) = ws}
           g == taken_over(k, count, ws)
<1>1. g = Keep(lost, S)
  BY DEF taken_over
<1>2. lost \in Seq(W)
  BY Dropped
<1>3. Range(lost) \cap S = S
  OBVIOUS
<1> HIDE DEF lost, S, g
<1>4. /\ g \in Seq(W \cap S) /\ Range(g) = Range(lost) \cap S
      /\ \A i, j \in DOMAIN g : g[i] = g[j] => i = j
  BY <1>1, <1>2, KeepLists
<1>5. g \in Seq(W)
  BY <1>4
<1> QED
  BY <1>3, <1>4, <1>5 DEF g, S, lost

\* update_workspace_defs and assign_workspaces: the windows of the workspaces
\* that are dropped are in the lists, and under the index, of others.
LEMMA NewSettings ==
  ASSUME NEW W, NEW k \in Cores(W), NEW c \in Configs
  PROVE  LET j == apply_settings(k, c)
         IN  /\ j \in Cores(W) /\ DOMAIN j.window = DOMAIN k.window
             /\ j.settings = c
<1> DEFINE count == Len(c.pins)
           old   == Len(k.workspaces)
           L     == k.workspaces
           idx   == k.window_workspace
           lost  == dropped_windows(k, count)
           dst(w) == fallback_for(k.wsman, idx[w], count)
           gain(ws) == taken_over(k, count, ws)
           M == kept_workspaces(k, count)
           new == kept_index(k, count)
           t == assign_workspaces(update_workspace_defs(k.wsman, c), c)
           h == [k EXCEPT !.workspaces = M, !.window_workspace = new]
           j == [h EXCEPT !.settings = c, !.wsman = t]
<1>1. /\ k \in CoreFields(W) /\ SoundCore(k) /\ L \in Seq(WorkspaceStates(W))
      /\ DOMAIN L = 1 .. old /\ old \in Nat /\ old > 0 /\ DOMAIN k.window \in SUBSET W
      /\ idx \in [DOMAIN k.window -> 1 .. old] /\ Sound(k.wsman, old)
  BY CoreParts
<1>2. c \in Config /\ count \in Nat /\ count > 0
  BY TopologyAssumption DEF Config
<1>3. \A ws \in 1 .. old : /\ L[ws] \in WorkspaceStates(W) /\ Cursor(L[ws])
                           /\ Range(L[ws].windows) = {v \in DOMAIN k.window : idx[v] = ws}
  BY <1>1 DEF SoundCore, ListsMatch
<1>4. \A w : w \in Range(lost) <=> w \in DOMAIN k.window /\ idx[w] > count
  BY <1>2, Dropped
<1>5. \A w : dst(w) \in 1 .. count
  BY <1>1, <1>2, FallbackExists
<1>6. ASSUME NEW ws
      PROVE  /\ gain(ws) \in Seq(W)
             /\ \A i, l \in DOMAIN gain(ws) : gain(ws)[i] = gain(ws)[l] => i = l
             /\ Range(gain(ws)) = {w \in Range(lost) : dst(w) = ws}
  BY <1>2, Taken
<1> DEFINE over(ws) == Workspace_append(L[ws], gain(ws))
<1>61. /\ M = [ws \in 1 .. count |-> IF ws > old THEN empty_workspace ELSE over(ws)]
       /\ new = [w \in DOMAIN idx |-> IF w \in Range(lost) THEN dst(w) ELSE idx[w]]
  BY DEF kept_workspaces, kept_index
<1>62. update_workspace_windows(k, c) = [k EXCEPT !.workspaces = List(M), !.window_workspace = new]
  BY DEF update_workspace_windows
<1> HIDE DEF lost, dst, gain, M, new
<1>7. ASSUME NEW ws \in 1 .. count
      PROVE  /\ M[ws] \in WorkspaceStates(W) /\ Cursor(M[ws])
             /\ Range(M[ws].windows) = {w \in DOMAIN k.window : new[w] = ws}
  <2>1. \A w \in DOMAIN k.window :
          new[w] = ws <=> IF idx[w] > count THEN dst(w) = ws ELSE idx[w] = ws
    BY <1>1, <1>4, <1>61
  <2>2. CASE ws > old
    <3>1. M[ws] = empty_workspace
      BY <1>61, <2>2
    <3>2. /\ empty_workspace \in WorkspaceStates(W) /\ Cursor(empty_workspace)
          /\ Range(empty_workspace.windows) = {}
      BY DEF empty_workspace, WorkspaceStates, Cursor, Range
    <3>3. ASSUME NEW w \in DOMAIN k.window PROVE new[w] # ws
      <4>1. idx[w] \in 1 .. old
        BY <1>1
      <4>2. ~ idx[w] > count /\ idx[w] # ws
        BY <1>1, <1>2, <2>2, <4>1
      <4> QED
        BY <2>1, <4>2
    <3> QED
      BY <3>1, <3>2, <3>3
  <2>3. CASE ~ ws > old
    <3> DEFINE s == L[ws]
               g == gain(ws)
               r == Workspace_append(s, g)
    <3>1. M[ws] = r
      BY <1>61, <2>3
    <3>2. /\ ws \in 1 .. old /\ s \in WorkspaceStates(W) /\ Cursor(s)
          /\ Range(s.windows) = {v \in DOMAIN k.window : idx[v] = ws}
      BY <1>1, <1>2, <1>3, <2>3
    <3>3. /\ g \in Seq(W) /\ \A i, l \in DOMAIN g : g[i] = g[l] => i = l
          /\ Range(g) = {w \in Range(lost) : dst(w) = ws}
      BY <1>6
    <3> HIDE DEF s, g
    <3>4. Range(g) \cap Range(s.windows) = {}
      BY <1>2, <1>4, <3>2, <3>3
    <3>5. /\ r \in WorkspaceStates(W) /\ Cursor(r)
          /\ Range(r.windows) = Range(s.windows) \cup Range(g)
      BY <3>2, <3>3, <3>4, TakesOver
    <3> HIDE DEF r
    <3>6. Range(r.windows) = {w \in DOMAIN k.window : new[w] = ws}
      BY <1>1, <1>2, <1>4, <2>1, <3>2, <3>3, <3>5
    <3> QED
      BY <3>1, <3>5, <3>6
  <2> QED
    BY <2>2, <2>3
<1>8. new \in [DOMAIN k.window -> 1 .. count]
  <2>1. \A w \in DOMAIN k.window : idx[w] \in 1 .. old /\ (~ idx[w] > count => idx[w] \in 1 .. count)
    BY <1>1, <1>2
  <2> QED
    BY <1>1, <1>4, <1>5, <1>61, <2>1
<1>9. M \in [1 .. count -> WorkspaceStates(W)]
  <2>1. \A ws \in 1 .. count : M[ws] \in WorkspaceStates(W)
    BY <1>7
  <2>2. M = [ws \in 1 .. count |-> M[ws]]
    BY <1>61
  <2> QED
    BY <2>1, <2>2
<1> HIDE DEF t
<1>11. List(M) = M /\ M \in Seq(WorkspaceStates(W)) /\ Len(M) = count /\ DOMAIN M = 1 .. count
  BY <1>2, <1>9, ListIs
<1>12. h.wsman = k.wsman /\ apply_settings(k, c) = j
  BY <1>1, <1>62, <1>11 DEF apply_settings, CoreFields, t
<1>13. Sound(t, count)
  <2>1. Draft(update_workspace_defs(k.wsman, c), count)
    BY <1>1, <1>2, UpdateDefs
  <2> QED
    BY <1>2, <2>1, Assign DEF t
<1>14. /\ new \in UNION {[D -> Nat] : D \in SUBSET W}
       /\ t \in UNION {Fields(n) : n \in Nat}
  <2>1. new \in [DOMAIN k.window -> Nat]
    BY <1>8
  <2>2. t \in Fields(count)
    BY <1>13 DEF Sound, WellFormed
  <2> QED
    BY <1>1, <1>2, <2>1, <2>2
<1>15. /\ j \in CoreFields(W) /\ j.window = k.window /\ j.window_workspace = new
       /\ j.workspaces = M /\ j.wsman = t /\ j.settings = c
  BY <1>1, <1>11, <1>14 DEF CoreFields
<1> HIDE DEF j
<1>16. Indexes(j)
  BY <1>8, <1>11, <1>15 DEF Indexes
<1>17. ListsMatch(j)
  BY <1>7, <1>11, <1>15 DEF ListsMatch
<1>18. SoundCore(j)
  BY <1>11, <1>13, <1>15, <1>16, <1>17 DEF SoundCore
<1> QED
  BY <1>12, <1>15, <1>18 DEF Cores
-----------------------------------------------------------------------------
(* Core: the private steps the commands are made of.                       *)

\* The windows and the effects are replaced.
LEMMA NewWindowsEffects ==
  ASSUME NEW W, NEW k \in Cores(W), NEW f \in [DOMAIN k.window -> WindowStates],
         NEW e \in Seq(Effects(W))
  PROVE  LET j == [k EXCEPT !.window = f, !.effects = e]
         IN  j \in Cores(W) /\ Alike(k, j)
<1> DEFINE i == [k EXCEPT !.window = f]
           j == [i EXCEPT !.effects = e]
<1>1. i \in Cores(W) /\ Alike(k, i)
  BY NewWindows
<1>2. [k EXCEPT !.window = f, !.effects = e] = j
  BY CoreParts DEF CoreFields
<1> HIDE DEF i
<1>3. j \in Cores(W) /\ Alike(i, j)
  BY <1>1, NewEffects
<1> QED
  BY <1>1, <1>2, <1>3 DEF Alike


\* sync_workspace_visibility changes what is mapped and hidden, no list.
LEMMA SyncVisibility ==
  ASSUME NEW W, NEW k \in Cores(W)
  PROVE  LET j == sync_workspace_visibility(k) IN j \in Cores(W) /\ Alike(k, j)
<1> DEFINE L       == [ws \in DOMAIN k.workspaces |-> k.workspaces[ws].windows]
           order   == FlattenSeq(L)
           on(w)   == is_workspace_visible(k, k.window_workspace[w])
           hide(w) == ~ on(w) /\ is_visible(k, w)
           show(w) == on(w) /\ k.window[w].hidden_by_workspace
           S       == {w \in Range(order) : hide(w) \/ show(w)}
           changed == Keep(order, S)
           f == [w \in DOMAIN k.window |->
                   [k.window[w] EXCEPT !.hidden_by_workspace = ~ on(w), !.mapped = @ \/ show(w)]]
           e == [i \in DOMAIN changed |->
                   [kind |-> IF hide(changed[i]) THEN "unmap" ELSE "map", window |-> changed[i]]]
<1>1. /\ k \in CoreFields(W) /\ k.workspaces \in Seq(WorkspaceStates(W))
      /\ DOMAIN k.workspaces = 1 .. Len(k.workspaces) /\ Len(k.workspaces) \in Nat
      /\ k.window \in [DOMAIN k.window -> WindowStates] /\ k.effects \in Seq(Effects(W))
  BY CoreParts
<1>2. sync_workspace_visibility(k) = [k EXCEPT !.window = f, !.effects = k.effects \o e]
  BY Zenon DEF sync_workspace_visibility
<1>3. L \in Seq(Seq(W))
  <2>1. ASSUME NEW ws \in 1 .. Len(k.workspaces) PROVE k.workspaces[ws].windows \in Seq(W)
    <3>1. k.workspaces[ws] \in WorkspaceStates(W)
      BY <1>1
    <3> QED
      BY <3>1 DEF WorkspaceStates
  <2> QED
    BY <1>1, <2>1
<1> HIDE DEF L
<1>4. order \in Seq(W)
  BY <1>3, Flattened
<1> HIDE DEF order, S
<1>5. changed \in Seq(W)
  <2>1. changed \in Seq(W \cap S)
    BY <1>4, KeepLists
  <2> QED
    BY <2>1
<1> HIDE DEF changed, hide
<1>6. e \in Seq(Effects(W))
  <2>1. DOMAIN changed = 1 .. Len(changed) /\ Len(changed) \in Nat
    BY <1>5
  <2>2. ASSUME NEW i \in 1 .. Len(changed)
        PROVE  [kind |-> IF hide(changed[i]) THEN "unmap" ELSE "map", window |-> changed[i]]
                 \in Effects(W)
    BY <1>5 DEF Effects
  <2> QED
    BY <2>1, <2>2
<1> HIDE DEF e
<1>7. f \in [DOMAIN k.window -> WindowStates]
  <2>1. ASSUME NEW w \in DOMAIN k.window
        PROVE  [k.window[w] EXCEPT !.hidden_by_workspace = ~ on(w), !.mapped = @ \/ show(w)]
                 \in WindowStates
    <3> DEFINE a == ~ on(w)
               b == k.window[w].mapped \/ show(w)
    <3>1. k.window[w] \in WindowStates /\ a \in BOOLEAN /\ b \in BOOLEAN
      BY <1>1
    <3> HIDE DEF a, b
    <3>2. [k.window[w] EXCEPT !.hidden_by_workspace = a, !.mapped = b] \in WindowStates
      BY <3>1 DEF WindowStates
    <3>3. [k.window[w] EXCEPT !.hidden_by_workspace = ~ on(w), !.mapped = @ \/ show(w)]
            = [k.window[w] EXCEPT !.hidden_by_workspace = a, !.mapped = b]
      BY <3>1 DEF WindowStates, a, b
    <3> QED
      BY <3>2, <3>3
  <2> HIDE DEF on, show
  <2> QED
    BY <2>1
<1> HIDE DEF f
<1>8. k.effects \o e \in Seq(Effects(W))
  BY <1>1, <1>6
<1> DEFINE q == k.effects \o e
<1> HIDE DEF q
<1>9. LET j == [k EXCEPT !.window = f, !.effects = q] IN j \in Cores(W) /\ Alike(k, j)
  <2>1. q \in Seq(Effects(W))
    BY <1>8 DEF q
  <2> QED
    BY <1>7, <2>1, NewWindowsEffects
<1> QED
  BY <1>2, <1>9, Zenon DEF q

\* arrange changes places.
LEMMA Arranges ==
  ASSUME NEW W, NEW k \in Cores(W)
  PROVE  LET j == arrange(k) IN j \in Cores(W) /\ Alike(k, j)
<1> DEFINE on(w) == k.wsman.monitors[monitor_of(k.wsman, k.window_workspace[w])]
           tiled == {w \in DOMAIN k.window :
                       /\ is_workspace_visible(k, k.window_workspace[w]) /\ is_visible(k, w)
                       /\ ~ k.window[w].floating /\ ~ covers(k, w)}
           f == [w \in DOMAIN k.window |->
                   [k.window[w] EXCEPT !.place = IF w \in tiled THEN TileOn(on(w)) ELSE @]]
<1>1. arrange(k) = [k EXCEPT !.window = f]
  BY Zenon DEF arrange
<1>2. ASSUME NEW w \in DOMAIN k.window
      PROVE  [k.window[w] EXCEPT !.place = IF w \in tiled THEN TileOn(on(w)) ELSE @]
               \in WindowStates
  <2>1. k.window[w] \in WindowStates /\ k.window_workspace[w] \in DOMAIN k.workspaces
    BY WindowParts
  <2>2. w \in tiled => TileOn(on(w)) \in Places
    <3>1. w \in tiled => monitor_of(k.wsman, k.window_workspace[w]) \in 1 .. Len(k.wsman.monitors)
      BY <2>1, ShownHasMonitor
    <3>2. k.wsman.monitors \in Seq(Outputs)
      BY <2>1, MonitorOf
    <3> QED
      BY <3>1, <3>2 DEF Places
  <2> HIDE DEF tiled, on
  <2> DEFINE p == IF w \in tiled THEN TileOn(on(w)) ELSE k.window[w].place
  <2>3. p \in Places
    BY <2>1, <2>2 DEF WindowStates
  <2>4. [k.window[w] EXCEPT !.place = IF w \in tiled THEN TileOn(on(w)) ELSE @]
          = [k.window[w] EXCEPT !.place = p]
    BY <2>1 DEF WindowStates
  <2> HIDE DEF p
  <2> QED
    BY <2>1, <2>3, <2>4 DEF WindowStates
<1>3. f \in [DOMAIN k.window -> WindowStates]
  <2> HIDE DEF tiled, on
  <2> QED
    BY <1>2
<1> HIDE DEF f
<1> QED
  BY <1>1, <1>3, NewWindows

\* One window's state is replaced.
LEMMA NewWindowState ==
  ASSUME NEW W, NEW k \in Cores(W), NEW w \in DOMAIN k.window, NEW s \in WindowStates
  PROVE  LET j == [k EXCEPT !.window[w] = s]
         IN  j \in Cores(W) /\ Alike(k, j) /\ j.window[w] = s
<1> DEFINE f == [k.window EXCEPT ![w] = s]
<1>1. k.window \in [DOMAIN k.window -> WindowStates] /\ k \in CoreFields(W)
  BY CoreParts
<1>2. f \in [DOMAIN k.window -> WindowStates] /\ f[w] = s
  BY <1>1
<1>3. [k EXCEPT !.window[w] = s] = [k EXCEPT !.window = f]
  OBVIOUS
<1>4. [k EXCEPT !.window = f].window = f
  BY <1>1 DEF CoreFields
<1> HIDE DEF f
<1> QED
  BY <1>2, <1>3, <1>4, NewWindows

LEMMA Pins ==
  ASSUME NEW W, NEW k \in Cores(W), NEW w \in DOMAIN k.window, NEW ws
  PROVE  LET j == pin_fullscreen_to_monitor(k, w, ws) IN j \in Cores(W) /\ Alike(k, j)
<1> DEFINE m == monitor_of(k.wsman, ws)
           j == pin_fullscreen_to_monitor(k, w, ws)
<1>1. CASE m = 0
  BY <1>1 DEF pin_fullscreen_to_monitor, Alike
<1>2. CASE m # 0
  <2> DEFINE p == WholeOf(k.wsman.monitors[m])
             s == [k.window[w] EXCEPT !.place = p]
  <2>1. m \in DOMAIN k.wsman.monitors
    BY <1>2 DEF monitor_of, is_mon_valid
  <2>2. k.wsman.monitors \in Seq(Outputs)
    BY CoreParts DEF Sound, WellFormed, Fields
  <2>3. p \in Places
    BY <2>1, <2>2 DEF Places
  <2> HIDE DEF p
  <2>4. k.window[w] \in WindowStates /\ k.window \in [DOMAIN k.window -> WindowStates]
    BY CoreParts
  <2>5. s \in WindowStates
    BY <2>3, <2>4 DEF WindowStates
  <2>6. j = [k EXCEPT !.window[w] = s]
    BY <1>2 DEF pin_fullscreen_to_monitor, p
  <2> HIDE DEF s
  <2>7. [k EXCEPT !.window[w] = s] \in Cores(W) /\ Alike(k, [k EXCEPT !.window[w] = s])
    BY <2>5, NewWindowState
  <2> QED
    BY <2>6, <2>7, Zenon
<1> QED
  BY <1>1, <1>2

\* An effect is emitted.
LEMMA Emits ==
  ASSUME NEW W, NEW k \in Cores(W), NEW w \in W \cup {NoWindow},
         NEW kind \in {"map", "unmap", "focus", "root", "raise", "lower"}
  PROVE  LET j == emit_backend_effect(k, kind, w) IN j \in Cores(W) /\ Alike(k, j)
<1> DEFINE e == Append(k.effects, [kind |-> kind, window |-> w])
<1>1. e \in Seq(Effects(W))
  <2>1. [kind |-> kind, window |-> w] \in Effects(W) /\ k.effects \in Seq(Effects(W))
    BY CoreParts DEF Effects
  <2> QED
    BY <2>1
<1>2. emit_backend_effect(k, kind, w) = [k EXCEPT !.effects = e]
  BY DEF emit_backend_effect
<1> HIDE DEF e
<1> QED
  BY <1>1, <1>2, NewEffects

\* Windows stay managed: what Alike gives of another state.
LEMMA AlikeParts ==
  ASSUME NEW W, NEW k \in Cores(W), NEW j \in Cores(W), Alike(k, j)
  PROVE  /\ DOMAIN j.window = DOMAIN k.window /\ DOMAIN j.workspaces = DOMAIN k.workspaces
         /\ Len(j.workspaces) = Len(k.workspaces) /\ j.settings = k.settings
<1>1. /\ SoundCore(k) /\ SoundCore(j) /\ DOMAIN j.workspaces = 1 .. Len(j.workspaces)
      /\ DOMAIN k.workspaces = 1 .. Len(k.workspaces)
  BY CoreParts
<1> QED
  BY <1>1 DEF Alike, SoundCore

LEMMA Restacks ==
  ASSUME NEW W, NEW k \in Cores(W), NEW ws, NEW f \in DOMAIN k.window, NEW cover \in Seq(W)
  PROVE  LET j == restack(k, ws, f, cover) IN j \in Cores(W) /\ Alike(k, j)
<1>0. f \in W /\ k.effects \in Seq(Effects(W))
  BY CoreParts
<1>1. CASE covers(k, f)
  <2> DEFINE i == pin_fullscreen_to_monitor(k, f, ws)
             j == emit_backend_effect(i, "raise", f)
  <2>1. i \in Cores(W) /\ Alike(k, i)
    BY Pins
  <2> HIDE DEF i
  <2>2. j \in Cores(W) /\ Alike(i, j)
    BY <1>0, <2>1, Emits
  <2>3. restack(k, ws, f, cover) = j
    BY <1>1 DEF restack, i
  <2> QED
    BY <2>1, <2>2, <2>3 DEF Alike
<1>2. CASE ~ covers(k, f)
  <2> DEFINE d == [i \in DOMAIN cover |-> [kind |-> "lower", window |-> cover[i]]]
             e == Append(k.effects, [kind |-> "raise", window |-> f]) \o d
  <2>1. restack(k, ws, f, cover) = [k EXCEPT !.effects = e]
    BY <1>2 DEF restack
  <2>2. d \in Seq(Effects(W))
    <3>1. DOMAIN cover = 1 .. Len(cover) /\ Len(cover) \in Nat
      OBVIOUS
    <3>2. \A i \in 1 .. Len(cover) : [kind |-> "lower", window |-> cover[i]] \in Effects(W)
      BY DEF Effects
    <3> QED
      BY <3>1, <3>2
  <2> HIDE DEF d
  <2>3. [kind |-> "raise", window |-> f] \in Effects(W)
    BY <1>0 DEF Effects
  <2>4. e \in Seq(Effects(W))
    BY <1>0, <2>2, <2>3
  <2> HIDE DEF e
  <2> QED
    BY <2>1, <2>4, NewEffects
<1> QED
  BY <1>1, <1>2

LEMMA SetMode ==
  ASSUME NEW W, NEW k \in Cores(W), NEW ws \in DOMAIN k.workspaces, NEW cover \in Seq(W),
         Range(cover) \subseteq Range(k.workspaces[ws].windows)
  PROVE  LET j == set_mode(k, ws, cover) IN j \in Cores(W) /\ Alike(k, j)
<1> DEFINE o == k.workspaces[ws]
           s == [o EXCEPT !.fullscreen = cover # <<>>]
           h == [k EXCEPT !.workspaces[ws] = s]
           f == Workspace_focused(k, o)
<1>1. /\ o \in WorkspaceStates(W) /\ Cursor(o)
      /\ Range(o.windows) \subseteq DOMAIN k.window
  <2>1. k.workspaces \in Seq(WorkspaceStates(W)) /\ SoundCore(k)
    BY CoreParts
  <2> QED
    BY <2>1 DEF SoundCore, ListsMatch
<1>2. /\ s \in WorkspaceStates(W) /\ Cursor(s) /\ s.windows = o.windows
  <2>1. (cover # <<>>) \in BOOLEAN
    OBVIOUS
  <2>2. s \in WorkspaceStates(W) /\ s.windows = o.windows /\ s.current = o.current
    BY <1>1, <2>1 DEF WorkspaceStates
  <2> HIDE DEF s
  <2> QED
    BY <1>1, <2>2 DEF Cursor
<1>3. set_mode(k, ws, cover) = IF cover = <<>> THEN h ELSE restack(h, ws, f, cover)
  BY DEF set_mode
<1>30. Range(s.windows) = Range(k.workspaces[ws].windows)
  BY <1>2
<1> HIDE DEF s
<1>4. h \in Cores(W) /\ Alike(k, h)
  BY <1>2, <1>30, NewWorkspace
<1> HIDE DEF h, o
<1>5. CASE cover # <<>>
  <2>1. o.windows # <<>>
    <3>1. cover[1] \in Range(cover)
      BY <1>5 DEF Range
    <3>2. Range(<<>>) = {}
      BY DEF Range
    <3> QED
      BY <3>1, <3>2 DEF o
  <2>2. f \in DOMAIN k.window
    BY <1>1, <2>1, Focused
  <2>3. f \in DOMAIN h.window
    BY <1>4, <2>2 DEF Alike
  <2> HIDE DEF f
  <2>4. restack(h, ws, f, cover) \in Cores(W) /\ Alike(h, restack(h, ws, f, cover))
    BY <1>4, <2>3, Restacks
  <2> QED
    BY <1>3, <1>4, <1>5, <2>4 DEF Alike
<1> QED
  BY <1>3, <1>4, <1>5

LEMMA Evaluates ==
  ASSUME NEW W, NEW k \in Cores(W), NEW ws
  PROVE  LET j == evaluate_workspace_fullscreen(k, ws) IN j \in Cores(W) /\ Alike(k, j)
<1> DEFINE S == {w \in DOMAIN k.window : is_visible(k, w) /\ covers(k, w)}
           cover == Keep(k.workspaces[ws].windows, S)
<1>1. CASE ~ is_ws_valid(k.wsman, ws)
  BY <1>1 DEF evaluate_workspace_fullscreen, Alike
<1>2. CASE is_ws_valid(k.wsman, ws)
  <2>1. ws \in DOMAIN k.workspaces /\ k.workspaces \in Seq(WorkspaceStates(W))
    BY <1>2, CoreParts DEF is_ws_valid
  <2>2. k.workspaces[ws].windows \in Seq(W)
    <3>1. k.workspaces[ws] \in WorkspaceStates(W)
      BY <2>1
    <3> QED
      BY <3>1 DEF WorkspaceStates
  <2>3. evaluate_workspace_fullscreen(k, ws) = set_mode(k, ws, cover)
    BY <1>2 DEF evaluate_workspace_fullscreen
  <2> HIDE DEF S
  <2>4. /\ cover \in Seq(W \cap S)
        /\ Range(cover) = Range(k.workspaces[ws].windows) \cap S
    BY <2>2, KeepLists
  <2> HIDE DEF cover
  <2>5. cover \in Seq(W) /\ Range(cover) \subseteq Range(k.workspaces[ws].windows)
    BY <2>4
  <2> QED
    BY <2>1, <2>3, <2>5, SetMode
<1> QED
  BY <1>1, <1>2

\* The target is NoWindow or any window.
LEMMA FocusTarget ==
  ASSUME NEW W, NEW k \in Cores(W), NEW w
  PROVE  LET j == focus_target(k, w) IN j \in Cores(W) /\ Alike(k, j)
<1>1. CASE find_window_in_all(k, w) /\ is_visible(k, w)
  <2> DEFINE i == focus_window(k, w)
             h == emit_backend_effect(i, "focus", w)
             j == evaluate_workspace_fullscreen(h, k.window_workspace[w])
  <2>1. w \in DOMAIN k.window /\ w \in W
    BY <1>1, CoreParts DEF find_window_in_all
  <2>2. i \in Cores(W) /\ Alike(k, i)
    BY <2>1, FocusesWindow
  <2>3. focus_target(k, w) = j
    BY <1>1 DEF focus_target
  <2> HIDE DEF i
  <2>4. h \in Cores(W) /\ Alike(i, h)
    BY <2>1, <2>2, Emits
  <2> HIDE DEF h
  <2>5. j \in Cores(W) /\ Alike(h, j)
    BY <2>4, Evaluates
  <2> QED
    BY <2>2, <2>3, <2>4, <2>5 DEF Alike
<1>2. CASE ~ (find_window_in_all(k, w) /\ is_visible(k, w))
  <2>1. focus_target(k, w) = emit_backend_effect(k, "root", NoWindow)
    BY <1>2 DEF focus_target
  <2> QED
    BY <2>1, Emits
<1> QED
  BY <1>1, <1>2

LEMMA Focuses ==
  ASSUME NEW W, NEW k \in Cores(W), NEW w
  PROVE  LET j == focus(k, w) IN j \in Cores(W) /\ Alike(k, j)
BY FocusTarget DEF focus

LEMMA Reconciles ==
  ASSUME NEW W, NEW k \in Cores(W)
  PROVE  LET j == reconcile(k) IN j \in Cores(W) /\ Alike(k, j)
<1> DEFINE i == sync_workspace_visibility(k)
           h == arrange(i)
<1>1. i \in Cores(W) /\ Alike(k, i)
  BY SyncVisibility
<1> HIDE DEF i
<1>2. h \in Cores(W) /\ Alike(i, h)
  BY <1>1, Arranges
<1> HIDE DEF h
<1>3. focus(h, NoWindow) \in Cores(W) /\ Alike(h, focus(h, NoWindow))
  BY <1>2, Focuses
<1> QED
  BY <1>1, <1>2, <1>3 DEF Alike, reconcile, h, i
-----------------------------------------------------------------------------
(* Core::dispatch.                                                         *)

LEMMA FocusWindowKeeps ==
  ASSUME NEW W, NEW k \in Cores(W), NEW w
  PROVE  LET j == FocusWindow(k, w) IN j \in Cores(W) /\ Alike(k, j)
BY Focuses DEF FocusWindow, Alike

LEMMA SwitchKeeps ==
  ASSUME NEW W, NEW k \in Cores(W), NEW ws, NEW hint
  PROVE  LET j == SwitchWorkspace(k, ws, hint) IN j \in Cores(W) /\ Alike(k, j)
<1>1. CASE ~ is_ws_valid(k.wsman, ws) \/ k.wsman.monitors = <<>>
  BY <1>1 DEF SwitchWorkspace, Alike
<1>2. CASE is_ws_valid(k.wsman, ws) /\ k.wsman.monitors # <<>>
  <2> DEFINE owner  == IF hint > 0 THEN hint ELSE monitor_of(k.wsman, ws)
             target == IF owner > 0 THEN owner ELSE k.wsman.focused_monitor
             t == switch_to(k.wsman, ws, hint, k.settings)
             g == [k EXCEPT !.wsman = t]
             h == sync_workspace_visibility(g)
             i == arrange(h)
             m == IF target = k.wsman.focused_monitor THEN focus(i, NoWindow) ELSE i
             j == evaluate_workspace_fullscreen(m, ws)
  <2>1. SwitchWorkspace(k, ws, hint) = j
    BY <1>2 DEF SwitchWorkspace
  <2>2. Sound(t, Len(k.workspaces))
    <3>1. /\ Sound(k.wsman, Len(k.workspaces)) /\ Len(k.workspaces) \in Nat
          /\ ws \in 1 .. Len(k.workspaces)
      BY <1>2, CoreParts DEF is_ws_valid
    <3>2. Keeps(k.wsman, t, Len(k.workspaces))
      BY <1>2, <3>1, SwitchesTo
    <3> QED
      BY <3>2 DEF Keeps
  <2> HIDE DEF t
  <2>3. g \in Cores(W) /\ Alike(k, g)
    BY <2>2, NewManager
  <2> HIDE DEF g
  <2>4. h \in Cores(W) /\ Alike(g, h)
    BY <2>3, SyncVisibility
  <2> HIDE DEF h
  <2>5. i \in Cores(W) /\ Alike(h, i)
    BY <2>4, Arranges
  <2> HIDE DEF i, target
  <2>6. m \in Cores(W) /\ Alike(i, m)
    BY <2>5, Focuses DEF Alike
  <2> HIDE DEF m
  <2>7. j \in Cores(W) /\ Alike(m, j)
    BY <2>6, Evaluates
  <2> QED
    BY <2>1, <2>3, <2>4, <2>5, <2>6, <2>7 DEF Alike
<1> QED
  BY <1>1, <1>2

LEMMA RefitKeeps ==
  ASSUME NEW W, NEW k \in Cores(W), NEW w \in DOMAIN k.window, NEW src, NEW ws
  PROVE  LET j == refit_moved(k, w, src, ws) IN j \in Cores(W) /\ Alike(k, j)
<1> DEFINE g == pin_fullscreen_to_monitor(k, w, ws)
           h == evaluate_workspace_fullscreen(g, src)
           j == evaluate_workspace_fullscreen(h, ws)
<1>1. refit_moved(k, w, src, ws) = IF ~ covers(k, w) THEN k ELSE j
  BY DEF refit_moved
<1>2. g \in Cores(W) /\ Alike(k, g)
  BY Pins
<1> HIDE DEF g
<1>3. h \in Cores(W) /\ Alike(g, h)
  BY <1>2, Evaluates
<1> HIDE DEF h
<1>4. j \in Cores(W) /\ Alike(h, j)
  BY <1>3, Evaluates
<1> QED
  BY <1>1, <1>2, <1>3, <1>4 DEF Alike

LEMMA MoveKeeps ==
  ASSUME NEW W, NEW k \in Cores(W), NEW w, NEW ws
  PROVE  LET j == MoveWindowToWorkspace(k, w, ws) IN j \in Cores(W) /\ Alike(k, j)
<1>1. CASE ~ is_ws_valid(k.wsman, ws) \/ ~ find_window_in_all(k, w)
  BY <1>1 DEF MoveWindowToWorkspace, Alike
<1>2. CASE is_ws_valid(k.wsman, ws) /\ find_window_in_all(k, w)
  <2> DEFINE f == move_window_to(k, ws, w)
             g == sync_workspace_visibility(f)
             h == arrange(g)
             i == refit_moved(h, w, workspace_of_window(k, w), ws)
             j == focus_moved(i, w, ws)
  <2>0. w \in DOMAIN k.window
    BY <1>2 DEF find_window_in_all
  <2>1. MoveWindowToWorkspace(k, w, ws) = j
    BY <1>2 DEF MoveWindowToWorkspace
  <2>2. f \in Cores(W) /\ Alike(k, f)
    BY <2>0, MoveWindow
  <2> HIDE DEF f
  <2>3. g \in Cores(W) /\ Alike(f, g)
    BY <2>2, SyncVisibility
  <2> HIDE DEF g
  <2>4. h \in Cores(W) /\ Alike(g, h)
    BY <2>3, Arranges
  <2> HIDE DEF h
  <2>5. w \in DOMAIN h.window
    BY <2>0, <2>2, <2>3, <2>4 DEF Alike
  <2>6. i \in Cores(W) /\ Alike(h, i)
    BY <2>4, <2>5, RefitKeeps
  <2> HIDE DEF i
  <2>7. j \in Cores(W) /\ Alike(i, j)
    BY <2>6, Focuses DEF focus_moved
  <2> QED
    BY <2>1, <2>2, <2>3, <2>4, <2>6, <2>7 DEF Alike
<1> QED
  BY <1>1, <1>2

\* A flag of one window changes.
LEMMA MappedKeeps ==
  ASSUME NEW W, NEW k \in Cores(W), NEW w, NEW b \in BOOLEAN
  PROVE  LET j == SetWindowMapped(k, w, b) IN j \in Cores(W) /\ Alike(k, j)
<1> DEFINE s == [k.window[w] EXCEPT !.mapped = b]
<1>1. CASE w \notin DOMAIN k.window
  BY <1>1 DEF SetWindowMapped, find_window_in_all, Alike
<1>2. CASE w \in DOMAIN k.window
  <2>1. s \in WindowStates
    BY <1>2, WindowParts DEF WindowStates
  <2>2. SetWindowMapped(k, w, b) = [k EXCEPT !.window[w] = s]
    BY <1>2 DEF SetWindowMapped, find_window_in_all
  <2> HIDE DEF s
  <2> QED
    BY <1>2, <2>1, <2>2, NewWindowState
<1> QED
  BY <1>1, <1>2

LEMMA HiddenKeeps ==
  ASSUME NEW W, NEW k \in Cores(W), NEW w, NEW b \in BOOLEAN
  PROVE  LET j == SetWindowHiddenByWorkspace(k, w, b) IN j \in Cores(W) /\ Alike(k, j)
<1> DEFINE s == [k.window[w] EXCEPT !.hidden_by_workspace = b]
<1>1. CASE w \notin DOMAIN k.window
  BY <1>1 DEF SetWindowHiddenByWorkspace, find_window_in_all, Alike
<1>2. CASE w \in DOMAIN k.window
  <2>1. s \in WindowStates
    BY <1>2, WindowParts DEF WindowStates
  <2>2. SetWindowHiddenByWorkspace(k, w, b) = [k EXCEPT !.window[w] = s]
    BY <1>2 DEF SetWindowHiddenByWorkspace, find_window_in_all
  <2> HIDE DEF s
  <2> QED
    BY <1>2, <2>1, <2>2, NewWindowState
<1> QED
  BY <1>1, <1>2

LEMMA MapKeeps ==
  ASSUME NEW W, NEW k \in Cores(W), NEW w \in DOMAIN k.window
  PROVE  LET j == MapWindow(k, w) IN j \in Cores(W) /\ Alike(k, j)
<1> DEFINE s == [k.window[w] EXCEPT !.mapped = TRUE]
           h == [k EXCEPT !.window[w] = s]
           j == emit_backend_effect(h, "map", w)
<1>1. s \in WindowStates /\ w \in W
  <2>1. k.window[w] \in WindowStates /\ w \in W
    BY WindowParts
  <2> QED
    BY <2>1 DEF WindowStates
<1>2. MapWindow(k, w) = IF ~ k.window[w].mapped /\ is_visible(h, w) THEN j ELSE h
  BY DEF MapWindow
<1> HIDE DEF s
<1>3. h \in Cores(W) /\ Alike(k, h)
  BY <1>1, NewWindowState
<1> HIDE DEF h
<1>4. j \in Cores(W) /\ Alike(h, j)
  BY <1>1, <1>3, Emits
<1> QED
  BY <1>2, <1>3, <1>4 DEF Alike

LEMMA EnterKeeps ==
  ASSUME NEW W, NEW k \in Cores(W), NEW w \in DOMAIN k.window,
         NEW m \in 0 .. Len(k.wsman.monitors)
  PROVE  LET j == enter_fullscreen(k, w, m) IN j \in Cores(W) /\ Alike(k, j)
<1> DEFINE p == IF k.window[w].fullscreen THEN k.window[w].place_before_fullscreen
                ELSE k.window[w].place
           q == IF k.wsman.monitors = <<>> THEN k.window[w].place
                ELSE WholeOf(k.wsman.monitors[IF m > 0 THEN m ELSE 1])
           s == [k.window[w] EXCEPT !.place_before_fullscreen = p, !.fullscreen = TRUE,
                                    !.place = q]
           h == [k EXCEPT !.window[w] = s]
<1>1. /\ k.window[w] \in WindowStates /\ k \in CoreFields(W)
      /\ k.window \in [DOMAIN k.window -> WindowStates] /\ k.wsman.monitors \in Seq(Outputs)
  BY CoreParts DEF Sound, WellFormed, Fields
<1>2. p \in Places /\ q \in Places
  <2>1. p \in Places /\ k.window[w].place \in Places
    BY <1>1 DEF WindowStates
  <2>2. k.wsman.monitors # <<>> => (IF m > 0 THEN m ELSE 1) \in 1 .. Len(k.wsman.monitors)
    BY <1>1
  <2> QED
    BY <1>1, <2>1, <2>2 DEF Places
<1>3. enter_fullscreen(k, w, m) = arrange(h)
  BY Zenon DEF enter_fullscreen
<1> HIDE DEF p, q
<1>4. s \in WindowStates
  BY <1>1, <1>2 DEF WindowStates
<1> HIDE DEF s
<1>5. h \in Cores(W) /\ Alike(k, h)
  BY <1>4, NewWindowState
<1> HIDE DEF h
<1>6. arrange(h) \in Cores(W) /\ Alike(h, arrange(h))
  BY <1>5, Arranges
<1> QED
  BY <1>3, <1>5, <1>6 DEF Alike

LEMMA LeaveKeeps ==
  ASSUME NEW W, NEW k \in Cores(W), NEW w \in DOMAIN k.window
  PROVE  LET j == leave_fullscreen(k, w) IN j \in Cores(W) /\ Alike(k, j)
<1> DEFINE p == IF k.window[w].floating THEN k.window[w].place_before_fullscreen
                ELSE k.window[w].place
           s == [k.window[w] EXCEPT !.fullscreen = FALSE, !.place = p]
           h == [k EXCEPT !.window[w] = s]
<1>1. /\ k.window[w] \in WindowStates /\ k \in CoreFields(W)
      /\ k.window \in [DOMAIN k.window -> WindowStates]
  BY CoreParts
<1>2. p \in Places
  BY <1>1 DEF WindowStates
<1>3. leave_fullscreen(k, w) = arrange(h)
  <2>1. [k EXCEPT
           !.window[w].fullscreen = FALSE,
           !.window[w].place = IF k.window[w].floating
                               THEN k.window[w].place_before_fullscreen ELSE @] = h
    BY <1>1 DEF CoreFields, WindowStates
  <2> QED
    BY <2>1 DEF leave_fullscreen
<1> HIDE DEF p
<1>4. s \in WindowStates
  BY <1>1, <1>2 DEF WindowStates
<1> HIDE DEF s
<1>5. h \in Cores(W) /\ Alike(k, h)
  BY <1>4, NewWindowState
<1> HIDE DEF h
<1>6. arrange(h) \in Cores(W) /\ Alike(h, arrange(h))
  BY <1>5, Arranges
<1> QED
  BY <1>3, <1>5, <1>6 DEF Alike

LEMMA FullscreenKeeps ==
  ASSUME NEW W, NEW k \in Cores(W), NEW w, NEW enabled \in BOOLEAN
  PROVE  LET j == SetWindowFullscreen(k, w, enabled) IN j \in Cores(W) /\ Alike(k, j)
<1> DEFINE ws == k.window_workspace[w]
           e == enter_fullscreen(k, w, monitor_of(k.wsman, ws))
           l == leave_fullscreen(k, w)
<1>1. CASE ~ find_window_in_all(k, w)
  BY <1>1 DEF SetWindowFullscreen, Alike
<1>2. CASE find_window_in_all(k, w)
  <2>1. w \in DOMAIN k.window
    BY <1>2 DEF find_window_in_all
  <2>2. monitor_of(k.wsman, ws) \in 0 .. Len(k.wsman.monitors)
    BY <2>1, WindowParts, MonitorOf
  <2>3. e \in Cores(W) /\ Alike(k, e) /\ l \in Cores(W) /\ Alike(k, l)
    BY <2>1, <2>2, EnterKeeps, LeaveKeeps
  <2>4. SetWindowFullscreen(k, w, enabled) =
          IF enabled THEN focus_or_evaluate(e, w, ws)
          ELSE IF ~ k.window[w].fullscreen THEN k ELSE evaluate_workspace_fullscreen(l, ws)
    BY <1>2 DEF SetWindowFullscreen
  <2> HIDE DEF e, l, ws
  <2>5. focus_or_evaluate(e, w, ws) \in Cores(W) /\ Alike(e, focus_or_evaluate(e, w, ws))
    BY <2>3, Focuses, Evaluates DEF focus_or_evaluate
  <2>6. /\ evaluate_workspace_fullscreen(l, ws) \in Cores(W)
        /\ Alike(l, evaluate_workspace_fullscreen(l, ws))
    BY <2>3, Evaluates
  <2> QED
    BY <2>3, <2>4, <2>5, <2>6 DEF Alike
<1> QED
  BY <1>1, <1>2

LEMMA EnsureKeeps ==
  ASSUME NEW W, NEW k \in Cores(W), NEW w \in W, NEW ws
  PROVE  LET j == EnsureWindow(k, w, ws)
         IN  /\ j \in Cores(W) /\ DOMAIN j.window = DOMAIN k.window \cup {w}
             /\ j.settings = k.settings
<1>1. CASE w \in DOMAIN k.window
  <2>1. EnsureWindow(k, w, ws) = move_window_to(k, ws, w)
    BY <1>1 DEF EnsureWindow, find_window_in_all
  <2>2. DOMAIN k.window \cup {w} = DOMAIN k.window
    BY <1>1
  <2> QED
    BY <1>1, <2>1, <2>2, MoveWindow DEF Alike
<1>2. CASE w \notin DOMAIN k.window
  BY <1>2, CreateWindow DEF EnsureWindow, find_window_in_all
<1> QED
  BY <1>1, <1>2

LEMMA BorderlessKeeps ==
  ASSUME NEW W, NEW k \in Cores(W), NEW w \in DOMAIN k.window
  PROVE  LET j == SetWindowBorderless(k, w) IN j \in Cores(W) /\ Alike(k, j)
<1> DEFINE s == [k.window[w] EXCEPT !.borderless = TRUE]
           h == [k EXCEPT !.window[w] = s]
           j == evaluate_workspace_fullscreen(h, k.window_workspace[w])
<1>1. s \in WindowStates
  <2>1. k.window[w] \in WindowStates
    BY WindowParts
  <2> QED
    BY <2>1 DEF WindowStates
<1>2. SetWindowBorderless(k, w) = j
  BY DEF SetWindowBorderless
<1> HIDE DEF s
<1>3. h \in Cores(W) /\ Alike(k, h)
  BY <1>1, NewWindowState
<1> HIDE DEF h
<1>4. j \in Cores(W) /\ Alike(h, j)
  BY <1>3, Evaluates
<1> QED
  BY <1>2, <1>3, <1>4 DEF Alike

LEMMA ConsumeKeeps ==
  ASSUME NEW W, NEW k \in Cores(W), NEW w \in DOMAIN k.window
  PROVE  LET j == consume_window_suppress_focus_once(k, w) IN j \in Cores(W) /\ Alike(k, j)
<1> DEFINE s == [k.window[w] EXCEPT !.suppress_focus_once = FALSE]
<1>1. s \in WindowStates
  <2>1. k.window[w] \in WindowStates
    BY WindowParts
  <2> QED
    BY <2>1 DEF WindowStates
<1>2. consume_window_suppress_focus_once(k, w) = [k EXCEPT !.window[w] = s]
  BY DEF consume_window_suppress_focus_once
<1> HIDE DEF s
<1> QED
  BY <1>1, <1>2, NewWindowState

LEMMA RemoveKeeps ==
  ASSUME NEW W, NEW k \in Cores(W), NEW w \in DOMAIN k.window
  PROVE  LET j == RemoveWindowFromAllWorkspaces(k, w)
         IN  /\ j \in Cores(W) /\ DOMAIN j.window = DOMAIN k.window \ {w}
             /\ j.settings = k.settings
<1> DEFINE h  == remove_window_from_all(k, w)
           ws == workspace_of_window(k, w)
           j  == evaluate_workspace_fullscreen(h, ws)
<1>1. /\ h \in Cores(W) /\ DOMAIN h.window = DOMAIN k.window \ {w}
      /\ h.settings = k.settings
  BY RemoveFromAll
<1>2. RemoveWindowFromAllWorkspaces(k, w) = IF ws = 0 THEN h ELSE j
  BY DEF RemoveWindowFromAllWorkspaces
<1> HIDE DEF h, ws
<1>3. j \in Cores(W) /\ Alike(h, j)
  BY <1>1, Evaluates
<1> QED
  BY <1>1, <1>2, <1>3 DEF Alike

\* The list of the current workspace changes its order or its cursor.
LEMMA Current ==
  ASSUME NEW W, NEW k \in Cores(W), NEW ws \in DOMAIN k.workspaces
  PROVE  /\ k.workspaces[ws] \in WorkspaceStates(W) /\ Cursor(k.workspaces[ws])
         /\ Range(k.workspaces[ws].windows) \subseteq DOMAIN k.window
<1>1. k.workspaces \in Seq(WorkspaceStates(W)) /\ SoundCore(k)
  BY CoreParts
<1> QED
  BY <1>1 DEF SoundCore, ListsMatch

LEMMA StepKeeps ==
  ASSUME NEW W, NEW k \in Cores(W), NEW dir \in {1, -1}
  PROVE  LET j == FocusStep(k, dir) IN j \in Cores(W) /\ Alike(k, j)
<1> DEFINE ws == current_ws(k)
           s  == Workspace_focus_step(k, k.workspaces[ws], dir)
           h  == [k EXCEPT !.workspaces[ws] = s]
<1>1. ws \in DOMAIN k.workspaces
  BY CurrentExists
<1>2. FocusStep(k, dir) = focus_cursor(h, ws)
  BY <1>1 DEF FocusStep
<1> HIDE DEF ws
<1>3. k.workspaces[ws] \in WorkspaceStates(W) /\ Cursor(k.workspaces[ws])
  BY <1>1, Current
<1>4. s \in WorkspaceStates(W) /\ Cursor(s) /\ s.windows = k.workspaces[ws].windows
  BY <1>3, FocusSteps
<1> HIDE DEF s
<1>5. h \in Cores(W) /\ Alike(k, h)
  BY <1>1, <1>4, NewWorkspace
<1> HIDE DEF h
<1>6. focus_cursor(h, ws) \in Cores(W) /\ Alike(h, focus_cursor(h, ws))
  BY <1>5, Focuses DEF focus_cursor, focus_if_visible
<1> QED
  BY <1>2, <1>5, <1>6 DEF Alike

LEMMA ZoomKeeps ==
  ASSUME NEW W, NEW k \in Cores(W)
  PROVE  LET j == Zoom(k) IN j \in Cores(W) /\ Alike(k, j)
<1> DEFINE ws == current_ws(k)
           s  == Workspace_zoom(k, k.workspaces[ws])
           h  == [k EXCEPT !.workspaces[ws] = s]
<1>1. ws \in DOMAIN k.workspaces
  BY CurrentExists
<1>2. Zoom(k) = arrange(h)
  BY <1>1 DEF Zoom
<1> HIDE DEF ws
<1>3. k.workspaces[ws] \in WorkspaceStates(W) /\ Cursor(k.workspaces[ws])
  BY <1>1, Current
<1>4. s \in WorkspaceStates(W) /\ Cursor(s) /\ Range(s.windows) = Range(k.workspaces[ws].windows)
  BY <1>3, Zooms
<1> HIDE DEF s
<1>5. h \in Cores(W) /\ Alike(k, h)
  BY <1>1, <1>4, NewWorkspace
<1> HIDE DEF h
<1>6. arrange(h) \in Cores(W) /\ Alike(h, arrange(h))
  BY <1>5, Arranges
<1> QED
  BY <1>2, <1>5, <1>6 DEF Alike

LEMMA FloatKeeps ==
  ASSUME NEW W, NEW k \in Cores(W), NoWindow \notin W
  PROVE  LET j == ToggleFocusedWindowFloating(k) IN j \in Cores(W) /\ Alike(k, j)
<1> DEFINE o == k.workspaces[current_ws(k)]
           w == Workspace_focused(k, o)
           s == [k.window[w] EXCEPT !.floating = ~ @]
           h == [k EXCEPT !.window[w] = s]
<1>1. o \in WorkspaceStates(W) /\ Range(o.windows) \subseteq DOMAIN k.window
  BY CurrentExists, Current
<1>2. ToggleFocusedWindowFloating(k) = IF w = NoWindow THEN k ELSE arrange(h)
  BY DEF ToggleFocusedWindowFloating
<1> HIDE DEF o
<1>3. CASE w # NoWindow
  <2>1. w \in DOMAIN k.window
    BY <1>1, <1>3, Focused
  <2> HIDE DEF w
  <2>2. k.window[w] \in WindowStates
    BY <2>1, WindowParts
  <2>3. s \in WindowStates
    <3> DEFINE b == ~ k.window[w].floating
    <3>1. b \in BOOLEAN
      OBVIOUS
    <3>2. s = [k.window[w] EXCEPT !.floating = b]
      BY <2>2 DEF WindowStates
    <3> HIDE DEF b
    <3> QED
      BY <2>2, <3>1, <3>2 DEF WindowStates
  <2> HIDE DEF s
  <2>4. h \in Cores(W) /\ Alike(k, h)
    BY <2>1, <2>3, NewWindowState
  <2> HIDE DEF h
  <2>5. arrange(h) \in Cores(W) /\ Alike(h, arrange(h))
    BY <2>4, Arranges
  <2> QED
    BY <1>2, <1>3, <2>4, <2>5 DEF Alike
<1> QED
  BY <1>2, <1>3 DEF Alike

\* The focused monitor changes.
LEMMA FocusedMonitorKeeps ==
  ASSUME NEW W, NEW k \in Cores(W), NEW m \in Nat
  PROVE  LET j == focus([k EXCEPT !.wsman.focused_monitor = m], NoWindow)
         IN  j \in Cores(W) /\ Alike(k, j)
<1> DEFINE t == [k.wsman EXCEPT !.focused_monitor = m]
           h == [k EXCEPT !.wsman = t]
<1>1. Sound(t, Len(k.workspaces))
  <2>1. Sound(k.wsman, Len(k.workspaces)) /\ Len(k.workspaces) \in Nat
    BY CoreParts
  <2>2. Keeps(k.wsman, t, Len(k.workspaces))
    BY <2>1, FocusOnly
  <2> QED
    BY <2>2 DEF Keeps
<1>2. [k EXCEPT !.wsman.focused_monitor = m] = h
  OBVIOUS
<1> HIDE DEF t
<1>3. h \in Cores(W) /\ Alike(k, h)
  BY <1>1, NewManager
<1> HIDE DEF h
<1>4. focus(h, NoWindow) \in Cores(W) /\ Alike(h, focus(h, NoWindow))
  BY <1>3, Focuses
<1> QED
  BY <1>2, <1>3, <1>4 DEF Alike

LEMMA MonitorKeeps ==
  ASSUME NEW W, NEW k \in Cores(W), NEW m \in DOMAIN k.wsman.monitors
  PROVE  /\ FocusMonitor(k, m) \in Cores(W) /\ Alike(k, FocusMonitor(k, m))
         /\ focus_monitor_at_point(k, m) \in Cores(W)
         /\ Alike(k, focus_monitor_at_point(k, m))
<1>1. k.wsman.monitors \in Seq(Outputs)
  BY CoreParts DEF Sound, WellFormed, Fields
<1>2. m \in Nat
  BY <1>1
<1>3. /\ focus([k EXCEPT !.wsman.focused_monitor = m], NoWindow) \in Cores(W)
      /\ Alike(k, focus([k EXCEPT !.wsman.focused_monitor = m], NoWindow))
  BY <1>2, FocusedMonitorKeeps
<1>4. Alike(k, k)
  BY DEF Alike
<1> QED
  BY <1>3, <1>4 DEF FocusMonitor, focus_monitor_at_point

LEMMA PlugKeeps ==
  ASSUME NEW W, NEW k \in Cores(W), NEW mons \in MonitorLists
  PROVE  LET j == ApplyMonitorTopology(k, mons) IN j \in Cores(W) /\ Alike(k, j)
<1> DEFINE t == assign_workspaces(set_monitors(k.wsman, mons), k.settings)
           h == [k EXCEPT !.wsman = t]
<1>1. /\ SoundCore(k) /\ Sound(k.wsman, Len(k.workspaces)) /\ Len(k.workspaces) \in Nat
      /\ k.settings \in Config /\ Len(k.settings.pins) = Len(k.workspaces)
  BY CoreParts DEF SoundCore
<1>2. mons \in Seq(Outputs)
  BY TopologyAssumption
<1>3. Draft(set_monitors(k.wsman, mons), Len(k.settings.pins))
  BY <1>1, <1>2, SetMonitors
<1>4. Sound(t, Len(k.workspaces))
  BY <1>1, <1>3, Assign
<1>5. ApplyMonitorTopology(k, mons) = reconcile(h)
  BY DEF ApplyMonitorTopology
<1> HIDE DEF t
<1>6. h \in Cores(W) /\ Alike(k, h)
  BY <1>4, NewManager
<1> HIDE DEF h
<1>7. reconcile(h) \in Cores(W) /\ Alike(h, reconcile(h))
  BY <1>6, Reconciles
<1> QED
  BY <1>5, <1>6, <1>7 DEF Alike

\* The states of Core with the windows and the configuration of k.
Likes(W, k) == {j \in Cores(W) : Alike(k, j)}

SwitchAll(k, saved, todo) ==
  FoldLeft(LAMBDA acc, i : SwitchWorkspace(acc, saved[i], i), k, todo)

\* Workspaces are switched to one after the other.
LEMMA SwitchesKeep ==
  ASSUME NEW W, NEW k \in Cores(W), NEW saved, NEW T, NEW todo \in Seq(T)
  PROVE  SwitchAll(k, saved, todo) \in Likes(W, k)
<1> DEFINE Q  == Likes(W, k)
           N  == Len(todo)
           F  == [p \in Q \X (1 .. N) |-> SwitchWorkspace(p[1], saved[todo[p[2]]], todo[p[2]])]
           it == CHOOSE it : it = [S \in SUBSET DOMAIN todo |->
                   IF S = {} THEN k
                   ELSE SwitchWorkspace(it[S \ {Max(S)}], saved[todo[Max(S)]], todo[Max(S)])]
<1>1. SwitchAll(k, saved, todo) = it[DOMAIN todo]
  BY DEF SwitchAll, FoldLeft, MapThenFoldSet
<1>2. N \in Nat /\ DOMAIN todo = 1 .. N
  OBVIOUS
<1>3. k \in Q
  BY DEF Likes, Alike
<1>4. ASSUME NEW q \in Q, NEW i PROVE SwitchWorkspace(q, saved[i], i) \in Q
  <2>1. q \in Cores(W) /\ Alike(k, q)
    BY DEF Likes
  <2>2. SwitchWorkspace(q, saved[i], i) \in Cores(W) /\ Alike(q, SwitchWorkspace(q, saved[i], i))
    BY <2>1, SwitchKeeps
  <2> QED
    BY <2>1, <2>2 DEF Likes, Alike
<1> HIDE DEF Q
<1>5. IsStep(F, Q, N)
  BY <1>4 DEF IsStep
<1>6. it = [S \in SUBSET DOMAIN todo |->
              IF S = {} THEN k
              ELSE SwitchWorkspace(it[S \ {Max(S)}], saved[todo[Max(S)]], todo[Max(S)])]
  <2>1. PICK g : IsFold(g, k, F, Q, N)
    <3> HIDE DEF F
    <3> QED
      BY <1>2, <1>3, <1>5, FoldExists
  <2>2. /\ g \in [SUBSET (1 .. N) -> Q]
        /\ \A S \in SUBSET (1 .. N) :
             g[S] = IF S = {} THEN k ELSE F[<<g[S \ {Max(S)}], Max(S)>>]
    BY <2>1 DEF IsFold
  <2>3. \A S \in SUBSET (1 .. N) : S # {} => Max(S) \in 1 .. N
    BY <1>2, MaxIn
  <2>4. g = [S \in SUBSET DOMAIN todo |->
               IF S = {} THEN k
               ELSE SwitchWorkspace(g[S \ {Max(S)}], saved[todo[Max(S)]], todo[Max(S)])]
    BY <1>2, <2>2, <2>3
  <2> QED
    BY <2>4
<1> HIDE DEF it
<1>7. it[{}] \in Q
  BY <1>3, <1>6
<1>8. ASSUME NEW i \in 1 .. N, it[1 .. (i - 1)] \in Q PROVE it[1 .. i] \in Q
  <2>1. Max(1 .. i) = i /\ (1 .. i) \ {i} = 1 .. (i - 1) /\ 1 .. i # {}
    BY <1>2, Prefix
  <2>2. 1 .. i \in SUBSET DOMAIN todo
    BY <1>2
  <2>3. it[1 .. i] = SwitchWorkspace(it[1 .. (i - 1)], saved[todo[i]], todo[i])
    BY <1>6, <2>1, <2>2
  <2> QED
    BY <1>4, <1>8, <2>3
<1>9. it[1 .. N] \in Q
  BY <1>2, <1>7, <1>8, FoldStays
<1> QED
  BY <1>1, <1>2, <1>9 DEF Q

LEMMA RestoreKeeps ==
  ASSUME NEW W, NEW k \in Cores(W), NEW saved
  PROVE  LET r == restore_shown(k, saved)
         IN  /\ r.core \in Cores(W) /\ Alike(k, r.core)
             /\ r.switched \in Seq(DOMAIN k.workspaces)
<1> DEFINE all  == [i \in DOMAIN k.wsman.monitors |-> i]
           S    == {i \in DOMAIN saved : is_ws_valid(k.wsman, saved[i])}
           todo == Keep(all, S)
           f    == SwitchAll(k, saved, todo)
           h    == IF todo = <<>> THEN arrange(k) ELSE f
           r    == restore_shown(k, saved)
<1>1. r.core = focus(h, NoWindow) /\ r.switched = [i \in DOMAIN todo |-> saved[todo[i]]]
  BY DEF restore_shown, SwitchAll
<1>2. k.wsman.monitors \in Seq(Outputs) /\ DOMAIN k.wsman.ws_owner = DOMAIN k.workspaces
  BY CoreParts DEF Sound, WellFormed, Fields
<1>3. all \in Seq(Nat)
  BY <1>2
<1>30. \A i \in S : saved[i] \in DOMAIN k.workspaces
  BY <1>2 DEF is_ws_valid
<1> HIDE DEF all, S
<1>4. todo \in Seq(Nat \cap S)
  BY <1>3, KeepLists
<1> HIDE DEF todo
<1>5. f \in Cores(W) /\ Alike(k, f)
  <2> DEFINE T == Nat \cap S
  <2>1. todo \in Seq(T)
    BY <1>4
  <2> HIDE DEF T
  <2>2. f \in Likes(W, k)
    BY <2>1, SwitchesKeep
  <2> QED
    BY <2>2 DEF Likes
<1> HIDE DEF f
<1>6. h \in Cores(W) /\ Alike(k, h)
  BY <1>5, Arranges
<1> HIDE DEF h, r
<1>7. focus(h, NoWindow) \in Cores(W) /\ Alike(h, focus(h, NoWindow))
  BY <1>6, Focuses
<1>8. r.core \in Cores(W) /\ Alike(k, r.core)
  BY <1>1, <1>6, <1>7 DEF Alike
<1>9. r.switched \in Seq(DOMAIN k.workspaces)
  <2>1. DOMAIN todo = 1 .. Len(todo) /\ Len(todo) \in Nat /\ \A i \in DOMAIN todo : todo[i] \in S
    BY <1>4
  <2>2. \A i \in 1 .. Len(todo) : saved[todo[i]] \in DOMAIN k.workspaces
    BY <1>30, <2>1
  <2> QED
    BY <1>1, <2>1, <2>2
<1> QED
  BY <1>8, <1>9 DEF r

\* A reload leaves the windows that were managed, under the new settings.
LEMMA ReloadKeeps ==
  ASSUME NEW W, NEW k \in Cores(W), NEW c \in Configs, NEW mons \in MonitorLists
  PROVE  LET r == reload(k, c, mons)
         IN  /\ r.core \in Cores(W) /\ DOMAIN r.core.window = DOMAIN k.window
             /\ r.core.settings = c /\ r.switched \in Seq(DOMAIN r.core.workspaces)
<1> DEFINE g == apply_settings(k, c)
           h == ApplyMonitorTopology(g, mons)
           r == restore_shown(h, g.wsman.active_ws)
<1>1. reload(k, c, mons) = r
  BY DEF reload, redisplay
<1>2. g \in Cores(W) /\ DOMAIN g.window = DOMAIN k.window /\ g.settings = c
  BY NewSettings
<1> HIDE DEF g
<1>3. h \in Cores(W) /\ Alike(g, h)
  BY <1>2, PlugKeeps
<1> HIDE DEF h
<1>4. r.core \in Cores(W) /\ Alike(h, r.core) /\ r.switched \in Seq(DOMAIN h.workspaces)
  BY <1>3, RestoreKeeps
<1> HIDE DEF r
<1>5. DOMAIN r.core.workspaces = DOMAIN h.workspaces
  BY <1>3, <1>4, AlikeParts
<1> QED
  BY <1>1, <1>2, <1>3, <1>4, <1>5 DEF Alike

\* The Core a backend starts with.
LEMMA FirstCore ==
  ASSUME NEW W, NEW mons \in Seq(Outputs), NEW c \in Configs
  PROVE  [wsman |-> init_from_defs(mons, c), settings |-> c,
          workspaces |-> [ws \in DOMAIN c.pins |-> empty_workspace],
          window |-> [w \in {} |-> new_window],
          window_workspace |-> [w \in {} |-> 0], effects |-> <<>>] \in Cores(W)
<1> DEFINE t == init_from_defs(mons, c)
           l == [ws \in DOMAIN c.pins |-> empty_workspace]
           f == [w \in {} |-> new_window]
           g == [w \in {} |-> 0]
           k == [wsman |-> t, settings |-> c, workspaces |-> l, window |-> f,
                 window_workspace |-> g, effects |-> <<>>]
<1>1. c \in Config
  BY TopologyAssumption
<1>2. c.pins \in Seq(Outputs \cup {NoOutput}) /\ Len(c.pins) \in Nat
      /\ DOMAIN c.pins = 1 .. Len(c.pins)
  BY <1>1 DEF Config
<1>3. Sound(t, Len(c.pins))
  BY <1>1, InitFromDefs
<1>4. /\ empty_workspace \in WorkspaceStates(W) /\ Cursor(empty_workspace)
      /\ Range(empty_workspace.windows) = {}
  BY DEF WorkspaceStates, empty_workspace, Cursor, Range
<1>5. /\ l \in Seq(WorkspaceStates(W)) /\ Len(l) = Len(c.pins)
      /\ \A ws \in DOMAIN l : l[ws] = empty_workspace
  BY <1>2, <1>4
<1>6. /\ f \in UNION {[D -> WindowStates] : D \in SUBSET W} /\ DOMAIN f = {}
      /\ g \in UNION {[D -> Nat] : D \in SUBSET W} /\ DOMAIN g = {}
  <2>1. f \in [{} -> WindowStates] /\ g \in [{} -> Nat] /\ {} \in SUBSET W
    OBVIOUS
  <2> QED
    BY <2>1
<1> HIDE DEF t, l, f, g
<1>7. t \in UNION {Fields(n) : n \in Nat}
  BY <1>2, <1>3 DEF Sound, WellFormed
<1>70. <<>> \in Seq(Effects(W))
  OBVIOUS
<1>8. /\ k \in CoreFields(W) /\ k.wsman = t /\ k.settings = c /\ k.workspaces = l
      /\ k.window = f /\ k.window_workspace = g
  BY <1>5, <1>6, <1>7, <1>70 DEF CoreFields
<1> HIDE DEF k
<1>9. Indexes(k) /\ ListsMatch(k)
  BY <1>4, <1>5, <1>6, <1>8 DEF Indexes, ListsMatch
<1>10. SoundCore(k)
  BY <1>3, <1>5, <1>8, <1>9 DEF SoundCore
<1> QED
  BY <1>8, <1>10 DEF Cores, k, t, l, f, g
=============================================================================
