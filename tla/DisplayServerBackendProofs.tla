---------------------- MODULE DisplayServerBackendProofs ----------------------
(***************************************************************************)
(* For any surfaces, window managers, bindings and bounds: whatever order  *)
(* window manager, display server, clients and user act in, and whenever   *)
(* the window manager is killed, the window manager knows the surfaces     *)
(* that exist once everything sent has been read, and the display server   *)
(* holds pointer and keys, as many as a message has room for, for the      *)
(* window manager that asked for them.                                     *)
(***************************************************************************)
EXTENDS DisplayServerBackend, CoreDispatchProofs

Ids  == Nat \cup {None}
Keys == Range(Bindings)
KeysHeld == intercepts_sent(Len(Bindings))

\* The messages on their way to the window manager.
Reports ==
       [type : {"hello", "begin", "end"}]
  \cup [type : {"created", "mapped", "destroyed", "enter"}, id : Surface]
  \cup [type : {"committed"}, id : Surface, sized : {TRUE}]
  \cup [type : {"key"}, id : Keys]
  \cup [type : {"button"}, id : Surface, value : {"drag", "release"}]
  \cup [type : {"expose"}, id : Overlay]

\* The messages on their way to the display server.
Wishes ==
       [type : {"configure"}, id : Ids, value : Places]
  \cup [type : {"visible", "activated", "stacking", "grab"}, id : Ids, value : BOOLEAN]
  \cup [type : {"border"}, id : Ids, value : {"focused", "unfocused"}]
  \cup [type : {"intercepts"}, id : Ids, value : SUBSET Keys]
  \cup [type : {"overlay"}, id : Overlay, value : {TRUE}]
  \cup [type : {"update", "drop"}, id : Ids, value : {TRUE}]
Orders == [type : {"hello", "request"}] \cup Wishes
-----------------------------------------------------------------------------
(* Lists.                                                                  *)

\* Induction along a list, with the positions for which it holds as a set.
LEMMA Climb ==
  ASSUME NEW N \in Nat, NEW S, 0 \in S, \A i \in 1 .. N : i - 1 \in S => i \in S
  PROVE  \A i \in 0 .. N : i \in S
<1> DEFINE T == {i \in 0 .. N : i \notin S}
<1> SUFFICES ASSUME T # {} PROVE FALSE
  OBVIOUS
<1>1. T \in SUBSET Nat
  OBVIOUS
<1>2. PICK m \in T : \A n \in T : m <= n
  <2> HIDE DEF T
  <2> QED
    BY <1>1, LeastExists
<1>3. m \in 1 .. N /\ m - 1 \notin T /\ m - 1 \in 0 .. N
  BY <1>2
<1> QED
  BY <1>3

\* What a value b becomes when the messages of one type in q are applied to it.
Leaves(type, q, b, v) ==
  \/ b = v /\ \A i \in DOMAIN q : q[i].type # type
  \/ \E i \in DOMAIN q :
       /\ q[i].type = type /\ q[i].value = v
       /\ \A j \in DOMAIN q : j > i => q[j].type # type

LEMMA LeavesNone ==
  ASSUME NEW type, NEW b
  PROVE  Leaves(type, <<>>, b, b) /\ \A v : Leaves(type, <<>>, b, v) => b = v
BY DEF Leaves

LEMMA LeavesOther ==
  ASSUME NEW type, NEW T, NEW q \in Seq(T), NEW b, NEW v, Leaves(type, q, b, v),
         NEW m, m.type # type
  PROVE  Leaves(type, Append(q, m), b, v)
<1>1. DOMAIN Append(q, m) = 1 .. Len(q) + 1 /\ DOMAIN q = 1 .. Len(q) /\ Len(q) \in Nat
  OBVIOUS
<1>2. \A i \in 1 .. Len(q) : Append(q, m)[i] = q[i]
  OBVIOUS
<1>3. Append(q, m)[Len(q) + 1] = m
  OBVIOUS
<1>4. CASE b = v /\ \A i \in DOMAIN q : q[i].type # type
  <2>1. ASSUME NEW i \in 1 .. Len(q) + 1 PROVE Append(q, m)[i].type # type
    <3>1. i \in 1 .. Len(q) \/ i = Len(q) + 1
      BY <1>1
    <3> QED
      BY <1>1, <1>2, <1>3, <1>4, <3>1
  <2> QED
    BY <1>1, <1>4, <2>1 DEF Leaves
<1>5. ASSUME NEW i \in DOMAIN q, q[i].type = type, q[i].value = v,
             \A j \in DOMAIN q : j > i => q[j].type # type
      PROVE  Leaves(type, Append(q, m), b, v)
  <2>1. ASSUME NEW j \in 1 .. Len(q) + 1, j > i PROVE Append(q, m)[j].type # type
    <3>1. j \in 1 .. Len(q) \/ j = Len(q) + 1
      BY <1>1
    <3> QED
      BY <1>1, <1>2, <1>3, <1>5, <2>1, <3>1
  <2>2. i \in 1 .. Len(q) + 1 /\ Append(q, m)[i] = q[i]
    BY <1>1, <1>2
  <2> QED
    BY <1>1, <1>5, <2>1, <2>2 DEF Leaves
<1> QED
  BY <1>4, <1>5 DEF Leaves

LEMMA LeavesThis ==
  ASSUME NEW T, NEW q \in Seq(T), NEW b, NEW m
  PROVE  Leaves(m.type, Append(q, m), b, m.value)
<1>1. DOMAIN Append(q, m) = 1 .. Len(q) + 1 /\ Len(q) \in Nat
  OBVIOUS
<1>2. Append(q, m)[Len(q) + 1] = m
  OBVIOUS
<1>3. Len(q) + 1 \in DOMAIN Append(q, m) /\ \A j \in DOMAIN Append(q, m) : ~ j > Len(q) + 1
  BY <1>1
<1> QED
  BY <1>2, <1>3 DEF Leaves

LEMMA LeavesBoth ==
  ASSUME NEW type, NEW T, NEW q \in Seq(T), NEW r \in Seq(T), NEW a, NEW b, NEW v,
         Leaves(type, q, a, b), Leaves(type, r, b, v)
  PROVE  Leaves(type, q \o r, a, v)
<1> DEFINE s == q \o r
<1>1. /\ DOMAIN s = 1 .. Len(q) + Len(r) /\ DOMAIN q = 1 .. Len(q) /\ DOMAIN r = 1 .. Len(r)
      /\ Len(q) \in Nat /\ Len(r) \in Nat
  OBVIOUS
<1>2. \A i \in 1 .. Len(q) : s[i] = q[i]
  OBVIOUS
<1>3. \A i \in 1 .. Len(r) : s[Len(q) + i] = r[i]
  OBVIOUS
<1> HIDE DEF s
<1>4. ASSUME NEW j \in DOMAIN s
      PROVE  \/ j \in DOMAIN q /\ s[j] = q[j]
             \/ j > Len(q) /\ j - Len(q) \in DOMAIN r /\ s[j] = r[j - Len(q)]
  <2>1. CASE j <= Len(q)
    BY <1>1, <1>2, <2>1
  <2>2. CASE ~ j <= Len(q)
    <3>1. j - Len(q) \in 1 .. Len(r) /\ Len(q) + (j - Len(q)) = j
      BY <1>1, <2>2
    <3> QED
      BY <1>1, <1>3, <2>2, <3>1
  <2> QED
    BY <2>1, <2>2
<1>5. ASSUME NEW i \in DOMAIN r, r[i].type = type, r[i].value = v,
             \A j \in DOMAIN r : j > i => r[j].type # type
      PROVE  Leaves(type, s, a, v)
  <2>1. Len(q) + i \in DOMAIN s /\ s[Len(q) + i] = r[i]
    BY <1>1, <1>3
  <2>2. ASSUME NEW j \in DOMAIN s, j > Len(q) + i PROVE s[j].type # type
    <3>1. j > Len(q) /\ ~ j \in DOMAIN q /\ j - Len(q) > i
      BY <1>1, <2>2
    <3> QED
      BY <1>4, <1>5, <3>1
  <2> QED
    BY <1>5, <2>1, <2>2 DEF Leaves
<1>6. ASSUME b = v, \A i \in DOMAIN r : r[i].type # type
      PROVE  Leaves(type, s, a, v)
  <2>1. CASE a = b /\ \A i \in DOMAIN q : q[i].type # type
    BY <1>4, <1>6, <2>1 DEF Leaves
  <2>2. ASSUME NEW i \in DOMAIN q, q[i].type = type, q[i].value = b,
               \A j \in DOMAIN q : j > i => q[j].type # type
        PROVE  Leaves(type, s, a, v)
    <3>1. i \in DOMAIN s /\ s[i] = q[i]
      BY <1>1, <1>2
    <3>2. ASSUME NEW j \in DOMAIN s, j > i PROVE s[j].type # type
      BY <1>4, <1>6, <2>2, <3>2
    <3> QED
      BY <1>6, <2>2, <3>1, <3>2 DEF Leaves
  <2> QED
    BY <2>1, <2>2 DEF Leaves
<1> QED
  BY <1>5, <1>6 DEF Leaves, s

LEMMA LeavesRest ==
  ASSUME NEW type, NEW T, NEW q \in Seq(T), q # <<>>, NEW b, NEW v, Leaves(type, q, b, v)
  PROVE  Leaves(type, Tail(q), IF Head(q).type = type THEN Head(q).value ELSE b, v)
<1> DEFINE r == Tail(q)
           a == IF Head(q).type = type THEN Head(q).value ELSE b
<1>1. /\ Len(q) \in Nat \ {0} /\ DOMAIN q = 1 .. Len(q) /\ DOMAIN r = 1 .. Len(q) - 1
      /\ Head(q) = q[1] /\ \A i \in 1 .. Len(q) - 1 : r[i] = q[i + 1]
  OBVIOUS
<1> HIDE DEF r
<1>2. \A i \in DOMAIN r : i + 1 \in DOMAIN q /\ r[i] = q[i + 1]
  BY <1>1
<1>3. CASE b = v /\ \A i \in DOMAIN q : q[i].type # type
  BY <1>1, <1>2, <1>3 DEF Leaves
<1>4. ASSUME NEW i \in DOMAIN q, q[i].type = type, q[i].value = v,
             \A j \in DOMAIN q : j > i => q[j].type # type
      PROVE  Leaves(type, r, a, v)
  <2>1. CASE i = 1
    <3>1. a = v
      BY <1>1, <1>4, <2>1
    <3>2. ASSUME NEW j \in DOMAIN r PROVE r[j].type # type
      <4>1. j + 1 \in DOMAIN q /\ j + 1 > i /\ r[j] = q[j + 1]
        BY <1>1, <2>1
      <4> QED
        BY <1>4, <4>1
    <3> QED
      BY <3>1, <3>2 DEF Leaves
  <2>2. CASE i # 1
    <3>1. i - 1 \in DOMAIN r /\ r[i - 1] = q[i]
      BY <1>1, <2>2
    <3>2. ASSUME NEW j \in DOMAIN r, j > i - 1 PROVE r[j].type # type
      <4>1. j + 1 \in DOMAIN q /\ j + 1 > i /\ r[j] = q[j + 1]
        BY <1>1, <3>2
      <4> QED
        BY <1>4, <4>1
    <3> QED
      BY <1>4, <3>1, <3>2 DEF Leaves
  <2> QED
    BY <2>1, <2>2
<1> QED
  BY <1>3, <1>4 DEF Leaves, r

\* A finite set as a list has all of its elements.
LEMMA SetAsList ==
  ASSUME NEW D, IsFiniteSet(D)
  PROVE  /\ SetToSeq(D) \in Seq(D) /\ Range(SetToSeq(D)) = D
         /\ \A q \in SetToSeqs(D) : q \in Seq(D) /\ Range(q) = D
<1> DEFINE n == Cardinality(D)
<1>1. n \in Nat /\ ExistsBijection(1 .. n, D)
  BY FS_CardinalityType
<1>2. IsFiniteSet(1 .. n) /\ Cardinality(1 .. n) = n
  <2> HIDE DEF n
  <2>1. n \in Int /\ 1 \in Int /\ (1 > n => n = 0)
    BY <1>1
  <2>2. IsFiniteSet(1 .. n) /\ Cardinality(1 .. n) = IF 1 > n THEN 0 ELSE n - 1 + 1
    BY <2>1, FS_Interval
  <2> QED
    BY <2>1, <2>2
<1>3. ASSUME NEW q \in [1 .. n -> D], IsInjective(q)
      PROVE  q \in Seq(D) /\ Range(q) = D
  <2>1. q \in Injection(1 .. n, D)
    BY <1>3 DEF Injection
  <2> HIDE DEF n
  <2>2. q \in Surjection(1 .. n, D)
    BY <1>1, <1>2, <2>1, FS_Injection DEF n
  <2>3. \A x \in D : \E i \in 1 .. n : q[i] = x
    BY <2>2 DEF Surjection
  <2>4. Range(q) = {q[i] : i \in 1 .. n}
    BY <1>3 DEF Range
  <2> QED
    BY <1>1, <1>3, <2>3, <2>4
<1>4. \E f \in [1 .. n -> D] : IsInjective(f)
  BY <1>1 DEF ExistsBijection, Bijection, Injection
<1>5. SetToSeq(D) \in [1 .. n -> D] /\ IsInjective(SetToSeq(D))
  BY <1>4 DEF SetToSeq
<1>6. \A q \in SetToSeqs(D) : q \in [1 .. n -> D] /\ IsInjective(q)
  BY DEF SetToSeqs, IsInjective
<1> HIDE DEF n
<1> QED
  BY <1>3, <1>5, <1>6

LEMMA SurfacesFinite == \A D \in SUBSET Surface : IsFiniteSet(D)
<1>1. 1 \in Int /\ MaxSurfaces \in Int
  BY DisplayAssumption
<1>2. IsFiniteSet(Surface)
  BY <1>1, FS_Interval DEF Surface
<1> QED
  BY <1>2, FS_Subset
-----------------------------------------------------------------------------
(* The window manager.                                                     *)

SurfaceRecords == [mapped : BOOLEAN, sized : BOOLEAN, managed : BOOLEAN]

Backends ==
  [pc : {"down", "hello", "boot", "run"}, conn : Ids,
   surfaces : UNION {[D -> SurfaceRecords] : D \in SUBSET Surface},
   prev_focused : Surface \cup {NoWindow},
   configured : UNION {[D -> Places] : D \in SUBSET Surface},
   overlay : Nat, next_overlay : Nat \ {0}, dragging : Surface \cup {NoWindow},
   astray : BOOLEAN]

\* What the backend manages, Core has.
Held(s) ==
  \A id \in DOMAIN s.wm.surfaces :
    s.wm.surfaces[id].managed => id \in DOMAIN s.core.window

Managers ==
  {s \in [core : Cores(Surface), wm : Backends, out : Seq(Wishes)] : Held(s)}

LEMMA ManagerParts ==
  ASSUME NEW s \in Managers
  PROVE  /\ s.core \in Cores(Surface) /\ s.wm \in Backends /\ s.out \in Seq(Wishes) /\ Held(s)
         /\ DOMAIN s.core.window \in SUBSET Surface
         /\ DOMAIN s.wm.surfaces \in SUBSET Surface
         /\ s.wm.surfaces \in [DOMAIN s.wm.surfaces -> SurfaceRecords]
         /\ s.wm.prev_focused \in Surface \cup {NoWindow}
         /\ s.wm.dragging \in Surface \cup {NoWindow}
         /\ s = [core |-> s.core, wm |-> s.wm, out |-> s.out]
<1>1. s.core \in Cores(Surface) /\ s.wm \in Backends /\ s.out \in Seq(Wishes) /\ Held(s)
      /\ s = [core |-> s.core, wm |-> s.wm, out |-> s.out]
  BY DEF Managers
<1>2. DOMAIN s.core.window \in SUBSET Surface
  BY <1>1, CoreParts
<1>3. /\ s.wm.surfaces \in UNION {[D -> SurfaceRecords] : D \in SUBSET Surface}
      /\ s.wm.prev_focused \in Surface \cup {NoWindow}
      /\ s.wm.dragging \in Surface \cup {NoWindow}
  BY <1>1 DEF Backends
<1> QED
  BY <1>1, <1>2, <1>3

LEMMA NewManagerState ==
  ASSUME NEW k \in Cores(Surface), NEW b \in Backends, NEW q \in Seq(Wishes),
         \A id \in DOMAIN b.surfaces : b.surfaces[id].managed => id \in DOMAIN k.window
  PROVE  [core |-> k, wm |-> b, out |-> q] \in Managers
BY DEF Managers, Held

\* Core and backend are replaced.
LEMMA RecordIs ==
  ASSUME NEW s, s = [core |-> s.core, wm |-> s.wm, out |-> s.out], NEW k, NEW b
  PROVE  [s EXCEPT !.core = k, !.wm = b] = [core |-> k, wm |-> b, out |-> s.out]
<1>1. [s EXCEPT !.core = k] = [core |-> k, wm |-> s.wm, out |-> s.out]
  OBVIOUS
<1>2. [s EXCEPT !.core = k, !.wm = b] = [[s EXCEPT !.core = k] EXCEPT !.wm = b]
  OBVIOUS
<1>3. [[core |-> k, wm |-> s.wm, out |-> s.out] EXCEPT !.wm = b]
        = [core |-> k, wm |-> b, out |-> s.out]
  OBVIOUS
<1> QED
  BY <1>1, <1>2, <1>3, Zenon

\* Core becomes k.
LEMMA CoreIs ==
  ASSUME NEW s \in Managers, NEW k \in Cores(Surface), DOMAIN s.core.window \subseteq DOMAIN k.window
  PROVE  LET r == [s EXCEPT !.core = k]
         IN  r \in Managers /\ r.core = k /\ r.wm = s.wm /\ r.out = s.out
<1> DEFINE r == [s EXCEPT !.core = k]
<1>1. r = [core |-> k, wm |-> s.wm, out |-> s.out]
  BY ManagerParts
<1>2. \A id \in DOMAIN s.wm.surfaces : s.wm.surfaces[id].managed => id \in DOMAIN k.window
  BY ManagerParts DEF Held
<1>3. [core |-> k, wm |-> s.wm, out |-> s.out] \in Managers
  BY <1>2, ManagerParts, NewManagerState
<1> QED
  BY <1>1, <1>3

\* The backend becomes b, with the same surfaces.
LEMMA BackendIs ==
  ASSUME NEW s \in Managers, NEW b \in Backends, b.surfaces = s.wm.surfaces
  PROVE  LET r == [s EXCEPT !.wm = b]
         IN  r \in Managers /\ r.core = s.core /\ r.wm = b /\ r.out = s.out
<1> DEFINE r == [s EXCEPT !.wm = b]
<1>1. r = [core |-> s.core, wm |-> b, out |-> s.out]
  BY ManagerParts
<1>2. \A id \in DOMAIN b.surfaces : b.surfaces[id].managed => id \in DOMAIN s.core.window
  BY ManagerParts DEF Held
<1>3. [core |-> s.core, wm |-> b, out |-> s.out] \in Managers
  BY <1>2, ManagerParts, NewManagerState
<1> QED
  BY <1>1, <1>3

LEMMA Known == Surface \cup {NoWindow} \subseteq Ids /\ NoWindow = None /\ NoWindow \notin Surface
               /\ NoWindow \in Ids
BY DisplayAssumption DEF Surface, Ids

\* The wishes that set puts together.
LEMMA WishIs ==
  ASSUME NEW id \in Ids
  PROVE  /\ \A v \in Places : set("configure", id, v) \in Wishes
         /\ \A v \in BOOLEAN : /\ set("visible", id, v) \in Wishes
                               /\ set("activated", id, v) \in Wishes
                               /\ set("stacking", id, v) \in Wishes
                               /\ set("grab", id, v) \in Wishes
         /\ \A v \in {"focused", "unfocused"} : set("border", id, v) \in Wishes
         /\ \A v \in SUBSET Keys : set("intercepts", id, v) \in Wishes
         /\ set("update", id, TRUE) \in Wishes /\ set("drop", id, TRUE) \in Wishes
         /\ id \in Overlay => set("overlay", id, TRUE) \in Wishes
<1>1. \A v \in Places : set("configure", id, v) \in Wishes
  BY DEF set, Wishes
<1>2. \A v \in BOOLEAN : /\ set("visible", id, v) \in Wishes
                         /\ set("activated", id, v) \in Wishes
                         /\ set("stacking", id, v) \in Wishes
                         /\ set("grab", id, v) \in Wishes
  BY DEF set, Wishes
<1>3. \A v \in {"focused", "unfocused"} : set("border", id, v) \in Wishes
  BY DEF set, Wishes
<1>4. \A v \in SUBSET Keys : set("intercepts", id, v) \in Wishes
  BY DEF set, Wishes
<1>5. /\ set("update", id, TRUE) \in Wishes /\ set("drop", id, TRUE) \in Wishes
      /\ id \in Overlay => set("overlay", id, TRUE) \in Wishes
  BY DEF set, Wishes
<1> QED
  BY <1>1, <1>2, <1>3, <1>4, <1>5

LEMMA SetIs ==
  ASSUME NEW t, NEW id, NEW v
  PROVE  set(t, id, v).type = t /\ set(t, id, v).id = id /\ set(t, id, v).value = v
BY DEF set

LEMMA Sending ==
  ASSUME NEW s \in Managers, NEW m \in Wishes
  PROVE  LET r == send(s, m)
         IN  r \in Managers /\ r.core = s.core /\ r.wm = s.wm /\ r.out = Append(s.out, m)
<1> DEFINE r == send(s, m)
<1>1. r = [core |-> s.core, wm |-> s.wm, out |-> Append(s.out, m)]
  BY ManagerParts, SMTT(60) DEF send
<1>2. Append(s.out, m) \in Seq(Wishes)
  BY ManagerParts
<1>3. \A id \in DOMAIN s.wm.surfaces : s.wm.surfaces[id].managed => id \in DOMAIN s.core.window
  BY ManagerParts DEF Held
<1>4. [core |-> s.core, wm |-> s.wm, out |-> Append(s.out, m)] \in Managers
  BY <1>2, <1>3, ManagerParts, NewManagerState
<1> QED
  BY <1>1, <1>4

\* The wishes that are not about grabs.
LEMMA OtherWish ==
  ASSUME NEW w \in Surface \cup {NoWindow}
  PROVE  /\ \A v \in Places :
              LET m == set("configure", w, v)
              IN  m \in Wishes /\ m.type \notin {"intercepts", "grab"}
         /\ \A v \in BOOLEAN, t \in {"visible", "activated", "stacking"} :
              LET m == set(t, w, v) IN m \in Wishes /\ m.type \notin {"intercepts", "grab"}
         /\ \A v \in {"focused", "unfocused"} :
              LET m == set("border", w, v)
              IN  m \in Wishes /\ m.type \notin {"intercepts", "grab"}
<1>1. w \in Ids
  BY Known
<1>2. \A v \in Places : set("configure", w, v) \in Wishes
  BY <1>1, WishIs
<1>3. \A v \in BOOLEAN, t \in {"visible", "activated", "stacking"} : set(t, w, v) \in Wishes
  BY <1>1, WishIs
<1>4. \A v \in {"focused", "unfocused"} : set("border", w, v) \in Wishes
  BY <1>1, WishIs
<1>5. \A t, v : set(t, w, v).type = t
  BY DEF set
<1> QED
  BY <1>2, <1>3, <1>4, <1>5

\* What the pending messages say about grabs: of the keys, from a to v, and of
\* the pointer, from b to whether there is a drag.
Says(s, a, v, b) ==
  /\ Leaves("intercepts", s.out, a, v)
  /\ Leaves("grab", s.out, b, s.wm.dragging # NoWindow)

\* The same surfaces, the same windows, and what is said follows.
Continues(s, r) ==
  /\ r.wm.surfaces = s.wm.surfaces /\ r.wm.pc = s.wm.pc /\ r.wm.conn = s.wm.conn
  /\ r.wm.overlay = s.wm.overlay /\ r.wm.next_overlay = s.wm.next_overlay
  /\ DOMAIN r.core.window = DOMAIN s.core.window
  /\ \A a, v, b : Says(s, a, v, b) => Says(r, a, v, b)

LEMMA ContinuesSelf == \A s : Continues(s, s)
BY DEF Continues

LEMMA ContinuesTwice ==
  ASSUME NEW s, NEW r, NEW t, Continues(s, r), Continues(r, t)
  PROVE  Continues(s, t)
BY DEF Continues

\* A message about something else than grabs.
LEMMA SendingOther ==
  ASSUME NEW s \in Managers, NEW m \in Wishes, m.type \notin {"intercepts", "grab"}
  PROVE  LET r == send(s, m) IN r \in Managers /\ r.core = s.core /\ r.wm = s.wm /\ Continues(s, r)
<1> DEFINE r == send(s, m)
<1>1. r \in Managers /\ r.core = s.core /\ r.wm = s.wm /\ r.out = Append(s.out, m)
  BY Sending
<1> HIDE DEF r
<1>2. s.out \in Seq(Wishes)
  BY ManagerParts
<1>3. ASSUME NEW a, NEW v, NEW b, Says(s, a, v, b) PROVE Says(r, a, v, b)
  BY <1>1, <1>2, <1>3, LeavesOther DEF Says
<1> QED
  BY <1>1, <1>3 DEF Continues, r

\* The backend becomes b: surfaces, connection, bar and drag are the same.
LEMMA BackendContinues ==
  ASSUME NEW s \in Managers, NEW b \in Backends,
         b.surfaces = s.wm.surfaces, b.pc = s.wm.pc, b.conn = s.wm.conn,
         b.overlay = s.wm.overlay, b.next_overlay = s.wm.next_overlay,
         b.dragging = s.wm.dragging
  PROVE  LET r == [s EXCEPT !.wm = b]
         IN  r \in Managers /\ r.core = s.core /\ r.wm = b /\ Continues(s, r)
<1> DEFINE r == [s EXCEPT !.wm = b]
<1>1. r \in Managers /\ r.core = s.core /\ r.wm = b /\ r.out = s.out
  BY BackendIs
<1> HIDE DEF r
<1> QED
  BY <1>1 DEF Continues, Says, r

LEMMA BorderSet ==
  ASSUME NEW s \in Managers, NEW w \in Surface \cup {NoWindow},
         NEW border \in {"focused", "unfocused"}
  PROVE  LET r == set_border(s, w, border)
         IN  r \in Managers /\ r.core = s.core /\ r.wm = s.wm /\ Continues(s, r)
<1> DEFINE m == set("border", w, border)
<1>1. m \in Wishes /\ m.type \notin {"intercepts", "grab"}
  BY OtherWish
<1> HIDE DEF m
<1>2. LET r == send(s, m) IN r \in Managers /\ r.core = s.core /\ r.wm = s.wm /\ Continues(s, r)
  BY <1>1, SendingOther
<1> QED
  BY <1>2, ContinuesSelf DEF set_border, m

LEMMA Deactivated ==
  ASSUME NEW s \in Managers, NEW w \in Surface \cup {NoWindow}
  PROVE  LET r == deactivate(s, w)
         IN  r \in Managers /\ r.core = s.core /\ r.wm = s.wm /\ Continues(s, r)
<1> DEFINE m == set("activated", w, FALSE)
           h == send(s, m)
           r == set_border(h, w, "unfocused")
<1>1. m \in Wishes /\ m.type \notin {"intercepts", "grab"}
  BY OtherWish
<1> HIDE DEF m
<1>2. h \in Managers /\ h.core = s.core /\ h.wm = s.wm /\ Continues(s, h)
  BY <1>1, SendingOther
<1> HIDE DEF h
<1>3. r \in Managers /\ r.core = h.core /\ r.wm = h.wm /\ Continues(h, r)
  BY <1>2, BorderSet
<1>4. deactivate(s, w) = IF w = NoWindow THEN s ELSE r
  BY DEF deactivate, h, m
<1> HIDE DEF r
<1> QED
  BY <1>2, <1>3, <1>4, ContinuesSelf, ContinuesTwice

\* prev_focused becomes w.
LEMMA FocusNoted ==
  ASSUME NEW s \in Managers, NEW w \in Surface \cup {NoWindow}
  PROVE  LET r == [s EXCEPT !.wm.prev_focused = w]
         IN  r \in Managers /\ r.core = s.core /\ Continues(s, r)
<1> DEFINE b == [s.wm EXCEPT !.prev_focused = w]
<1>1. s.wm \in Backends
  BY ManagerParts
<1>2. /\ b \in Backends /\ b.surfaces = s.wm.surfaces /\ b.pc = s.wm.pc /\ b.conn = s.wm.conn
      /\ b.overlay = s.wm.overlay /\ b.next_overlay = s.wm.next_overlay
      /\ b.dragging = s.wm.dragging
  BY <1>1 DEF Backends
<1>3. [s EXCEPT !.wm.prev_focused = w] = [s EXCEPT !.wm = b]
  BY ManagerParts
<1> HIDE DEF b
<1> QED
  BY <1>2, <1>3, BackendContinues

LEMMA FocusGiven ==
  ASSUME NEW s \in Managers, NEW e \in Effects(Surface)
  PROVE  LET r == focus_effect(s, e) IN r \in Managers /\ r.core = s.core /\ Continues(s, r)
<1> DEFINE w == e.window
           h == IF s.wm.prev_focused = w THEN s ELSE deactivate(s, s.wm.prev_focused)
           m == set("activated", w, TRUE)
           i == send(h, m)
           j == set_border(i, w, "focused")
           r == [j EXCEPT !.wm.prev_focused = w]
<1>1. w \in Surface \cup {NoWindow} /\ s.wm.prev_focused \in Surface \cup {NoWindow}
  BY ManagerParts DEF Effects
<1>2. focus_effect(s, e) = r
  BY DEF focus_effect
<1> HIDE DEF w
<1>3. h \in Managers /\ h.core = s.core /\ Continues(s, h)
  BY <1>1, Deactivated, ContinuesSelf
<1>4. m \in Wishes /\ m.type \notin {"intercepts", "grab"}
  BY <1>1, OtherWish
<1> HIDE DEF h, m
<1>5. i \in Managers /\ i.core = h.core /\ Continues(h, i)
  BY <1>3, <1>4, SendingOther
<1> HIDE DEF i
<1>6. j \in Managers /\ j.core = i.core /\ Continues(i, j)
  BY <1>1, <1>5, BorderSet
<1> HIDE DEF j
<1>7. r \in Managers /\ r.core = j.core /\ Continues(j, r)
  BY <1>1, <1>6, FocusNoted
<1> HIDE DEF r
<1>8. Continues(s, j)
  BY <1>3, <1>5, <1>6, ContinuesTwice
<1> QED
  BY <1>2, <1>3, <1>5, <1>6, <1>7, <1>8, ContinuesTwice

LEMMA PutIs ==
  ASSUME NEW D, NEW V, NEW f \in [D -> V], NEW x, NEW v \in V
  PROVE  /\ put(f, x, v) \in [D \cup {x} -> V] /\ put(f, x, v)[x] = v
         /\ \A y \in D : y # x => put(f, x, v)[y] = f[y]
BY DEF put

LEMMA Configures ==
  ASSUME NEW s \in Managers, NEW w \in DOMAIN s.core.window
  PROVE  LET r == configure(s, w) IN r \in Managers /\ r.core = s.core /\ Continues(s, r)
<1> DEFINE p == s.core.window[w].place
           m == set("configure", w, p)
           h == send(s, m)
           c == put(h.wm.configured, w, p)
           b == [h.wm EXCEPT !.configured = c]
           r == [h EXCEPT !.wm = b]
<1>1. w \in Surface /\ s.core.window[w] \in WindowStates
  BY ManagerParts, WindowParts
<1>2. p \in Places
  BY <1>1 DEF WindowStates
<1>3. configure(s, w) = [h EXCEPT !.wm.configured = c]
  BY Zenon DEF configure
<1> HIDE DEF p
<1>4. m \in Wishes /\ m.type \notin {"intercepts", "grab"}
  BY <1>1, <1>2, OtherWish
<1> HIDE DEF m
<1>5. h \in Managers /\ h.core = s.core /\ h.wm = s.wm /\ Continues(s, h)
  BY <1>4, SendingOther
<1> HIDE DEF h
<1>6. h.wm \in Backends
  BY <1>5, ManagerParts
<1>7. PICK D \in SUBSET Surface : h.wm.configured \in [D -> Places]
  BY <1>6 DEF Backends
<1>8. c \in [D \cup {w} -> Places] /\ D \cup {w} \in SUBSET Surface
  BY <1>1, <1>2, <1>7, PutIs
<1> HIDE DEF c
<1>9. /\ b \in Backends /\ b.surfaces = h.wm.surfaces /\ b.pc = h.wm.pc /\ b.conn = h.wm.conn
      /\ b.overlay = h.wm.overlay /\ b.next_overlay = h.wm.next_overlay
      /\ b.dragging = h.wm.dragging
  BY <1>6, <1>8 DEF Backends
<1>10. [h EXCEPT !.wm.configured = c] = r
  BY <1>5, ManagerParts
<1> HIDE DEF b
<1>11. r \in Managers /\ r.core = h.core /\ Continues(h, r)
  BY <1>5, <1>9, BackendContinues
<1> QED
  BY <1>3, <1>5, <1>10, <1>11, ContinuesTwice

LEMMA RendersEffect ==
  ASSUME NEW s \in Managers, NEW e \in Effects(Surface)
  PROVE  LET r == render_effect(s, e) IN r \in Managers /\ r.core = s.core /\ Continues(s, r)
<1> DEFINE w == e.window
<1>1. /\ w \in Surface \cup {NoWindow} /\ s.wm.prev_focused \in Surface \cup {NoWindow}
      /\ e.kind \in {"map", "unmap", "focus", "root", "raise", "lower"}
      /\ NoWindow \in Surface \cup {NoWindow}
  BY ManagerParts DEF Effects
<1> HIDE DEF w
<1>2. CASE e.kind = "map" /\ find_window_in_all(s.core, w)
  <2> DEFINE h == configure(s, w)
             m == set("visible", w, TRUE)
             i == send(h, m)
             r == set_border(i, w, "unfocused")
  <2>1. w \in DOMAIN s.core.window
    BY <1>2 DEF find_window_in_all
  <2>2. h \in Managers /\ h.core = s.core /\ Continues(s, h)
    BY <2>1, Configures
  <2> HIDE DEF h
  <2>3. m \in Wishes /\ m.type \notin {"intercepts", "grab"}
    BY <1>1, OtherWish
  <2> HIDE DEF m
  <2>4. i \in Managers /\ i.core = h.core /\ Continues(h, i)
    BY <2>2, <2>3, SendingOther
  <2> HIDE DEF i
  <2>5. r \in Managers /\ r.core = i.core /\ Continues(i, r)
    BY <1>1, <2>4, BorderSet
  <2>6. render_effect(s, e) = r
    BY <1>2 DEF render_effect, h, i, m, w
  <2> HIDE DEF r
  <2>7. Continues(s, i)
    BY <2>2, <2>4, ContinuesTwice
  <2> QED
    BY <2>2, <2>4, <2>5, <2>6, <2>7, ContinuesTwice
<1>3. CASE e.kind = "map" /\ ~ find_window_in_all(s.core, w)
  <2>1. render_effect(s, e) = s
    BY <1>3 DEF render_effect, w
  <2> QED
    BY <2>1, ContinuesSelf
<1>4. CASE e.kind = "unmap"
  <2> DEFINE m == set("visible", w, FALSE)
  <2>1. render_effect(s, e) = send(s, m)
    BY <1>4 DEF render_effect, w
  <2>2. m \in Wishes /\ m.type \notin {"intercepts", "grab"}
    BY <1>1, OtherWish
  <2> HIDE DEF m
  <2> QED
    BY <2>1, <2>2, SendingOther
<1>5. CASE e.kind = "focus"
  <2>1. render_effect(s, e) = focus_effect(s, e)
    BY <1>5 DEF render_effect
  <2> QED
    BY <2>1, FocusGiven
<1>6. CASE e.kind = "root"
  <2> DEFINE h == deactivate(s, s.wm.prev_focused)
             r == [h EXCEPT !.wm.prev_focused = NoWindow]
  <2>1. render_effect(s, e) = r
    BY <1>6 DEF render_effect
  <2>2. h \in Managers /\ h.core = s.core /\ Continues(s, h)
    BY <1>1, Deactivated
  <2> HIDE DEF h
  <2>3. r \in Managers /\ r.core = h.core /\ Continues(h, r)
    BY <1>1, <2>2, FocusNoted
  <2> QED
    BY <2>1, <2>2, <2>3, ContinuesTwice
<1>7. CASE e.kind \in {"raise", "lower"}
  <2> DEFINE m == set("stacking", w, e.kind = "raise")
  <2>1. render_effect(s, e) = send(s, m)
    BY <1>7 DEF render_effect, w
  <2>2. m \in Wishes /\ m.type \notin {"intercepts", "grab"}
    <3>1. (e.kind = "raise") \in BOOLEAN
      OBVIOUS
    <3> QED
      BY <1>1, <3>1, OtherWish
  <2> HIDE DEF m
  <2> QED
    BY <2>1, <2>2, SendingOther
<1> QED
  BY <1>1, <1>2, <1>3, <1>4, <1>5, <1>6, <1>7

Rendered(s, list) == FoldLeft(render_effect, s, list)

LEMMA EffectsRun ==
  ASSUME NEW s \in Managers, NEW list \in Seq(Effects(Surface))
  PROVE  \E g : /\ g \in [0 .. Len(list) -> Managers] /\ g[0] = s
               /\ \A i \in 1 .. Len(list) : g[i] = render_effect(g[i - 1], list[i])
               /\ Rendered(s, list) = g[Len(list)]
<1> DEFINE Q  == Managers
           N  == Len(list)
           F  == [p \in Q \X (1 .. N) |-> render_effect(p[1], list[p[2]])]
           it == CHOOSE it : it = [S \in SUBSET DOMAIN list |->
                   IF S = {} THEN s
                   ELSE render_effect(it[S \ {Max(S)}], list[Max(S)])]
           g  == [i \in 0 .. N |-> it[1 .. i]]
<1>1. Rendered(s, list) = it[DOMAIN list]
  BY DEF Rendered, FoldLeft, MapThenFoldSet
<1>2. N \in Nat /\ DOMAIN list = 1 .. N
  OBVIOUS
<1>3. s \in Q
  OBVIOUS
<1>4. ASSUME NEW q \in Q, NEW i \in 1 .. N PROVE render_effect(q, list[i]) \in Q
  <2>1. list[i] \in Effects(Surface)
    BY <1>2
  <2> QED
    BY <2>1, RendersEffect
<1> HIDE DEF Q
<1>5. IsStep(F, Q, N)
  BY <1>2, <1>4 DEF IsStep
<1>6. it = [S \in SUBSET DOMAIN list |->
              IF S = {} THEN s
              ELSE render_effect(it[S \ {Max(S)}], list[Max(S)])]
  <2>1. PICK f : IsFold(f, s, F, Q, N)
    <3> HIDE DEF F
    <3> QED
      BY <1>2, <1>3, <1>5, FoldExists
  <2>2. /\ f \in [SUBSET (1 .. N) -> Q]
        /\ \A S \in SUBSET (1 .. N) :
             f[S] = IF S = {} THEN s ELSE F[<<f[S \ {Max(S)}], Max(S)>>]
    BY <2>1 DEF IsFold
  <2>3. \A S \in SUBSET (1 .. N) : S # {} => Max(S) \in 1 .. N
    BY <1>2, MaxIn
  <2>4. f = [S \in SUBSET DOMAIN list |->
               IF S = {} THEN s
               ELSE render_effect(f[S \ {Max(S)}], list[Max(S)])]
    BY <1>2, <2>2, <2>3
  <2> QED
    BY <2>4
<1> HIDE DEF it
<1>7. it[1 .. 0] = s
  <2>1. 1 .. 0 = {}
    OBVIOUS
  <2> QED
    BY <1>6, <2>1
<1>8. ASSUME NEW i \in 1 .. N PROVE it[1 .. i] = render_effect(it[1 .. (i - 1)], list[i])
  <2>0. i \in Nat \ {0}
    BY <1>2
  <2>1. Max(1 .. i) = i /\ (1 .. i) \ {i} = 1 .. (i - 1) /\ 1 .. i # {}
    BY <2>0, Prefix
  <2>2. 1 .. i \in SUBSET DOMAIN list
    BY <1>2
  <2> QED
    BY <1>6, <2>1, <2>2
<1>9. \A i \in 0 .. N : it[1 .. i] \in Q
  <2> DEFINE S == {i \in 0 .. N : it[1 .. i] \in Q}
  <2>1. 0 \in S
    BY <1>2, <1>3, <1>7
  <2>2. ASSUME NEW i \in 1 .. N, i - 1 \in S PROVE i \in S
    BY <1>2, <1>4, <1>8, <2>2
  <2> HIDE DEF S
  <2>3. \A i \in 0 .. N : i \in S
    BY <1>2, <2>1, <2>2, Climb
  <2> QED
    BY <2>3 DEF S
<1>10. g \in [0 .. N -> Q] /\ g[0] = s /\ Rendered(s, list) = g[N]
  BY <1>1, <1>2, <1>7, <1>9
<1>11. \A i \in 1 .. N : g[i] = render_effect(g[i - 1], list[i])
  <2>1. ASSUME NEW i \in 1 .. N PROVE i \in 0 .. N /\ i - 1 \in 0 .. N
    BY <1>2
  <2> QED
    BY <1>8, <2>1
<1> HIDE DEF g
<1> QED
  BY <1>10, <1>11 DEF Q

LEMMA EffectsRendered ==
  ASSUME NEW s \in Managers, NEW list \in Seq(Effects(Surface))
  PROVE  LET r == Rendered(s, list)
         IN  r \in Managers /\ r.core = s.core /\ Continues(s, r)
<1> DEFINE N == Len(list)
<1>1. N \in Nat /\ DOMAIN list = 1 .. N
  OBVIOUS
<1>2. PICK g : /\ g \in [0 .. N -> Managers] /\ g[0] = s
               /\ \A i \in 1 .. N : g[i] = render_effect(g[i - 1], list[i])
               /\ Rendered(s, list) = g[N]
  BY EffectsRun
<1> DEFINE S == {i \in 0 .. N : g[i].core = s.core /\ Continues(s, g[i])}
<1>3. 0 \in S
  BY <1>1, <1>2, ContinuesSelf
<1>4. ASSUME NEW i \in 1 .. N, i - 1 \in S PROVE i \in S
  <2>1. g[i - 1] \in Managers /\ g[i - 1].core = s.core /\ Continues(s, g[i - 1])
    BY <1>1, <1>2, <1>4
  <2>2. list[i] \in Effects(Surface)
    BY <1>1
  <2>3. g[i].core = g[i - 1].core /\ Continues(g[i - 1], g[i])
    BY <1>2, <2>1, <2>2, RendersEffect
  <2>4. Continues(s, g[i])
    BY <2>1, <2>3, ContinuesTwice
  <2> QED
    BY <1>1, <2>1, <2>3, <2>4
<1> HIDE DEF S, N
<1>5. N \in S
  <2>1. \A i \in 0 .. N : i \in S
    BY <1>1, <1>3, <1>4, Climb, Zenon
  <2> QED
    BY <1>1, <2>1
<1> QED
  BY <1>1, <1>2, <1>5 DEF S

LEMMA Flushes ==
  ASSUME NEW s \in Managers, NEW w \in DOMAIN s.core.window
  PROVE  LET r == flush_window(s, w) IN r \in Managers /\ r.core = s.core /\ Continues(s, r)
<1> DEFINE h == configure(s, w)
           border == IF w = s.wm.prev_focused THEN "focused" ELSE "unfocused"
           r == set_border(h, w, border)
<1>1. h \in Managers /\ h.core = s.core /\ Continues(s, h)
  BY Configures
<1>2. flush_window(s, w) = s \/ flush_window(s, w) = r
  BY DEF flush_window
<1>3. w \in Surface \cup {NoWindow} /\ border \in {"focused", "unfocused"}
  BY ManagerParts
<1> HIDE DEF h, border
<1>4. r \in Managers /\ r.core = h.core /\ Continues(h, r)
  BY <1>1, <1>3, BorderSet
<1> HIDE DEF r
<1> QED
  BY <1>1, <1>2, <1>4, ContinuesSelf, ContinuesTwice

Of(k) == {s \in Managers : s.core = k}

Flushed(s, list) == FoldLeft(flush_window, s, list)

LEMMA FlushRun ==
  ASSUME NEW k, NEW s \in Of(k), NEW list \in Seq(DOMAIN k.window)
  PROVE  \E g : /\ g \in [0 .. Len(list) -> Of(k)] /\ g[0] = s
               /\ \A i \in 1 .. Len(list) : g[i] = flush_window(g[i - 1], list[i])
               /\ Flushed(s, list) = g[Len(list)]
<1> DEFINE Q  == Of(k)
           N  == Len(list)
           F  == [p \in Q \X (1 .. N) |-> flush_window(p[1], list[p[2]])]
           it == CHOOSE it : it = [S \in SUBSET DOMAIN list |->
                   IF S = {} THEN s
                   ELSE flush_window(it[S \ {Max(S)}], list[Max(S)])]
           g  == [i \in 0 .. N |-> it[1 .. i]]
<1>1. Flushed(s, list) = it[DOMAIN list]
  BY DEF Flushed, FoldLeft, MapThenFoldSet
<1>2. N \in Nat /\ DOMAIN list = 1 .. N
  OBVIOUS
<1>3. s \in Q
  OBVIOUS
<1>4. ASSUME NEW q \in Q, NEW i \in 1 .. N PROVE flush_window(q, list[i]) \in Q
  <2>1. q \in Managers /\ q.core = k /\ list[i] \in DOMAIN k.window
    BY <1>2 DEF Of
  <2>2. flush_window(q, list[i]) \in Managers /\ flush_window(q, list[i]).core = q.core
    BY <2>1, Flushes
  <2> QED
    BY <2>1, <2>2 DEF Of
<1> HIDE DEF Q
<1>5. IsStep(F, Q, N)
  BY <1>2, <1>4 DEF IsStep
<1>6. it = [S \in SUBSET DOMAIN list |->
              IF S = {} THEN s
              ELSE flush_window(it[S \ {Max(S)}], list[Max(S)])]
  <2>1. PICK f : IsFold(f, s, F, Q, N)
    <3> HIDE DEF F
    <3> QED
      BY <1>2, <1>3, <1>5, FoldExists
  <2>2. /\ f \in [SUBSET (1 .. N) -> Q]
        /\ \A S \in SUBSET (1 .. N) :
             f[S] = IF S = {} THEN s ELSE F[<<f[S \ {Max(S)}], Max(S)>>]
    BY <2>1 DEF IsFold
  <2>3. \A S \in SUBSET (1 .. N) : S # {} => Max(S) \in 1 .. N
    BY <1>2, MaxIn
  <2>4. f = [S \in SUBSET DOMAIN list |->
               IF S = {} THEN s
               ELSE flush_window(f[S \ {Max(S)}], list[Max(S)])]
    BY <1>2, <2>2, <2>3
  <2> QED
    BY <2>4
<1> HIDE DEF it
<1>7. it[1 .. 0] = s
  <2>1. 1 .. 0 = {}
    OBVIOUS
  <2> QED
    BY <1>6, <2>1
<1>8. ASSUME NEW i \in 1 .. N PROVE it[1 .. i] = flush_window(it[1 .. (i - 1)], list[i])
  <2>0. i \in Nat \ {0}
    BY <1>2
  <2>1. Max(1 .. i) = i /\ (1 .. i) \ {i} = 1 .. (i - 1) /\ 1 .. i # {}
    BY <2>0, Prefix
  <2>2. 1 .. i \in SUBSET DOMAIN list
    BY <1>2
  <2> QED
    BY <1>6, <2>1, <2>2
<1>9. \A i \in 0 .. N : it[1 .. i] \in Q
  <2> DEFINE S == {i \in 0 .. N : it[1 .. i] \in Q}
  <2>1. 0 \in S
    BY <1>2, <1>3, <1>7
  <2>2. ASSUME NEW i \in 1 .. N, i - 1 \in S PROVE i \in S
    BY <1>2, <1>4, <1>8, <2>2
  <2> HIDE DEF S
  <2>3. \A i \in 0 .. N : i \in S
    BY <1>2, <2>1, <2>2, Climb
  <2> QED
    BY <2>3 DEF S
<1>10. g \in [0 .. N -> Q] /\ g[0] = s /\ Flushed(s, list) = g[N]
  BY <1>1, <1>2, <1>7, <1>9
<1>11. \A i \in 1 .. N : g[i] = flush_window(g[i - 1], list[i])
  <2>1. ASSUME NEW i \in 1 .. N PROVE i \in 0 .. N /\ i - 1 \in 0 .. N
    BY <1>2
  <2> QED
    BY <1>8, <2>1
<1> HIDE DEF g
<1> QED
  BY <1>10, <1>11 DEF Q

LEMMA AllFlushed ==
  ASSUME NEW s \in Managers, NEW list \in Seq(DOMAIN s.core.window)
  PROVE  LET r == Flushed(s, list)
         IN  r \in Managers /\ r.core = s.core /\ Continues(s, r)
<1> DEFINE N == Len(list)
           k == s.core
<1>1. N \in Nat /\ DOMAIN list = 1 .. N
  OBVIOUS
<1>2. s \in Of(k) /\ list \in Seq(DOMAIN k.window)
  BY DEF Of
<1> HIDE DEF k
<1>3. PICK g : /\ g \in [0 .. N -> Of(k)] /\ g[0] = s
               /\ \A i \in 1 .. N : g[i] = flush_window(g[i - 1], list[i])
               /\ Flushed(s, list) = g[N]
  BY <1>2, FlushRun
<1> DEFINE S == {i \in 0 .. N : Continues(s, g[i])}
<1>4. 0 \in S
  BY <1>1, <1>3, ContinuesSelf
<1>5. ASSUME NEW i \in 1 .. N, i - 1 \in S PROVE i \in S
  <2>1. g[i - 1] \in Of(k) /\ Continues(s, g[i - 1])
    BY <1>1, <1>3, <1>5
  <2>2. g[i - 1] \in Managers /\ list[i] \in DOMAIN g[i - 1].core.window
    BY <1>1, <1>2, <2>1 DEF Of
  <2>3. Continues(g[i - 1], g[i])
    BY <1>3, <2>2, Flushes
  <2>4. Continues(s, g[i])
    BY <2>1, <2>3, ContinuesTwice
  <2> QED
    BY <1>1, <2>4
<1> HIDE DEF S, N
<1>6. N \in S
  <2>1. \A i \in 0 .. N : i \in S
    BY <1>1, <1>4, <1>5, Climb, Zenon
  <2> QED
    BY <1>1, <2>1
<1>7. g[N] \in Of(k) /\ Continues(s, g[N])
  BY <1>1, <1>3, <1>6 DEF S
<1> QED
  BY <1>3, <1>7 DEF Of, k

\* A frame: the effects are gone, Core is otherwise as it was.
LEMMA FrameRendered ==
  ASSUME NEW s \in Managers
  PROVE  LET r == render_frame(s)
         IN  r \in Managers /\ Continues(s, r) /\ r.core.effects = <<>>
<1> DEFINE k == [s.core EXCEPT !.effects = <<>>]
           h == [s EXCEPT !.core = k]
           list == s.core.effects
           a == Rendered(h, list)
           order == SetToSeq(DOMAIN a.core.window)
           f == Flushed(a, order)
           b == [f.wm EXCEPT !.astray = f.wm.astray /\ f.wm.prev_focused = NoWindow]
           r == [f EXCEPT !.wm = b]
<1>1. s.core \in Cores(Surface) /\ list \in Seq(Effects(Surface)) /\ s.core \in CoreFields(Surface)
  BY ManagerParts, CoreParts
<1>2. k \in Cores(Surface) /\ Alike(s.core, k) /\ k.effects = <<>>
  <2>1. <<>> \in Seq(Effects(Surface))
    OBVIOUS
  <2> QED
    BY <1>1, <2>1, NewEffects DEF CoreFields
<1>3. render_frame(s) = [f EXCEPT !.wm.astray = @ /\ f.wm.prev_focused = NoWindow]
  <2>1. [s EXCEPT !.core.effects = <<>>] = h
    BY <1>1, ManagerParts DEF CoreFields
  <2> QED
    BY <2>1, Zenon DEF render_frame, Rendered, Flushed
<1> HIDE DEF k, list
<1>4. h \in Managers /\ h.core = k /\ h.wm = s.wm /\ h.out = s.out
  BY <1>2, CoreIs DEF Alike
<1> HIDE DEF h
<1>5. Continues(s, h)
  BY <1>2, <1>4 DEF Continues, Says, Alike
<1>6. a \in Managers /\ a.core = h.core /\ Continues(h, a)
  BY <1>1, <1>4, EffectsRendered
<1> HIDE DEF a
<1>7. order \in Seq(DOMAIN a.core.window)
  <2>1. IsFiniteSet(DOMAIN a.core.window)
    BY <1>6, ManagerParts, SurfacesFinite
  <2> QED
    BY <2>1, SetAsList
<1> HIDE DEF order
<1>8. f \in Managers /\ f.core = a.core /\ Continues(a, f)
  BY <1>6, <1>7, AllFlushed
<1> HIDE DEF f
<1>9. f.wm \in Backends
  BY <1>8, ManagerParts
<1>10. [f EXCEPT !.wm.astray = @ /\ f.wm.prev_focused = NoWindow] = r
  BY <1>8, ManagerParts
<1>11. /\ b \in Backends /\ b.surfaces = f.wm.surfaces /\ b.pc = f.wm.pc /\ b.conn = f.wm.conn
       /\ b.overlay = f.wm.overlay /\ b.next_overlay = f.wm.next_overlay
       /\ b.dragging = f.wm.dragging
  BY <1>9 DEF Backends
<1> HIDE DEF b
<1>12. r \in Managers /\ r.core = f.core /\ Continues(f, r)
  BY <1>8, <1>11, BackendContinues
<1> HIDE DEF r
<1>13. Continues(s, a)
  BY <1>5, <1>6, ContinuesTwice
<1>14. Continues(s, f)
  BY <1>8, <1>13, ContinuesTwice
<1>15. Continues(s, r)
  BY <1>12, <1>14, ContinuesTwice
<1>16. r.core.effects = <<>>
  BY <1>2, <1>4, <1>6, <1>8, <1>12
<1> QED
  BY <1>3, <1>10, <1>12, <1>15, <1>16

\* The same connection, bar and drag, and nothing said.
Silent(s, r) ==
  /\ r.out = s.out /\ r.wm.pc = s.wm.pc /\ r.wm.conn = s.wm.conn
  /\ r.wm.overlay = s.wm.overlay /\ r.wm.next_overlay = s.wm.next_overlay
  /\ r.wm.dragging = s.wm.dragging

Mirror(S) ==
  [known |-> DOMAIN S, mapped |-> {id \in DOMAIN S : S[id].mapped},
   sized |-> {id \in DOMAIN S : S[id].sized}]

\* What is managed, and what should be once the backend is started.
Managed(s) == {id \in DOMAIN s.wm.surfaces : s.wm.surfaces[id].managed}
Ripe(s)    == {id \in DOMAIN s.wm.surfaces : s.wm.surfaces[id].mapped /\ s.wm.surfaces[id].sized}

\* The surfaces become S.
LEMMA SurfacesAre ==
  ASSUME NEW s \in Managers, NEW D \in SUBSET Surface, NEW S \in [D -> SurfaceRecords],
         \A id \in D : S[id].managed => id \in DOMAIN s.core.window
  PROVE  LET r == [s EXCEPT !.wm.surfaces = S]
         IN  r \in Managers /\ r.core = s.core /\ r.wm.surfaces = S /\ Silent(s, r)
<1> DEFINE b == [s.wm EXCEPT !.surfaces = S]
           r == [core |-> s.core, wm |-> b, out |-> s.out]
<1>1. s.wm \in Backends
  BY ManagerParts
<1>2. /\ b \in Backends /\ b.surfaces = S /\ b.pc = s.wm.pc /\ b.conn = s.wm.conn
      /\ b.overlay = s.wm.overlay /\ b.next_overlay = s.wm.next_overlay
      /\ b.dragging = s.wm.dragging
  BY <1>1 DEF Backends
<1>3. [s EXCEPT !.wm.surfaces = S] = r
  BY ManagerParts
<1> HIDE DEF b
<1>4. r \in Managers
  BY <1>2, ManagerParts, NewManagerState
<1> QED
  BY <1>2, <1>3, <1>4 DEF Silent

LEMMA ShownFocused ==
  ASSUME NEW k \in Cores(Surface), NEW w
  PROVE  /\ focus_if_shown(k, w) \in Cores(Surface) /\ Alike(k, focus_if_shown(k, w))
         /\ focus_visible(k, w) \in Cores(Surface) /\ Alike(k, focus_visible(k, w))
         /\ invoke_rules(k, w) \in Cores(Surface) /\ Alike(k, invoke_rules(k, w))
<1>1. FocusWindow(k, w) \in Cores(Surface) /\ Alike(k, FocusWindow(k, w)) /\ Alike(k, k)
  BY FocusWindowKeeps DEF Alike
<1>2. /\ MoveWindowToWorkspace(k, w, Rule[w]) \in Cores(Surface)
      /\ Alike(k, MoveWindowToWorkspace(k, w, Rule[w]))
  BY MoveKeeps
<1>3. focus_if_shown(k, w) = k \/ focus_if_shown(k, w) = FocusWindow(k, w)
  BY DEF focus_if_shown
<1>4. focus_visible(k, w) = k \/ focus_visible(k, w) = FocusWindow(k, w)
  BY DEF focus_visible
<1>5. invoke_rules(k, w) = k \/ invoke_rules(k, w) = MoveWindowToWorkspace(k, w, Rule[w])
  BY DEF invoke_rules
<1> QED
  BY <1>1, <1>2, <1>3, <1>4, <1>5

\* What manage_surface makes of Core.
LEMMA ManagesWindow ==
  ASSUME NEW k \in Cores(Surface), NEW id \in Surface
  PROVE  LET j == focus_if_shown(reconcile(MapWindow(
                    invoke_rules(EnsureWindow(k, id, 0), id), id)), id)
         IN  j \in Cores(Surface) /\ DOMAIN j.window = DOMAIN k.window \cup {id}
<1> DEFINE k1 == EnsureWindow(k, id, 0)
           k2 == invoke_rules(k1, id)
           k3 == MapWindow(k2, id)
           k4 == reconcile(k3)
           k5 == focus_if_shown(k4, id)
<1>1. k1 \in Cores(Surface) /\ DOMAIN k1.window = DOMAIN k.window \cup {id}
  BY EnsureKeeps
<1> HIDE DEF k1
<1>2. k2 \in Cores(Surface) /\ DOMAIN k2.window = DOMAIN k1.window
  BY <1>1, ShownFocused DEF Alike
<1> HIDE DEF k2
<1>3. k3 \in Cores(Surface) /\ DOMAIN k3.window = DOMAIN k2.window
  BY <1>1, <1>2, MapKeeps DEF Alike
<1> HIDE DEF k3
<1>4. k4 \in Cores(Surface) /\ DOMAIN k4.window = DOMAIN k3.window
  BY <1>3, Reconciles DEF Alike
<1> HIDE DEF k4
<1>5. k5 \in Cores(Surface) /\ DOMAIN k5.window = DOMAIN k4.window
  BY <1>4, ShownFocused DEF Alike
<1> HIDE DEF k5
<1>6. k5 \in Cores(Surface) /\ DOMAIN k5.window = DOMAIN k.window \cup {id}
  BY <1>1, <1>2, <1>3, <1>4, <1>5
<1> QED
  BY <1>6 DEF k5, k4, k3, k2, k1

LEMMA ManagesSurface ==
  ASSUME NEW s \in Managers, NEW id \in DOMAIN s.wm.surfaces
  PROVE  LET r == manage_surface(s, id)
         IN  /\ r \in Managers /\ Silent(s, r)
             /\ DOMAIN r.core.window = DOMAIN s.core.window \cup {id}
             /\ Mirror(r.wm.surfaces) = Mirror(s.wm.surfaces)
             /\ Managed(r) = Managed(s) \cup {id}
             /\ DOMAIN r.wm.surfaces = DOMAIN s.wm.surfaces
<1> DEFINE D == DOMAIN s.wm.surfaces
           j == focus_if_shown(reconcile(MapWindow(
                  invoke_rules(EnsureWindow(s.core, id, 0), id), id)), id)
           S == [s.wm.surfaces EXCEPT ![id].managed = TRUE]
           h == [s EXCEPT !.core = j]
           r == [h EXCEPT !.wm.surfaces = S]
<1>1. /\ s.core \in Cores(Surface) /\ D \in SUBSET Surface /\ id \in Surface
      /\ s.wm.surfaces \in [D -> SurfaceRecords] /\ Held(s)
  BY ManagerParts
<1>2. j \in Cores(Surface) /\ DOMAIN j.window = DOMAIN s.core.window \cup {id}
  BY <1>1, ManagesWindow
<1>3. manage_surface(s, id) = [s EXCEPT !.wm.surfaces[id].managed = TRUE, !.core = j]
  BY DEF manage_surface
<1> HIDE DEF j
<1>4. [s EXCEPT !.wm.surfaces[id].managed = TRUE, !.core = j] = r
  <2>1. s = [core |-> s.core, wm |-> s.wm, out |-> s.out] /\ s.wm \in Backends
    BY ManagerParts
  <2> QED
    BY <2>1 DEF Backends
<1>5. h \in Managers /\ h.core = j /\ h.wm = s.wm /\ h.out = s.out
  BY <1>2, CoreIs
<1> HIDE DEF h
<1>6. /\ S \in [D -> SurfaceRecords] /\ S[id].managed
      /\ \A i \in D : /\ S[i].mapped = s.wm.surfaces[i].mapped
                      /\ S[i].sized = s.wm.surfaces[i].sized
                      /\ i # id => S[i] = s.wm.surfaces[i]
  BY <1>1 DEF SurfaceRecords
<1> HIDE DEF S
<1>7. \A i \in D : S[i].managed => i \in DOMAIN h.core.window
  BY <1>1, <1>2, <1>5, <1>6 DEF Held
<1>8. r \in Managers /\ r.core = h.core /\ r.wm.surfaces = S /\ Silent(h, r)
  BY <1>1, <1>5, <1>6, <1>7, SurfacesAre
<1> HIDE DEF r
<1>9. Silent(s, r) /\ DOMAIN r.core.window = DOMAIN s.core.window \cup {id}
  BY <1>2, <1>5, <1>8 DEF Silent
<1>10. DOMAIN S = D
  BY <1>6
<1>11. Mirror(S) = Mirror(s.wm.surfaces)
  BY <1>6, <1>10 DEF Mirror
<1>12. Managed(r) = Managed(s) \cup {id}
  BY <1>6, <1>8, <1>10 DEF Managed
<1> QED
  BY <1>3, <1>4, <1>8, <1>9, <1>10, <1>11, <1>12

\* What on_start and a message about id may add to what is managed.
Due(s, id) == IF s.wm.pc = "run" THEN {id} \cap Ripe(s) ELSE {}

LEMMA ManagesIfReady ==
  ASSUME NEW s \in Managers, NEW id \in DOMAIN s.wm.surfaces
  PROVE  LET r == manage_if_ready(s, id)
         IN  /\ r \in Managers /\ Silent(s, r)
             /\ DOMAIN r.core.window = DOMAIN s.core.window \cup Due(s, id)
             /\ Mirror(r.wm.surfaces) = Mirror(s.wm.surfaces)
             /\ Managed(r) = Managed(s) \cup Due(s, id)
             /\ DOMAIN r.wm.surfaces = DOMAIN s.wm.surfaces
<1>1. Managed(s) \subseteq DOMAIN s.core.window
  BY ManagerParts DEF Held, Managed
<1>2. s.wm.surfaces[id] \in SurfaceRecords
  BY ManagerParts
<1>3. CASE manageable(s, id)
  <2>1. Due(s, id) = {id}
    BY <1>3 DEF manageable, Due, Ripe
  <2>2. manage_if_ready(s, id) = manage_surface(s, id)
    BY <1>3 DEF manage_if_ready
  <2> QED
    BY <2>1, <2>2, ManagesSurface
<1>4. CASE ~ manageable(s, id)
  <2>1. Due(s, id) \subseteq Managed(s)
    BY <1>2, <1>4 DEF manageable, Due, Ripe, Managed
  <2>2. manage_if_ready(s, id) = s
    BY <1>4 DEF manage_if_ready
  <2>3. Managed(s) \cup Due(s, id) = Managed(s)
        /\ DOMAIN s.core.window \cup Due(s, id) = DOMAIN s.core.window
    BY <1>1, <2>1
  <2> QED
    BY <2>2, <2>3 DEF Silent
<1> QED
  BY <1>3, <1>4

\* Every window that is mapped and has a size is managed by on_start.
Over(D) == {s \in Managers : DOMAIN s.wm.surfaces = D}

Taken_up(s, list) == FoldLeft(manage_if_ready, s, list)

LEMMA ManageRun ==
  ASSUME NEW D, NEW s \in Over(D), NEW list \in Seq(D)
  PROVE  \E g : /\ g \in [0 .. Len(list) -> Over(D)] /\ g[0] = s
               /\ \A i \in 1 .. Len(list) : g[i] = manage_if_ready(g[i - 1], list[i])
               /\ Taken_up(s, list) = g[Len(list)]
<1> DEFINE Q  == Over(D)
           N  == Len(list)
           F  == [p \in Q \X (1 .. N) |-> manage_if_ready(p[1], list[p[2]])]
           it == CHOOSE it : it = [S \in SUBSET DOMAIN list |->
                   IF S = {} THEN s
                   ELSE manage_if_ready(it[S \ {Max(S)}], list[Max(S)])]
           g  == [i \in 0 .. N |-> it[1 .. i]]
<1>1. Taken_up(s, list) = it[DOMAIN list]
  BY DEF Taken_up, FoldLeft, MapThenFoldSet
<1>2. N \in Nat /\ DOMAIN list = 1 .. N
  OBVIOUS
<1>3. s \in Q
  OBVIOUS
<1>4. ASSUME NEW q \in Q, NEW i \in 1 .. N PROVE manage_if_ready(q, list[i]) \in Q
  <2>1. q \in Managers /\ list[i] \in DOMAIN q.wm.surfaces /\ DOMAIN q.wm.surfaces = D
    BY <1>2 DEF Over
  <2>2. /\ manage_if_ready(q, list[i]) \in Managers
        /\ DOMAIN manage_if_ready(q, list[i]).wm.surfaces = DOMAIN q.wm.surfaces
    BY <2>1, ManagesIfReady
  <2> QED
    BY <2>1, <2>2 DEF Over
<1> HIDE DEF Q
<1>5. IsStep(F, Q, N)
  BY <1>2, <1>4 DEF IsStep
<1>6. it = [S \in SUBSET DOMAIN list |->
              IF S = {} THEN s
              ELSE manage_if_ready(it[S \ {Max(S)}], list[Max(S)])]
  <2>1. PICK f : IsFold(f, s, F, Q, N)
    <3> HIDE DEF F
    <3> QED
      BY <1>2, <1>3, <1>5, FoldExists
  <2>2. /\ f \in [SUBSET (1 .. N) -> Q]
        /\ \A S \in SUBSET (1 .. N) :
             f[S] = IF S = {} THEN s ELSE F[<<f[S \ {Max(S)}], Max(S)>>]
    BY <2>1 DEF IsFold
  <2>3. \A S \in SUBSET (1 .. N) : S # {} => Max(S) \in 1 .. N
    BY <1>2, MaxIn
  <2>4. f = [S \in SUBSET DOMAIN list |->
               IF S = {} THEN s
               ELSE manage_if_ready(f[S \ {Max(S)}], list[Max(S)])]
    BY <1>2, <2>2, <2>3
  <2> QED
    BY <2>4
<1> HIDE DEF it
<1>7. it[1 .. 0] = s
  <2>1. 1 .. 0 = {}
    OBVIOUS
  <2> QED
    BY <1>6, <2>1
<1>8. ASSUME NEW i \in 1 .. N PROVE it[1 .. i] = manage_if_ready(it[1 .. (i - 1)], list[i])
  <2>0. i \in Nat \ {0}
    BY <1>2
  <2>1. Max(1 .. i) = i /\ (1 .. i) \ {i} = 1 .. (i - 1) /\ 1 .. i # {}
    BY <2>0, Prefix
  <2>2. 1 .. i \in SUBSET DOMAIN list
    BY <1>2
  <2> QED
    BY <1>6, <2>1, <2>2
<1>9. \A i \in 0 .. N : it[1 .. i] \in Q
  <2> DEFINE S == {i \in 0 .. N : it[1 .. i] \in Q}
  <2>1. 0 \in S
    BY <1>2, <1>3, <1>7
  <2>2. ASSUME NEW i \in 1 .. N, i - 1 \in S PROVE i \in S
    BY <1>2, <1>4, <1>8, <2>2
  <2> HIDE DEF S
  <2>3. \A i \in 0 .. N : i \in S
    BY <1>2, <2>1, <2>2, Climb
  <2> QED
    BY <2>3 DEF S
<1>10. g \in [0 .. N -> Q] /\ g[0] = s /\ Taken_up(s, list) = g[N]
  BY <1>1, <1>2, <1>7, <1>9
<1>11. \A i \in 1 .. N : g[i] = manage_if_ready(g[i - 1], list[i])
  <2>1. ASSUME NEW i \in 1 .. N PROVE i \in 0 .. N /\ i - 1 \in 0 .. N
    BY <1>2
  <2> QED
    BY <1>8, <2>1
<1> HIDE DEF g
<1> QED
  BY <1>10, <1>11 DEF Q

\* What is ripe can be seen in the mirror.
LEMMA RipeIs ==
  ASSUME NEW s, NEW r, Mirror(r.wm.surfaces) = Mirror(s.wm.surfaces)
  PROVE  Ripe(r) = Ripe(s) /\ DOMAIN r.wm.surfaces = DOMAIN s.wm.surfaces
<1>1. \A t : /\ Ripe(t) = Mirror(t.wm.surfaces).mapped \cap Mirror(t.wm.surfaces).sized
             /\ DOMAIN t.wm.surfaces = Mirror(t.wm.surfaces).known
  BY DEF Ripe, Mirror
<1> QED
  BY <1>1, Zenon

LEMMA AllManaged ==
  ASSUME NEW s \in Managers, s.wm.pc = "run", Managed(s) = {}, DOMAIN s.core.window = {},
         NEW list \in Seq(DOMAIN s.wm.surfaces), Range(list) = DOMAIN s.wm.surfaces
  PROVE  LET r == Taken_up(s, list)
         IN  /\ r \in Managers /\ Silent(s, r)
             /\ Mirror(r.wm.surfaces) = Mirror(s.wm.surfaces)
             /\ DOMAIN r.core.window = Ripe(s) /\ Managed(r) = Ripe(s)
<1> DEFINE N == Len(list)
           D == DOMAIN s.wm.surfaces
<1>1. N \in Nat /\ DOMAIN list = 1 .. N
  OBVIOUS
<1>2. s \in Over(D) /\ list \in Seq(D)
  BY DEF Over
<1>3. PICK g : /\ g \in [0 .. N -> Over(D)] /\ g[0] = s
               /\ \A i \in 1 .. N : g[i] = manage_if_ready(g[i - 1], list[i])
               /\ Taken_up(s, list) = g[N]
  BY <1>2, ManageRun
<1> DEFINE done(i) == {list[j] : j \in 1 .. i} \cap Ripe(s)
           S == {i \in 0 .. N :
                   /\ Silent(s, g[i]) /\ Mirror(g[i].wm.surfaces) = Mirror(s.wm.surfaces)
                   /\ DOMAIN g[i].core.window = done(i) /\ Managed(g[i]) = done(i)}
<1>4. 0 \in S
  <2>1. done(0) = {}
    OBVIOUS
  <2> QED
    BY <1>1, <1>3, <2>1 DEF Silent
<1>5. ASSUME NEW i \in 1 .. N, i - 1 \in S PROVE i \in S
  <2>1. /\ g[i - 1] \in Over(D) /\ Silent(s, g[i - 1])
        /\ Mirror(g[i - 1].wm.surfaces) = Mirror(s.wm.surfaces)
        /\ DOMAIN g[i - 1].core.window = done(i - 1) /\ Managed(g[i - 1]) = done(i - 1)
    BY <1>1, <1>3, <1>5
  <2>2. g[i - 1] \in Managers /\ list[i] \in DOMAIN g[i - 1].wm.surfaces
    BY <1>1, <1>2, <2>1 DEF Over
  <2>3. Ripe(g[i - 1]) = Ripe(s)
    BY <2>1, RipeIs
  <2>4. Due(g[i - 1], list[i]) = {list[i]} \cap Ripe(s)
    BY <2>1, <2>3 DEF Due, Silent
  <2>5. done(i) = done(i - 1) \cup ({list[i]} \cap Ripe(s))
    BY <1>1
  <2> HIDE DEF done
  <2>6. /\ Silent(g[i - 1], g[i]) /\ Mirror(g[i].wm.surfaces) = Mirror(g[i - 1].wm.surfaces)
        /\ DOMAIN g[i].core.window = done(i) /\ Managed(g[i]) = done(i)
    BY <1>3, <2>1, <2>2, <2>4, <2>5, ManagesIfReady
  <2>7. Silent(s, g[i])
    BY <2>1, <2>6 DEF Silent
  <2> QED
    BY <1>1, <2>1, <2>6, <2>7
<1>6. done(N) = Ripe(s)
  <2>1. Ripe(s) \subseteq D /\ Range(list) = {list[j] : j \in 1 .. N}
    BY <1>1 DEF Ripe, Range
  <2> QED
    BY <2>1
<1> HIDE DEF S, N, done
<1>7. N \in S
  <2>1. \A i \in 0 .. N : i \in S
    BY <1>1, <1>4, <1>5, Climb, Zenon
  <2> QED
    BY <1>1, <2>1
<1>8. g[N] \in Managers
  BY <1>1, <1>3 DEF Over
<1> QED
  BY <1>3, <1>6, <1>7, <1>8 DEF S

LEMMA RefocusKeeps ==
  ASSUME NEW k \in Cores(Surface), NEW was
  PROVE  LET j == refocus_after(k, was) IN j \in Cores(Surface) /\ Alike(k, j)
<1> DEFINE next == Workspace_focused(k, k.workspaces[current_ws(k)])
<1>1. FocusWindow(k, next) \in Cores(Surface) /\ Alike(k, FocusWindow(k, next)) /\ Alike(k, k)
  BY FocusWindowKeeps DEF Alike
<1>2. FocusStep(k, 1) \in Cores(Surface) /\ Alike(k, FocusStep(k, 1))
  BY StepKeeps
<1>3. refocus_after(k, was) \in {k, FocusWindow(k, next), FocusStep(k, 1)}
  BY DEF refocus_after
<1> QED
  BY <1>1, <1>2, <1>3

LEMMA DestroyedKeeps ==
  ASSUME NEW k \in Cores(Surface), NEW w \in DOMAIN k.window
  PROVE  LET j == destroyed_core(k, w)
         IN  j \in Cores(Surface) /\ DOMAIN j.window = DOMAIN k.window \ {w}
<1> DEFINE next == RemoveWindowFromAllWorkspaces(k, w)
           was  == Workspace_focused(k, k.workspaces[current_ws(k)]) = w
           kept == reconcile(next)
           last == refocus_after(kept, was)
<1>1. destroyed_core(k, w) = last \/ destroyed_core(k, w) = next
  BY DEF destroyed_core
<1>2. next \in Cores(Surface) /\ DOMAIN next.window = DOMAIN k.window \ {w}
  BY RemoveKeeps
<1> HIDE DEF next
<1>3. kept \in Cores(Surface) /\ DOMAIN kept.window = DOMAIN next.window
  BY <1>2, Reconciles DEF Alike
<1> HIDE DEF kept, was
<1>4. last \in Cores(Surface) /\ DOMAIN last.window = DOMAIN kept.window
  BY <1>3, RefocusKeeps DEF Alike
<1> HIDE DEF last
<1> QED
  BY <1>1, <1>2, <1>3, <1>4

LEMMA RestrictIs ==
  ASSUME NEW D, NEW V, NEW f \in [D -> V], NEW x
  PROVE  LET g == Restrict(f, DOMAIN f \ {x})
         IN  DOMAIN f = D /\ g \in [D \ {x} -> V] /\ \A y \in D \ {x} : g[y] = f[y]
BY DEF Restrict

\* Before the backend is started nothing is managed, afterwards what is ripe.
Exact(s) ==
  /\ DOMAIN s.core.window = Managed(s)
  /\ Managed(s) = IF s.wm.pc = "run" THEN Ripe(s) ELSE {}

LEMMA SurfaceDestroyed ==
  ASSUME NEW s \in Managers, NEW id \in DOMAIN s.wm.surfaces
  PROVE  LET r == on_destroyed(s, id)
             M == Mirror(s.wm.surfaces)
         IN  /\ r \in Managers /\ Silent(s, r)
             /\ Mirror(r.wm.surfaces) = [known |-> M.known \ {id}, mapped |-> M.mapped \ {id},
                                         sized |-> M.sized \ {id}]
             /\ Exact(s) => Exact(r)
<1> DEFINE D == DOMAIN s.wm.surfaces
           k == IF s.wm.surfaces[id].managed THEN destroyed_core(s.core, id) ELSE s.core
           F == s.wm.surfaces
           S == Restrict(F, DOMAIN F \ {id})
           C == Restrict(s.wm.configured, DOMAIN s.wm.configured \ {id})
           p == IF s.wm.prev_focused = id THEN NoWindow ELSE s.wm.prev_focused
           b == [s.wm EXCEPT !.surfaces = S, !.configured = C, !.prev_focused = p]
           r == [core |-> k, wm |-> b, out |-> s.out]
<1>1. /\ s.core \in Cores(Surface) /\ s.wm \in Backends /\ s.out \in Seq(Wishes) /\ Held(s)
      /\ D \in SUBSET Surface /\ s.wm.surfaces \in [D -> SurfaceRecords]
      /\ s.wm.prev_focused \in Surface \cup {NoWindow}
      /\ s = [core |-> s.core, wm |-> s.wm, out |-> s.out]
  BY ManagerParts
<1>2. on_destroyed(s, id) = [s EXCEPT !.core = k, !.wm = b]
  BY DEF on_destroyed
<1>3. /\ k \in Cores(Surface)
      /\ DOMAIN k.window = IF s.wm.surfaces[id].managed THEN DOMAIN s.core.window \ {id}
                           ELSE DOMAIN s.core.window
  <2>1. CASE s.wm.surfaces[id].managed
    <3>1. id \in DOMAIN s.core.window
      BY <1>1, <2>1 DEF Held
    <3> QED
      BY <1>1, <2>1, <3>1, DestroyedKeeps
  <2>2. CASE ~ s.wm.surfaces[id].managed
    BY <1>1, <2>2
  <2> QED
    BY <2>1, <2>2
<1> HIDE DEF k
<1>4. S \in [D \ {id} -> SurfaceRecords] /\ \A i \in D \ {id} : S[i] = s.wm.surfaces[i]
  <2>1. F \in [D -> SurfaceRecords]
    BY <1>1
  <2> HIDE DEF F, D
  <2>2. S \in [D \ {id} -> SurfaceRecords] /\ \A i \in D \ {id} : S[i] = F[i]
    BY <2>1 DEF Restrict
  <2> QED
    BY <2>2 DEF F
<1> HIDE DEF S
<1>5. C \in UNION {[E -> Places] : E \in SUBSET Surface}
  <2>1. PICK E \in SUBSET Surface : s.wm.configured \in [E -> Places]
    BY <1>1 DEF Backends
  <2>2. C \in [E \ {id} -> Places]
    BY <2>1, RestrictIs
  <2> QED
    BY <2>2
<1>6. p \in Surface \cup {NoWindow}
  BY <1>1
<1> HIDE DEF C, p
<1>15. [s EXCEPT !.core = k, !.wm = b] = r
  <2>1. s = [core |-> s.core, wm |-> s.wm, out |-> s.out]
    BY <1>1
  <2> HIDE DEF b
  <2> QED
    BY <2>1, RecordIs
<1>16. S \in UNION {[E -> SurfaceRecords] : E \in SUBSET Surface}
  <2>1. D \ {id} \in SUBSET Surface
    BY <1>1
  <2> HIDE DEF D
  <2> QED
    BY <1>4, <2>1
<1>7. /\ b \in Backends /\ b.surfaces = S /\ b.pc = s.wm.pc /\ b.conn = s.wm.conn
      /\ b.overlay = s.wm.overlay /\ b.next_overlay = s.wm.next_overlay
      /\ b.dragging = s.wm.dragging
  <2>1. s.wm \in Backends
    BY <1>1
  <2> QED
    BY <1>5, <1>6, <1>16, <2>1 DEF Backends
<1> HIDE DEF b
<1>8. \A i \in DOMAIN b.surfaces : b.surfaces[i].managed => i \in DOMAIN k.window
  BY <1>1, <1>3, <1>4, <1>7 DEF Held
<1>9. r \in Managers /\ r.core = k /\ r.wm = b /\ r.out = s.out
  BY <1>1, <1>3, <1>7, <1>8, NewManagerState
<1> HIDE DEF r
<1>10. Silent(s, r)
  BY <1>7, <1>9 DEF Silent
<1>11. DOMAIN S = D \ {id}
  BY <1>4
<1>12. /\ {i \in D \ {id} : S[i].mapped} = {i \in D : s.wm.surfaces[i].mapped} \ {id}
       /\ {i \in D \ {id} : S[i].sized} = {i \in D : s.wm.surfaces[i].sized} \ {id}
       /\ {i \in D \ {id} : S[i].managed} = {i \in D : s.wm.surfaces[i].managed} \ {id}
       /\ {i \in D \ {id} : S[i].mapped /\ S[i].sized}
            = {i \in D : s.wm.surfaces[i].mapped /\ s.wm.surfaces[i].sized} \ {id}
  BY <1>4
<1>13. Managed(r) = Managed(s) \ {id} /\ Ripe(r) = Ripe(s) \ {id}
  BY <1>7, <1>9, <1>11, <1>12 DEF Managed, Ripe
<1>14. Exact(s) => Exact(r)
  <2> HAVE Exact(s)
  <2>1. DOMAIN k.window = Managed(s) \ {id}
    BY <1>3 DEF Exact, Managed
  <2> QED
    BY <1>7, <1>9, <1>13, <2>1 DEF Exact
<1>17. LET M == Mirror(s.wm.surfaces)
       IN  Mirror(r.wm.surfaces) = [known |-> M.known \ {id}, mapped |-> M.mapped \ {id},
                                    sized |-> M.sized \ {id}]
  <2>1. r.wm.surfaces = S
    BY <1>7, <1>9
  <2> QED
    BY <1>11, <1>12, <2>1 DEF Mirror
<1> QED
  BY <1>2, <1>9, <1>10, <1>14, <1>15, <1>17

\* What a message makes of the mirror.
mirrored(M, m) ==
  CASE m.type = "begin"   -> [known |-> {}, mapped |-> {}, sized |-> {}]
    [] m.type = "created" -> [known |-> M.known \cup {m.id}, mapped |-> M.mapped, sized |-> M.sized]
    [] m.type = "mapped" /\ m.id \in M.known ->
         [known |-> M.known, mapped |-> M.mapped \cup {m.id}, sized |-> M.sized]
    [] m.type = "committed" /\ m.id \in M.known ->
         [known |-> M.known, mapped |-> M.mapped, sized |-> M.sized \cup {m.id}]
    [] m.type = "destroyed" ->
         [known |-> M.known \ {m.id}, mapped |-> M.mapped \ {m.id}, sized |-> M.sized \ {m.id}]
    [] OTHER -> M

\* A surface id that was not there before.
Fresh(M, m) == m.type = "created" => m.id \notin M.known

LEMMA ReportParts ==
  ASSUME NEW m \in Reports
  PROVE  /\ m.type \in {"created", "mapped", "destroyed", "enter", "committed", "button"} => m.id \in Surface
         /\ m.type = "committed" => m.sized = TRUE
         /\ m.type = "key" => m.id \in Keys
         /\ m.type = "button" => m.value \in {"drag", "release"}
         /\ m.type \in {"hello", "begin", "end", "created", "mapped", "destroyed", "enter",
                        "committed", "key", "button", "expose"}
BY DEF Reports

\* A surface record changes; Core does not.
LEMMA SurfaceIs ==
  ASSUME NEW s \in Managers, NEW id \in DOMAIN s.wm.surfaces,
         NEW e \in SurfaceRecords, e.managed = s.wm.surfaces[id].managed
  PROVE  LET r == [s EXCEPT !.wm.surfaces[id] = e]
             S == s.wm.surfaces
         IN  /\ r \in Managers /\ r.core = s.core /\ Silent(s, r)
             /\ r.wm.surfaces = [S EXCEPT ![id] = e] /\ Managed(r) = Managed(s)
<1> DEFINE D == DOMAIN s.wm.surfaces
           F == s.wm.surfaces
           S == [F EXCEPT ![id] = e]
           r == [s EXCEPT !.wm.surfaces = S]
<1>1. /\ D \in SUBSET Surface /\ F \in [D -> SurfaceRecords] /\ Held(s)
      /\ s = [core |-> s.core, wm |-> s.wm, out |-> s.out] /\ s.wm \in Backends
  BY ManagerParts
<1>2. [s EXCEPT !.wm.surfaces[id] = e] = r
  <2>1. s = [core |-> s.core, wm |-> s.wm, out |-> s.out] /\ s.wm \in Backends
    BY <1>1
  <2> QED
    BY <2>1 DEF Backends
<1>3. S \in [D -> SurfaceRecords] /\ \A i \in D : S[i].managed = F[i].managed
  BY <1>1
<1>4. \A i \in D : S[i].managed => i \in DOMAIN s.core.window
  BY <1>1, <1>3 DEF Held
<1> HIDE DEF S
<1>5. r \in Managers /\ r.core = s.core /\ r.wm.surfaces = S /\ Silent(s, r)
  BY <1>1, <1>3, <1>4, SurfacesAre
<1> HIDE DEF r
<1>6. Managed(r) = Managed(s)
  BY <1>3, <1>5 DEF Managed
<1> QED
  BY <1>2, <1>5, <1>6 DEF S

\* A surface has become mapped or has got a size.
LEMMA SurfaceRipens ==
  ASSUME NEW s \in Managers, NEW id \in DOMAIN s.wm.surfaces,
         NEW e \in SurfaceRecords, e.managed = s.wm.surfaces[id].managed,
         s.wm.surfaces[id].mapped => e.mapped, s.wm.surfaces[id].sized => e.sized
  PROVE  LET r == manage_if_ready([s EXCEPT !.wm.surfaces[id] = e], id)
         IN  /\ r \in Managers /\ Silent(s, r)
             /\ Mirror(r.wm.surfaces) = Mirror([s.wm.surfaces EXCEPT ![id] = e])
             /\ Exact(s) => Exact(r)
<1> DEFINE F == s.wm.surfaces
           h == [s EXCEPT !.wm.surfaces[id] = e]
           r == manage_if_ready(h, id)
<1>1. F \in [DOMAIN F -> SurfaceRecords]
  BY ManagerParts
<1>2. /\ h \in Managers /\ h.core = s.core /\ Silent(s, h)
      /\ h.wm.surfaces = [F EXCEPT ![id] = e] /\ Managed(h) = Managed(s)
  BY SurfaceIs
<1> HIDE DEF h
<1>3. id \in DOMAIN h.wm.surfaces
  BY <1>1, <1>2
<1>4. /\ r \in Managers /\ Silent(h, r)
      /\ DOMAIN r.core.window = DOMAIN h.core.window \cup Due(h, id)
      /\ Mirror(r.wm.surfaces) = Mirror(h.wm.surfaces)
      /\ Managed(r) = Managed(h) \cup Due(h, id)
  BY <1>2, <1>3, ManagesIfReady
<1> HIDE DEF r
<1>5. Silent(s, r) /\ h.wm.pc = s.wm.pc /\ r.wm.pc = s.wm.pc
  BY <1>2, <1>4 DEF Silent
<1>6. Ripe(h) = Ripe(s) \cup ({id} \cap Ripe(h))
  BY <1>1, <1>2 DEF Ripe
<1>7. Ripe(r) = Ripe(h)
  BY <1>4, RipeIs
<1>8. Exact(s) => Exact(r)
  <2> HAVE Exact(s)
  <2>1. CASE s.wm.pc = "run"
    BY <1>2, <1>4, <1>5, <1>6, <1>7, <2>1 DEF Exact, Due
  <2>2. CASE s.wm.pc # "run"
    BY <1>2, <1>4, <1>5, <2>2 DEF Exact, Due
  <2> QED
    BY <2>1, <2>2
<1> QED
  BY <1>2, <1>4, <1>5, <1>8 DEF h, r

\* Core becomes k, with the same windows.
LEMMA CoreContinues ==
  ASSUME NEW s \in Managers, NEW k \in Cores(Surface), DOMAIN k.window = DOMAIN s.core.window
  PROVE  LET r == [s EXCEPT !.core = k]
         IN  r \in Managers /\ r.core = k /\ r.wm = s.wm /\ r.out = s.out /\ Continues(s, r)
             /\ Silent(s, r) /\ (Exact(s) => Exact(r))
<1> DEFINE r == [s EXCEPT !.core = k]
<1>1. r \in Managers /\ r.core = k /\ r.wm = s.wm /\ r.out = s.out
  BY CoreIs
<1> HIDE DEF r
<1> QED
  BY <1>1 DEF Continues, Says, Silent, Exact, Managed, Ripe, r

LEMMA SurfacesForgotten ==
  ASSUME NEW s \in Managers
  PROVE  LET r == [s EXCEPT !.wm = [@ EXCEPT !.surfaces = backend.surfaces,
                                              !.prev_focused = NoWindow]]
         IN  /\ r \in Managers /\ Silent(s, r)
             /\ Mirror(r.wm.surfaces) = [known |-> {}, mapped |-> {}, sized |-> {}]
             /\ Exact(s) /\ s.wm.pc # "run" => Exact(r)
<1> DEFINE S == backend.surfaces
           b == [s.wm EXCEPT !.surfaces = S, !.prev_focused = NoWindow]
           r == [core |-> s.core, wm |-> b, out |-> s.out]
<1>1. DOMAIN S = {} /\ S \in [{} -> SurfaceRecords] /\ {} \in SUBSET Surface
  BY DEF backend
<1> HIDE DEF S
<1>2. s.wm \in Backends /\ s = [core |-> s.core, wm |-> s.wm, out |-> s.out]
  BY ManagerParts
<1>3. [s EXCEPT !.wm = b] = r
  BY <1>2
<1>4. /\ b \in Backends /\ b.surfaces = S /\ b.pc = s.wm.pc /\ b.conn = s.wm.conn
      /\ b.overlay = s.wm.overlay /\ b.next_overlay = s.wm.next_overlay
      /\ b.dragging = s.wm.dragging
  BY <1>1, <1>2 DEF Backends
<1> HIDE DEF b
<1>5. r \in Managers /\ r.core = s.core /\ r.wm = b /\ r.out = s.out
  BY <1>1, <1>4, ManagerParts, NewManagerState
<1> HIDE DEF r
<1>6. Managed(r) = {}
  BY <1>1, <1>4, <1>5 DEF Managed
<1>7. Mirror(r.wm.surfaces) = [known |-> {}, mapped |-> {}, sized |-> {}]
  BY <1>1, <1>4, <1>5 DEF Mirror
<1> QED
  BY <1>3, <1>4, <1>5, <1>6, <1>7 DEF Silent, Exact, S, b

LEMMA SurfaceCreated ==
  ASSUME NEW s \in Managers, NEW id \in Surface
  PROVE  LET r == [s EXCEPT !.wm.surfaces =
                     put(@, id, [mapped |-> FALSE, sized |-> FALSE, managed |-> FALSE])]
             M == Mirror(s.wm.surfaces)
         IN  /\ r \in Managers /\ Silent(s, r)
             /\ id \notin DOMAIN s.wm.surfaces =>
                  /\ Mirror(r.wm.surfaces) = [known |-> M.known \cup {id}, mapped |-> M.mapped, sized |-> M.sized]
                  /\ Exact(s) => Exact(r)
<1> DEFINE D == DOMAIN s.wm.surfaces
           F == s.wm.surfaces
           e == [mapped |-> FALSE, sized |-> FALSE, managed |-> FALSE]
           S == put(F, id, e)
           r == [s EXCEPT !.wm.surfaces = S]
<1>1. D \in SUBSET Surface /\ F \in [D -> SurfaceRecords] /\ Held(s)
  BY ManagerParts
<1>2. e \in SurfaceRecords /\ ~ e.mapped /\ ~ e.sized /\ ~ e.managed
  BY DEF SurfaceRecords
<1> HIDE DEF e, F
<1>3. /\ S \in [D \cup {id} -> SurfaceRecords] /\ S[id] = e
      /\ \A i \in D : i # id => S[i] = F[i]
  <2>1. F \in [D -> SurfaceRecords] /\ e \in SurfaceRecords
    BY <1>1, <1>2
  <2> HIDE DEF D
  <2> QED
    BY <2>1 DEF put
<1>4. D \cup {id} \in SUBSET Surface
  BY <1>1
<1>5. \A i \in D \cup {id} : S[i].managed => i \in DOMAIN s.core.window
  BY <1>1, <1>2, <1>3 DEF Held, F
<1> HIDE DEF S
<1>6. r \in Managers /\ r.core = s.core /\ r.wm.surfaces = S /\ Silent(s, r)
  <2> DEFINE E == D \cup {id}
  <2>1. E \in SUBSET Surface /\ S \in [E -> SurfaceRecords]
        /\ \A i \in E : S[i].managed => i \in DOMAIN s.core.window
    BY <1>3, <1>4, <1>5
  <2> HIDE DEF E
  <2> QED
    BY <2>1, SurfacesAre
<1> HIDE DEF r
<1>7. ASSUME id \notin D
      PROVE  /\ Mirror(r.wm.surfaces) = [known |-> Mirror(F).known \cup {id},
                                         mapped |-> Mirror(F).mapped, sized |-> Mirror(F).sized]
             /\ Exact(s) => Exact(r)
  <2>1. DOMAIN S = D \cup {id} /\ DOMAIN F = D
    BY <1>3 DEF F
  <2>2. /\ {i \in D \cup {id} : S[i].mapped} = {i \in D : F[i].mapped}
        /\ {i \in D \cup {id} : S[i].sized} = {i \in D : F[i].sized}
        /\ {i \in D \cup {id} : S[i].managed} = {i \in D : F[i].managed}
        /\ {i \in D \cup {id} : S[i].mapped /\ S[i].sized} = {i \in D : F[i].mapped /\ F[i].sized}
    BY <1>2, <1>3, <1>7
  <2> HIDE DEF D
  <2>3. Mirror(r.wm.surfaces) = [known |-> Mirror(F).known \cup {id},
                                         mapped |-> Mirror(F).mapped, sized |-> Mirror(F).sized]
    <3>1. Mirror(F) = [known |-> D, mapped |-> {i \in D : F[i].mapped},
                       sized |-> {i \in D : F[i].sized}]
      BY <2>1 DEF Mirror
    <3>2. Mirror(S) = [known |-> D \cup {id}, mapped |-> {i \in D : F[i].mapped},
                       sized |-> {i \in D : F[i].sized}]
      BY <2>1, <2>2 DEF Mirror
    <3> QED
      BY <1>6, <3>1, <3>2
  <2>4. Managed(r) = Managed(s) /\ Ripe(r) = Ripe(s)
    BY <1>6, <2>1, <2>2 DEF Managed, Ripe, F
  <2> QED
    BY <1>6, <2>3, <2>4 DEF Exact, Silent
<1> QED
  BY <1>6, <1>7 DEF r, S, F, e

\* dispatch_control_message keeps the backend sound, and its mirror follows.
LEMMA Hears ==
  ASSUME NEW s \in Managers, NEW m \in Reports
  PROVE  LET r == on_message(s, m)
             M == Mirror(s.wm.surfaces)
         IN  /\ r \in Managers /\ Silent(s, r)
             /\ Fresh(M, m) => /\ Mirror(r.wm.surfaces) = mirrored(M, m)
                               /\ Exact(s) /\ (m.type = "begin" => s.wm.pc # "run") => Exact(r)
<1> DEFINE r == on_message(s, m)
           D == DOMAIN s.wm.surfaces
           F == s.wm.surfaces
           M == Mirror(F)
<1>1. /\ F \in [D -> SurfaceRecords] /\ M.known = D
      /\ M.mapped = {i \in D : F[i].mapped} /\ M.sized = {i \in D : F[i].sized}
      /\ M = [known |-> M.known, mapped |-> M.mapped, sized |-> M.sized]
  BY ManagerParts DEF Mirror
<1>2. Silent(s, s)
  BY DEF Silent
<1>3. CASE m.type = "begin"
  <2>1. r = [s EXCEPT !.wm = [@ EXCEPT !.surfaces = backend.surfaces, !.prev_focused = NoWindow]]
    BY <1>3 DEF on_message
  <2>2. mirrored(M, m) = [known |-> {}, mapped |-> {}, sized |-> {}]
    BY <1>3 DEF mirrored
  <2> HIDE DEF r, M
  <2> QED
    BY <1>3, <2>1, <2>2, SurfacesForgotten DEF r, M
<1>4. CASE m.type = "created"
  <2>1. r = [s EXCEPT !.wm.surfaces =
               put(@, m.id, [mapped |-> FALSE, sized |-> FALSE, managed |-> FALSE])]
    BY <1>4 DEF on_message
  <2>2. mirrored(M, m) = [known |-> M.known \cup {m.id}, mapped |-> M.mapped, sized |-> M.sized]
    BY <1>4 DEF mirrored
  <2>3. m.id \in Surface /\ (Fresh(M, m) => m.id \notin D)
    BY <1>1, <1>4, ReportParts DEF Fresh
  <2> QED
    BY <2>1, <2>2, <2>3, SurfaceCreated
<1>5. CASE m.type = "mapped" /\ m.id \in D
  <2> DEFINE e == [F[m.id] EXCEPT !.mapped = TRUE]
             h == [s EXCEPT !.wm.surfaces[m.id] = e]
  <2>1. r = manage_if_ready(h, m.id)
    <3>1. r = manage_if_ready([s EXCEPT !.wm.surfaces[m.id].mapped = TRUE], m.id)
      BY <1>5 DEF on_message
    <3> QED
      BY <3>1
  <2>2. mirrored(M, m) = [known |-> M.known, mapped |-> M.mapped \cup {m.id}, sized |-> M.sized]
    BY <1>1, <1>5 DEF mirrored
  <2>6. F[m.id] \in SurfaceRecords
    BY <1>1, <1>5
  <2>3. /\ e \in SurfaceRecords /\ e.managed = F[m.id].managed /\ e.mapped
        /\ (F[m.id].sized => e.sized) /\ e.sized = F[m.id].sized
    <3> HIDE DEF F
    <3> QED
      BY <2>6 DEF SurfaceRecords
  <2> HIDE DEF e
  <2>4. Mirror([F EXCEPT ![m.id] = e]) = [known |-> M.known, mapped |-> M.mapped \cup {m.id}, sized |-> M.sized]
    <3> DEFINE G == [F EXCEPT ![m.id] = e]
    <3>1. DOMAIN G = D /\ G[m.id] = e /\ \A i \in D : i # m.id => G[i] = F[i]
      BY <1>1, <1>5
    <3> HIDE DEF G
    <3>2. /\ {i \in D : G[i].mapped} = {i \in D : F[i].mapped} \cup {m.id}
          /\ {i \in D : G[i].sized} = {i \in D : F[i].sized}
      BY <1>5, <2>3, <3>1
    <3>3. Mirror(G) = [known |-> D, mapped |-> {i \in D : G[i].mapped},
                       sized |-> {i \in D : G[i].sized}]
      BY <3>1 DEF Mirror
    <3>4. Mirror(G) = [known |-> M.known, mapped |-> M.mapped \cup {m.id}, sized |-> M.sized]
      <4> HIDE DEF M
      <4> QED
        BY <1>1, <3>2, <3>3
    <3> QED
      BY <3>4 DEF G
  <2>5. /\ r \in Managers /\ Silent(s, r)
        /\ Mirror(r.wm.surfaces) = Mirror([F EXCEPT ![m.id] = e])
        /\ Exact(s) => Exact(r)
    BY <1>5, <2>1, <2>3, SurfaceRipens
  <2> HIDE DEF r, M, F
  <2> QED
    BY <2>2, <2>4, <2>5 DEF r, M, F
<1>6. CASE m.type = "committed" /\ m.id \in D
  <2> DEFINE e == [F[m.id] EXCEPT !.sized = TRUE]
             h == [s EXCEPT !.wm.surfaces[m.id] = e]
  <2>0. m.sized = TRUE
    BY <1>6, ReportParts
  <2>1. r = manage_if_ready(h, m.id)
    <3>1. r = manage_if_ready([s EXCEPT !.wm.surfaces[m.id].sized = m.sized], m.id)
      BY <1>6 DEF on_message
    <3> QED
      BY <2>0, <3>1
  <2>2. mirrored(M, m) = [known |-> M.known, mapped |-> M.mapped, sized |-> M.sized \cup {m.id}]
    BY <1>1, <1>6 DEF mirrored
  <2>6. F[m.id] \in SurfaceRecords
    BY <1>1, <1>6
  <2>3. /\ e \in SurfaceRecords /\ e.managed = F[m.id].managed /\ e.sized
        /\ (F[m.id].mapped => e.mapped) /\ e.mapped = F[m.id].mapped
    <3> HIDE DEF F
    <3> QED
      BY <2>6 DEF SurfaceRecords
  <2> HIDE DEF e
  <2>4. Mirror([F EXCEPT ![m.id] = e]) = [known |-> M.known, mapped |-> M.mapped, sized |-> M.sized \cup {m.id}]
    <3> DEFINE G == [F EXCEPT ![m.id] = e]
    <3>1. DOMAIN G = D /\ G[m.id] = e /\ \A i \in D : i # m.id => G[i] = F[i]
      BY <1>1, <1>6
    <3> HIDE DEF G
    <3>2. /\ {i \in D : G[i].sized} = {i \in D : F[i].sized} \cup {m.id}
          /\ {i \in D : G[i].mapped} = {i \in D : F[i].mapped}
      BY <1>6, <2>3, <3>1
    <3>3. Mirror(G) = [known |-> D, mapped |-> {i \in D : G[i].mapped},
                       sized |-> {i \in D : G[i].sized}]
      BY <3>1 DEF Mirror
    <3>4. Mirror(G) = [known |-> M.known, mapped |-> M.mapped, sized |-> M.sized \cup {m.id}]
      <4> HIDE DEF M
      <4> QED
        BY <1>1, <3>2, <3>3
    <3> QED
      BY <3>4 DEF G
  <2>5. /\ r \in Managers /\ Silent(s, r)
        /\ Mirror(r.wm.surfaces) = Mirror([F EXCEPT ![m.id] = e])
        /\ Exact(s) => Exact(r)
    BY <1>6, <2>1, <2>3, SurfaceRipens
  <2> HIDE DEF r, M, F
  <2> QED
    BY <2>2, <2>4, <2>5 DEF r, M, F
<1>7. CASE m.type = "destroyed" /\ m.id \in D
  <2>1. r = on_destroyed(s, m.id)
    BY <1>7 DEF on_message
  <2>2. mirrored(M, m) = [known |-> M.known \ {m.id}, mapped |-> M.mapped \ {m.id},
                          sized |-> M.sized \ {m.id}]
    BY <1>7 DEF mirrored
  <2> QED
    BY <1>7, <2>1, <2>2, SurfaceDestroyed
<1>8. CASE m.type \in {"mapped", "committed", "destroyed"} /\ m.id \notin D
  <2>1. r = s
    BY <1>8 DEF on_message
  <2>2. M.known \ {m.id} = M.known /\ M.mapped \ {m.id} = M.mapped /\ M.sized \ {m.id} = M.sized
    BY <1>1, <1>8
  <2>3. mirrored(M, m) = M
    <3> HIDE DEF M
    <3> QED
      BY <1>1, <1>8, <2>2 DEF mirrored
  <2> QED
    BY <1>2, <2>1, <2>3
<1>9. CASE m.type \in {"hello", "end", "enter", "key", "button", "expose"}
  <2> DEFINE k == focus_visible(s.core, m.id)
             h == [s EXCEPT !.core = k]
  <2>1. r = s \/ r = h
    BY <1>9 DEF on_message
  <2>2. mirrored(M, m) = M
    BY <1>9 DEF mirrored
  <2>3. k \in Cores(Surface) /\ DOMAIN k.window = DOMAIN s.core.window
    BY ManagerParts, ShownFocused DEF Alike
  <2> HIDE DEF k
  <2>4. h \in Managers /\ h.wm = s.wm /\ Silent(s, h) /\ (Exact(s) => Exact(h))
    BY <2>3, CoreContinues
  <2> HIDE DEF h, r
  <2> QED
    BY <1>2, <2>1, <2>2, <2>4 DEF r
<1> QED
  BY <1>3, <1>4, <1>5, <1>6, <1>7, <1>8, <1>9, ReportParts

Heard(s, list) == FoldLeft(on_message, s, list)

LEMMA HearRun ==
  ASSUME NEW s \in Managers, NEW list \in Seq(Reports)
  PROVE  \E g : /\ g \in [0 .. Len(list) -> Managers] /\ g[0] = s
               /\ \A i \in 1 .. Len(list) : g[i] = on_message(g[i - 1], list[i])
               /\ Heard(s, list) = g[Len(list)]
<1> DEFINE Q  == Managers
           N  == Len(list)
           F  == [p \in Q \X (1 .. N) |-> on_message(p[1], list[p[2]])]
           it == CHOOSE it : it = [S \in SUBSET DOMAIN list |->
                   IF S = {} THEN s
                   ELSE on_message(it[S \ {Max(S)}], list[Max(S)])]
           g  == [i \in 0 .. N |-> it[1 .. i]]
<1>1. Heard(s, list) = it[DOMAIN list]
  BY DEF Heard, FoldLeft, MapThenFoldSet
<1>2. N \in Nat /\ DOMAIN list = 1 .. N
  OBVIOUS
<1>3. s \in Q
  OBVIOUS
<1>4. ASSUME NEW q \in Q, NEW i \in 1 .. N PROVE on_message(q, list[i]) \in Q
  <2>1. list[i] \in Reports
    BY <1>2
  <2> QED
    BY <2>1, Hears
<1> HIDE DEF Q
<1>5. IsStep(F, Q, N)
  BY <1>2, <1>4 DEF IsStep
<1>6. it = [S \in SUBSET DOMAIN list |->
              IF S = {} THEN s
              ELSE on_message(it[S \ {Max(S)}], list[Max(S)])]
  <2>1. PICK f : IsFold(f, s, F, Q, N)
    <3> HIDE DEF F
    <3> QED
      BY <1>2, <1>3, <1>5, FoldExists
  <2>2. /\ f \in [SUBSET (1 .. N) -> Q]
        /\ \A S \in SUBSET (1 .. N) :
             f[S] = IF S = {} THEN s ELSE F[<<f[S \ {Max(S)}], Max(S)>>]
    BY <2>1 DEF IsFold
  <2>3. \A S \in SUBSET (1 .. N) : S # {} => Max(S) \in 1 .. N
    BY <1>2, MaxIn
  <2>4. f = [S \in SUBSET DOMAIN list |->
               IF S = {} THEN s
               ELSE on_message(f[S \ {Max(S)}], list[Max(S)])]
    BY <1>2, <2>2, <2>3
  <2> QED
    BY <2>4
<1> HIDE DEF it
<1>7. it[1 .. 0] = s
  <2>1. 1 .. 0 = {}
    OBVIOUS
  <2> QED
    BY <1>6, <2>1
<1>8. ASSUME NEW i \in 1 .. N PROVE it[1 .. i] = on_message(it[1 .. (i - 1)], list[i])
  <2>0. i \in Nat \ {0}
    BY <1>2
  <2>1. Max(1 .. i) = i /\ (1 .. i) \ {i} = 1 .. (i - 1) /\ 1 .. i # {}
    BY <2>0, Prefix
  <2>2. 1 .. i \in SUBSET DOMAIN list
    BY <1>2
  <2> QED
    BY <1>6, <2>1, <2>2
<1>9. \A i \in 0 .. N : it[1 .. i] \in Q
  <2> DEFINE S == {i \in 0 .. N : it[1 .. i] \in Q}
  <2>1. 0 \in S
    BY <1>2, <1>3, <1>7
  <2>2. ASSUME NEW i \in 1 .. N, i - 1 \in S PROVE i \in S
    BY <1>2, <1>4, <1>8, <2>2
  <2> HIDE DEF S
  <2>3. \A i \in 0 .. N : i \in S
    BY <1>2, <2>1, <2>2, Climb
  <2> QED
    BY <2>3 DEF S
<1>10. g \in [0 .. N -> Q] /\ g[0] = s /\ Heard(s, list) = g[N]
  BY <1>1, <1>2, <1>7, <1>9
<1>11. \A i \in 1 .. N : g[i] = on_message(g[i - 1], list[i])
  <2>1. ASSUME NEW i \in 1 .. N PROVE i \in 0 .. N /\ i - 1 \in 0 .. N
    BY <1>2
  <2> QED
    BY <1>8, <2>1
<1> HIDE DEF g
<1> QED
  BY <1>10, <1>11 DEF Q

\* h is what the mirror becomes along the messages q, from M on.
Follows(h, M, q) ==
  h[0] = M /\ \A i \in DOMAIN q : h[i] = mirrored(h[i - 1], q[i]) /\ Fresh(h[i - 1], q[i])

LEMMA HeardAll ==
  ASSUME NEW s \in Managers, NEW list \in Seq(Reports), NEW h,
         Follows(h, Mirror(s.wm.surfaces), list)
  PROVE  LET r == Heard(s, list)
         IN  /\ r \in Managers /\ Silent(s, r)
             /\ Mirror(r.wm.surfaces) = h[Len(list)]
             /\ Exact(s) /\ (s.wm.pc = "run" => \A i \in DOMAIN list : list[i].type # "begin")
                  => Exact(r)
<1> DEFINE N == Len(list)
           ok == Exact(s) /\ (s.wm.pc = "run" => \A i \in DOMAIN list : list[i].type # "begin")
<1>1. N \in Nat /\ DOMAIN list = 1 .. N
  OBVIOUS
<1>2. PICK g : /\ g \in [0 .. N -> Managers] /\ g[0] = s
               /\ \A i \in 1 .. N : g[i] = on_message(g[i - 1], list[i])
               /\ Heard(s, list) = g[N]
  BY HearRun
<1> DEFINE S == {i \in 0 .. N : /\ Silent(s, g[i]) /\ Mirror(g[i].wm.surfaces) = h[i]
                                /\ ok => Exact(g[i])}
<1>3. 0 \in S
  BY <1>1, <1>2 DEF Silent, Follows
<1>4. ASSUME NEW i \in 1 .. N, i - 1 \in S PROVE i \in S
  <2>1. /\ g[i - 1] \in Managers /\ Silent(s, g[i - 1])
        /\ Mirror(g[i - 1].wm.surfaces) = h[i - 1] /\ (ok => Exact(g[i - 1]))
    BY <1>1, <1>2, <1>4
  <2>2. list[i] \in Reports /\ h[i] = mirrored(h[i - 1], list[i]) /\ Fresh(h[i - 1], list[i])
    BY <1>1 DEF Follows
  <2>3. /\ Silent(g[i - 1], g[i]) /\ Mirror(g[i].wm.surfaces) = h[i]
        /\ Exact(g[i - 1]) /\ (list[i].type = "begin" => g[i - 1].wm.pc # "run") => Exact(g[i])
    BY <1>2, <2>1, <2>2, Hears
  <2>4. Silent(s, g[i])
    BY <2>1, <2>3 DEF Silent
  <2>5. ok => Exact(g[i])
    BY <1>1, <2>1, <2>3 DEF Silent
  <2> QED
    BY <1>1, <2>3, <2>4, <2>5
<1> HIDE DEF S, N, ok
<1>5. N \in S
  <2>1. \A i \in 0 .. N : i \in S
    BY <1>1, <1>3, <1>4, Climb, Zenon
  <2> QED
    BY <1>1, <2>1
<1> QED
  BY <1>1, <1>2, <1>5 DEF S, N, ok

\* A drag starts or ends: the server is told.
LEMMA DragTold ==
  ASSUME NEW s \in Managers, NEW k \in Cores(Surface), DOMAIN k.window = DOMAIN s.core.window,
         NEW b \in Backends, b.surfaces = s.wm.surfaces, b.pc = s.wm.pc, b.conn = s.wm.conn,
         b.overlay = s.wm.overlay, b.next_overlay = s.wm.next_overlay
  PROVE  LET r == send([core |-> k, wm |-> b, out |-> s.out],
                       set("grab", None, b.dragging # NoWindow))
         IN  r \in Managers /\ Continues(s, r)
<1> DEFINE h == [core |-> k, wm |-> b, out |-> s.out]
           v == b.dragging # NoWindow
           m == set("grab", None, v)
           r == send(h, m)
<1>1. s.out \in Seq(Wishes) /\ Held(s)
  BY ManagerParts
<1>2. h \in Managers /\ h.core = k /\ h.wm = b /\ h.out = s.out
  BY <1>1, NewManagerState DEF Held
<1>3. m \in Wishes /\ m.type = "grab" /\ m.value = v
  <2>1. None \in Ids /\ v \in BOOLEAN
    BY DEF Ids
  <2> HIDE DEF v
  <2>2. m \in Wishes
    BY <2>1, WishIs
  <2>3. m.type = "grab" /\ m.value = v
    BY DEF set
  <2> QED
    BY <2>2, <2>3
<1> HIDE DEF h, m
<1>4. r \in Managers /\ r.core = h.core /\ r.wm = h.wm /\ r.out = Append(h.out, m)
  BY <1>2, <1>3, Sending
<1> HIDE DEF r
<1>5. ASSUME NEW a, NEW x, NEW c, Says(s, a, x, c) PROVE Says(r, a, x, c)
  <2>1. Leaves("intercepts", s.out, a, x)
    BY <1>5 DEF Says
  <2>2. Leaves("intercepts", Append(s.out, m), a, x)
    BY <1>1, <1>3, <2>1, LeavesOther
  <2>3. Leaves("grab", Append(s.out, m), c, v)
    <3>1. Leaves(m.type, Append(s.out, m), c, m.value)
      BY <1>1, LeavesThis
    <3> QED
      BY <1>3, <3>1, Zenon
  <2>4. r.wm.dragging = b.dragging /\ r.out = Append(s.out, m)
    BY <1>2, <1>4
  <2>5. Leaves("grab", r.out, c, r.wm.dragging # NoWindow)
    BY <2>3, <2>4, Zenon DEF v
  <2> QED
    BY <2>2, <2>4, <2>5 DEF Says
<1> QED
  BY <1>2, <1>4, <1>5 DEF Continues, r, h, m, v

LEMMA BindingKeeps ==
  ASSUME NEW k \in Cores(Surface), NEW key \in Keys
  PROVE  LET j == run_binding(k, key) IN j \in Cores(Surface) /\ DOMAIN j.window = DOMAIN k.window
<1>1. key = "switch" \/ key = "next" \/ key = "previous"
  BY DisplayAssumption DEF Keys, Range
<1> DEFINE ws == IF current_ws(k) = 1 THEN 2 ELSE 1
<1>2. SwitchWorkspace(k, ws, 0) \in Cores(Surface) /\ Alike(k, SwitchWorkspace(k, ws, 0))
  BY SwitchKeeps
<1>3. \A dir \in {1, -1} : FocusStep(k, dir) \in Cores(Surface) /\ Alike(k, FocusStep(k, dir))
  BY StepKeeps
<1>4. \/ run_binding(k, key) = SwitchWorkspace(k, ws, 0)
      \/ \E dir \in {1, -1} : run_binding(k, key) = FocusStep(k, dir)
  BY <1>1 DEF run_binding
<1> QED
  BY <1>2, <1>3, <1>4 DEF Alike

LEMMA DragStarts ==
  ASSUME NEW s \in Managers, NEW w \in DOMAIN s.core.window
  PROVE  LET r == start_drag(s, w) IN r \in Managers /\ Continues(s, r)
<1> DEFINE f == [s.core.window[w] EXCEPT !.floating = TRUE]
           i == [s.core EXCEPT !.window[w] = f]
           k == float_window(s.core, w)
           j == FocusWindow(k, w)
           b == [s.wm EXCEPT !.dragging = w, !.astray = s.wm.astray \/ ~ is_visible(k, w)]
<1>1. /\ s.core \in Cores(Surface) /\ s.wm \in Backends /\ w \in Surface
      /\ s = [core |-> s.core, wm |-> s.wm, out |-> s.out]
  BY ManagerParts
<1>2. s.core.window[w] \in WindowStates
  BY <1>1, WindowParts
<1>3. f \in WindowStates
  BY <1>2 DEF WindowStates
<1>4. [s.core EXCEPT !.window[w].floating = TRUE] = i
  OBVIOUS
<1>5. i \in Cores(Surface) /\ DOMAIN i.window = DOMAIN s.core.window
  <2> HIDE DEF f
  <2> QED
    BY <1>1, <1>3, NewWindowState DEF Alike
<1> HIDE DEF i
<1>6. reconcile(i) \in Cores(Surface) /\ DOMAIN reconcile(i).window = DOMAIN i.window
  BY <1>5, Reconciles DEF Alike
<1>7. k \in Cores(Surface) /\ DOMAIN k.window = DOMAIN s.core.window
  BY <1>1, <1>4, <1>5, <1>6 DEF float_window
<1> HIDE DEF k
<1>8. j \in Cores(Surface) /\ DOMAIN j.window = DOMAIN s.core.window
  BY <1>7, FocusWindowKeeps DEF Alike
<1>9. start_drag(s, w) = send([s EXCEPT !.core = j, !.wm = b], set("grab", None, TRUE))
  BY Zenon DEF start_drag, drag_window, k
<1> HIDE DEF j
<1>10. /\ b \in Backends /\ b.surfaces = s.wm.surfaces /\ b.pc = s.wm.pc /\ b.conn = s.wm.conn
       /\ b.overlay = s.wm.overlay /\ b.next_overlay = s.wm.next_overlay /\ b.dragging = w
  BY <1>1 DEF Backends
<1> HIDE DEF b
<1>11. [s EXCEPT !.core = j, !.wm = b] = [core |-> j, wm |-> b, out |-> s.out]
  BY <1>1, RecordIs
<1>12. set("grab", None, TRUE) = set("grab", None, b.dragging # NoWindow)
  <2>1. (b.dragging # NoWindow) = TRUE
    BY <1>1, <1>10, Known
  <2> QED
    BY <2>1, Zenon
<1> DEFINE r == send([core |-> j, wm |-> b, out |-> s.out],
                     set("grab", None, b.dragging # NoWindow))
<1>13. r \in Managers /\ Continues(s, r)
  BY <1>8, <1>10, DragTold
<1> QED
  BY <1>9, <1>11, <1>12, <1>13, Zenon

LEMMA DragStops ==
  ASSUME NEW s \in Managers
  PROVE  LET r == stop_drag(s) IN r \in Managers /\ Continues(s, r)
<1> DEFINE b == [s.wm EXCEPT !.dragging = NoWindow]
<1>1. /\ s.core \in Cores(Surface) /\ s.wm \in Backends
      /\ s = [core |-> s.core, wm |-> s.wm, out |-> s.out]
  BY ManagerParts
<1>2. CASE s.wm.dragging = NoWindow
  BY <1>2, ContinuesSelf DEF stop_drag
<1>3. CASE s.wm.dragging # NoWindow
  <2>1. stop_drag(s) = send([s EXCEPT !.wm.dragging = NoWindow], set("grab", None, FALSE))
    BY <1>3 DEF stop_drag
  <2>2. [s EXCEPT !.wm.dragging = NoWindow] = [core |-> s.core, wm |-> b, out |-> s.out]
    BY <1>1
  <2>3. /\ b \in Backends /\ b.surfaces = s.wm.surfaces /\ b.pc = s.wm.pc /\ b.conn = s.wm.conn
        /\ b.overlay = s.wm.overlay /\ b.next_overlay = s.wm.next_overlay /\ b.dragging = NoWindow
    BY <1>1 DEF Backends
  <2> HIDE DEF b
  <2>4. set("grab", None, FALSE) = set("grab", None, b.dragging # NoWindow)
    <3>1. (b.dragging # NoWindow) = FALSE
      BY <2>3
    <3> QED
      BY <3>1, Zenon
  <2> DEFINE r == send([core |-> s.core, wm |-> b, out |-> s.out],
                       set("grab", None, b.dragging # NoWindow))
  <2>5. r \in Managers /\ Continues(s, r)
    BY <1>1, <2>3, DragTold
  <2> QED
    BY <2>1, <2>2, <2>4, <2>5, Zenon
<1> QED
  BY <1>2, <1>3

LEMMA WindowDropped ==
  ASSUME NEW s \in Managers, NEW w
  PROVE  LET r == drop_window(s, w) IN r \in Managers /\ Continues(s, r)
<1> DEFINE k == MoveWindowToWorkspace(s.core, w, current_ws(s.core))
           h == [s EXCEPT !.core = k]
<1>1. drop_window(s, w) = s \/ drop_window(s, w) = h
  BY DEF drop_window
<1>2. k \in Cores(Surface) /\ DOMAIN k.window = DOMAIN s.core.window
  BY ManagerParts, MoveKeeps DEF Alike
<1> HIDE DEF k
<1>3. h \in Managers /\ Continues(s, h)
  BY <1>2, CoreContinues
<1> HIDE DEF h
<1> QED
  BY <1>1, <1>3, ContinuesSelf

\* What a message posted is handled without a change of the surfaces.
LEMMA Drains ==
  ASSUME NEW s \in Managers, NEW m \in Reports
  PROVE  LET r == drain(s, m) IN r \in Managers /\ Continues(s, r)
<1> DEFINE w == s.wm.dragging
<1>1. CASE m.type = "key"
  <2> DEFINE k == run_binding(s.core, m.id)
  <2>1. drain(s, m) = [s EXCEPT !.core = k]
    BY <1>1 DEF drain
  <2>2. k \in Cores(Surface) /\ DOMAIN k.window = DOMAIN s.core.window
    BY <1>1, ManagerParts, ReportParts, BindingKeeps
  <2> HIDE DEF k
  <2> QED
    BY <2>1, <2>2, CoreContinues
<1>2. CASE m.type = "button" /\ m.value = "drag" /\ find_window_in_all(s.core, m.id)
           /\ ~ covers(s.core, m.id)
  <2>1. drain(s, m) = start_drag(s, m.id)
    BY <1>2 DEF drain
  <2> QED
    BY <1>2, <2>1, DragStarts DEF find_window_in_all
<1>3. CASE m.type = "button" /\ m.value = "release"
  <2> DEFINE h == drop_window(s, w)
             r == stop_drag(h)
  <2>1. drain(s, m) = r
    BY <1>3 DEF drain
  <2>2. h \in Managers /\ Continues(s, h)
    BY WindowDropped
  <2> HIDE DEF h
  <2>3. r \in Managers /\ Continues(h, r)
    BY <2>2, DragStops
  <2> HIDE DEF r
  <2> QED
    BY <2>1, <2>2, <2>3, ContinuesTwice
<1>4. CASE m.type = "destroyed" /\ m.id = w
  <2>1. drain(s, m) = stop_drag(s)
    BY <1>4 DEF drain
  <2> QED
    BY <2>1, DragStops
<1>5. CASE m.type = "expose" /\ m.id = s.wm.overlay
  <2> DEFINE e == set("update", m.id, TRUE)
  <2>1. drain(s, m) = send(s, e)
    BY <1>5 DEF drain
  <2>2. s.wm.overlay \in Ids
    BY ManagerParts DEF Backends, Ids
  <2>3. e \in Wishes
    BY <1>5, <2>2, WishIs
  <2>4. e.type = "update"
    BY DEF set
  <2> HIDE DEF e
  <2> QED
    BY <2>1, <2>3, <2>4, SendingOther
<1>6. CASE /\ m.type # "key" /\ ~ (m.type = "destroyed" /\ m.id = w)
           /\ ~ (m.type = "expose" /\ m.id = s.wm.overlay)
           /\ ~ (m.type = "button" /\ m.value = "release")
           /\ ~ (m.type = "button" /\ m.value = "drag" /\ find_window_in_all(s.core, m.id)
                 /\ ~ covers(s.core, m.id))
  <2>1. drain(s, m) = s
    BY <1>6 DEF drain
  <2> QED
    BY <2>1, ContinuesSelf
<1> QED
  BY <1>1, <1>2, <1>3, <1>4, <1>5, <1>6

Drained(s, list) == FoldLeft(drain, s, list)

LEMMA DrainRun ==
  ASSUME NEW s \in Managers, NEW list \in Seq(Reports)
  PROVE  \E g : /\ g \in [0 .. Len(list) -> Managers] /\ g[0] = s
               /\ \A i \in 1 .. Len(list) : g[i] = drain(g[i - 1], list[i])
               /\ Drained(s, list) = g[Len(list)]
<1> DEFINE Q  == Managers
           N  == Len(list)
           F  == [p \in Q \X (1 .. N) |-> drain(p[1], list[p[2]])]
           it == CHOOSE it : it = [S \in SUBSET DOMAIN list |->
                   IF S = {} THEN s
                   ELSE drain(it[S \ {Max(S)}], list[Max(S)])]
           g  == [i \in 0 .. N |-> it[1 .. i]]
<1>1. Drained(s, list) = it[DOMAIN list]
  BY DEF Drained, FoldLeft, MapThenFoldSet
<1>2. N \in Nat /\ DOMAIN list = 1 .. N
  OBVIOUS
<1>3. s \in Q
  OBVIOUS
<1>4. ASSUME NEW q \in Q, NEW i \in 1 .. N PROVE drain(q, list[i]) \in Q
  <2>1. list[i] \in Reports
    BY <1>2
  <2> QED
    BY <2>1, Drains
<1> HIDE DEF Q
<1>5. IsStep(F, Q, N)
  BY <1>2, <1>4 DEF IsStep
<1>6. it = [S \in SUBSET DOMAIN list |->
              IF S = {} THEN s
              ELSE drain(it[S \ {Max(S)}], list[Max(S)])]
  <2>1. PICK f : IsFold(f, s, F, Q, N)
    <3> HIDE DEF F
    <3> QED
      BY <1>2, <1>3, <1>5, FoldExists
  <2>2. /\ f \in [SUBSET (1 .. N) -> Q]
        /\ \A S \in SUBSET (1 .. N) :
             f[S] = IF S = {} THEN s ELSE F[<<f[S \ {Max(S)}], Max(S)>>]
    BY <2>1 DEF IsFold
  <2>3. \A S \in SUBSET (1 .. N) : S # {} => Max(S) \in 1 .. N
    BY <1>2, MaxIn
  <2>4. f = [S \in SUBSET DOMAIN list |->
               IF S = {} THEN s
               ELSE drain(f[S \ {Max(S)}], list[Max(S)])]
    BY <1>2, <2>2, <2>3
  <2> QED
    BY <2>4
<1> HIDE DEF it
<1>7. it[1 .. 0] = s
  <2>1. 1 .. 0 = {}
    OBVIOUS
  <2> QED
    BY <1>6, <2>1
<1>8. ASSUME NEW i \in 1 .. N PROVE it[1 .. i] = drain(it[1 .. (i - 1)], list[i])
  <2>0. i \in Nat \ {0}
    BY <1>2
  <2>1. Max(1 .. i) = i /\ (1 .. i) \ {i} = 1 .. (i - 1) /\ 1 .. i # {}
    BY <2>0, Prefix
  <2>2. 1 .. i \in SUBSET DOMAIN list
    BY <1>2
  <2> QED
    BY <1>6, <2>1, <2>2
<1>9. \A i \in 0 .. N : it[1 .. i] \in Q
  <2> DEFINE S == {i \in 0 .. N : it[1 .. i] \in Q}
  <2>1. 0 \in S
    BY <1>2, <1>3, <1>7
  <2>2. ASSUME NEW i \in 1 .. N, i - 1 \in S PROVE i \in S
    BY <1>2, <1>4, <1>8, <2>2
  <2> HIDE DEF S
  <2>3. \A i \in 0 .. N : i \in S
    BY <1>2, <2>1, <2>2, Climb
  <2> QED
    BY <2>3 DEF S
<1>10. g \in [0 .. N -> Q] /\ g[0] = s /\ Drained(s, list) = g[N]
  BY <1>1, <1>2, <1>7, <1>9
<1>11. \A i \in 1 .. N : g[i] = drain(g[i - 1], list[i])
  <2>1. ASSUME NEW i \in 1 .. N PROVE i \in 0 .. N /\ i - 1 \in 0 .. N
    BY <1>2
  <2> QED
    BY <1>8, <2>1
<1> HIDE DEF g
<1> QED
  BY <1>10, <1>11 DEF Q

LEMMA DrainedAll ==
  ASSUME NEW s \in Managers, NEW list \in Seq(Reports)
  PROVE  LET r == Drained(s, list) IN r \in Managers /\ Continues(s, r)
<1> DEFINE N == Len(list)
<1>1. N \in Nat /\ DOMAIN list = 1 .. N
  OBVIOUS
<1>2. PICK g : /\ g \in [0 .. N -> Managers] /\ g[0] = s
               /\ \A i \in 1 .. N : g[i] = drain(g[i - 1], list[i])
               /\ Drained(s, list) = g[N]
  BY DrainRun
<1> DEFINE S == {i \in 0 .. N : Continues(s, g[i])}
<1>3. 0 \in S
  BY <1>1, <1>2, ContinuesSelf
<1>4. ASSUME NEW i \in 1 .. N, i - 1 \in S PROVE i \in S
  <2>1. g[i - 1] \in Managers /\ Continues(s, g[i - 1])
    BY <1>1, <1>2, <1>4
  <2>2. list[i] \in Reports
    BY <1>1
  <2>3. Continues(g[i - 1], g[i])
    BY <1>2, <2>1, <2>2, Drains
  <2>4. Continues(s, g[i])
    BY <2>1, <2>3, ContinuesTwice
  <2> QED
    BY <1>1, <2>4
<1> HIDE DEF S, N
<1>5. N \in S
  <2>1. \A i \in 0 .. N : i \in S
    BY <1>1, <1>3, <1>4, Climb, Zenon
  <2> QED
    BY <1>1, <2>1
<1> QED
  BY <1>1, <1>2, <1>5 DEF S
-----------------------------------------------------------------------------
(* The display server.                                                     *)

Channels ==
  [up : Seq(Reports), down : Seq(Orders), wm : {"open", "closed"},
   ds : {"backlog", "client", "closed"}]

SurfaceStates ==
  [mapped : BOOLEAN, sized : BOOLEAN, visible : BOOLEAN, raised : BOOLEAN,
   border : {"none", "focused", "unfocused"}, place : Places \cup {Unplaced}, wl : {None}]

DisplayFields ==
  [surfaces : UNION {[D -> SurfaceStates] : D \in SUBSET Surface}, next_id : Nat \ {0},
   seat : Ids, intercepts : SUBSET Keys, grabbed : BOOLEAN,
   overlays : UNION {[D -> BOOLEAN] : D \in SUBSET Ids},
   client : Ids, chan : Seq(Channels)]

\* One connection is the client's, its grabs are gone when it is; the seat is
\* on a surface, and ids are given in order.
Linked(d) ==
  /\ d.client \in DOMAIN d.chan \cup {None}
  /\ \A c \in DOMAIN d.chan : d.chan[c].ds = "client" <=> c = d.client
  /\ d.client = None => d.intercepts = {} /\ ~ d.grabbed
  /\ d.seat \in DOMAIN d.surfaces \cup {None}
  /\ DOMAIN d.surfaces \subseteq 1 .. d.next_id - 1

Displays == {d \in DisplayFields : Linked(d)}

LEMMA DisplayParts ==
  ASSUME NEW d \in Displays
  PROVE  /\ d \in DisplayFields /\ Linked(d)
         /\ DOMAIN d.surfaces \in SUBSET Surface
         /\ d.surfaces \in [DOMAIN d.surfaces -> SurfaceStates]
         /\ d.next_id \in Nat \ {0} /\ d.seat \in Ids /\ d.intercepts \in SUBSET Keys
         /\ d.grabbed \in BOOLEAN /\ d.client \in Ids /\ d.chan \in Seq(Channels)
         /\ DOMAIN d.chan = 1 .. Len(d.chan) /\ Len(d.chan) \in Nat /\ None \notin DOMAIN d.chan
         /\ d.overlays \in UNION {[D -> BOOLEAN] : D \in SUBSET Ids}
<1>1. d \in DisplayFields /\ Linked(d)
  BY DEF Displays
<1>2. /\ d.surfaces \in UNION {[D -> SurfaceStates] : D \in SUBSET Surface}
      /\ d.next_id \in Nat \ {0} /\ d.seat \in Ids /\ d.intercepts \in SUBSET Keys
      /\ d.grabbed \in BOOLEAN /\ d.client \in Ids /\ d.chan \in Seq(Channels)
      /\ d.overlays \in UNION {[D -> BOOLEAN] : D \in SUBSET Ids}
  BY <1>1 DEF DisplayFields
<1>3. DOMAIN d.surfaces \in SUBSET Surface /\ d.surfaces \in [DOMAIN d.surfaces -> SurfaceStates]
  BY <1>2
<1>4. DOMAIN d.chan = 1 .. Len(d.chan) /\ Len(d.chan) \in Nat
  BY <1>2
<1>5. None \notin DOMAIN d.chan
  BY <1>4, DisplayAssumption
<1> QED
  BY <1>1, <1>2, <1>3, <1>4, <1>5

\* The mirror in which a conversation ends.
Traced(S, q, M) == \E h : Follows(h, Mirror(S), q) /\ h[Len(q)] = M

\* What the server holds for connection c.
keys_of(d, c) == IF d.client = c THEN d.intercepts ELSE {}
grab_of(d, c) == IF d.client = c THEN d.grabbed ELSE FALSE

\* What is still to be read makes it what the window manager wants.
Owed(d, b) ==
  d.chan[b.conn].ds # "closed" =>
    /\ Leaves("intercepts", d.chan[b.conn].down, keys_of(d, b.conn),
              IF b.pc = "run" THEN KeysHeld ELSE {})
    /\ Leaves("grab", d.chan[b.conn].down, grab_of(d, b.conn), b.dragging # NoWindow)

Hi  == [type |-> "hello"]
Ask == [type |-> "request"]

\* One snapshot is asked for and sent; it is read before the backend starts.
Marked(pc, ch) ==
  /\ pc = "hello" => /\ ch.down = <<>>
                     /\ \A i \in DOMAIN ch.up : ch.up[i].type \notin {"begin", "end"}
  /\ pc = "boot" =>
       /\ ch.down \in {<<Hi, Ask>>, <<Ask>>, <<>>}
       /\ ch.down # <<>> => \A i \in DOMAIN ch.up : ch.up[i].type \notin {"begin", "end"}
       /\ \A i, j \in DOMAIN ch.up : ch.up[i].type = "begin" /\ ch.up[j].type = "end" => i < j
  /\ pc = "run" => /\ ch.down \in Seq(Wishes)
                   /\ \A i \in DOMAIN ch.up : ch.up[i].type # "begin"
  /\ pc \in {"boot", "run"} /\ ch.ds = "backlog" => pc = "boot" /\ ch.down = <<Hi, Ask>>

\* The conversation with the window manager whose backend is b.
Talk(d, b, M) ==
  /\ b.conn \in DOMAIN d.chan /\ d.chan[b.conn].wm = "open"
  /\ Traced(b.surfaces, d.chan[b.conn].up, M) /\ Owed(d, b) /\ Marked(b.pc, d.chan[b.conn])

LEMMA SameTalk ==
  ASSUME NEW d, NEW e, NEW b, NEW M, Talk(d, b, M), b.conn \in DOMAIN e.chan,
         e.chan[b.conn] = d.chan[b.conn], keys_of(e, b.conn) = keys_of(d, b.conn),
         grab_of(e, b.conn) = grab_of(d, b.conn)
  PROVE  Talk(e, b, M)
BY Zenon DEF Talk, Owed

\* Everything but the connections is the same.
Same(d, e) ==
  /\ e.surfaces = d.surfaces /\ e.next_id = d.next_id /\ e.seat = d.seat
  /\ e.overlays = d.overlays /\ DOMAIN e.chan = DOMAIN d.chan

LEMMA ChannelClosed ==
  ASSUME NEW ch \in Channels
  PROVE  LET x == close_server_end(ch)
         IN  /\ x \in Channels /\ x.ds = "closed" /\ x.down = <<>> /\ x.wm = ch.wm
             /\ ch.wm = "open" => x.up = ch.up
<1>1. <<>> \in Seq(Orders) /\ <<>> \in Seq(Reports)
  OBVIOUS
<1> QED
  BY <1>1 DEF close_server_end, Channels

LEMMA Disconnects ==
  ASSUME NEW d \in Displays
  PROVE  LET e == disconnect_client(d)
         IN  /\ e \in Displays /\ e.client = None /\ Same(d, e)
             /\ \A c \in DOMAIN d.chan : c # d.client => e.chan[c] = d.chan[c]
             /\ \A b, M : Talk(d, b, M) => Talk(e, b, M)
<1> DEFINE c == d.client
           x == close_server_end(d.chan[c])
           q == [d.chan EXCEPT ![c] = x]
           e == [d EXCEPT !.intercepts = {}, !.grabbed = FALSE, !.chan = q, !.client = None]
<1>1. /\ d \in DisplayFields /\ Linked(d) /\ d.chan \in Seq(Channels)
      /\ DOMAIN d.chan = 1 .. Len(d.chan) /\ Len(d.chan) \in Nat /\ None \notin DOMAIN d.chan
  BY DisplayParts
<1>2. CASE c = None
  <2>1. disconnect_client(d) = d
    BY <1>2 DEF disconnect_client
  <2> QED
    BY <1>2, <2>1 DEF Same
<1>3. CASE c # None
  <2>1. disconnect_client(d) = e
    BY <1>3 DEF disconnect_client
  <2>2. c \in DOMAIN d.chan
    BY <1>1, <1>3 DEF Linked
  <2>3. d.chan[c] \in Channels
    BY <1>1, <2>2
  <2>4. /\ x \in Channels /\ x.ds = "closed" /\ x.down = <<>> /\ x.wm = d.chan[c].wm
        /\ d.chan[c].wm = "open" => x.up = d.chan[c].up
    BY <2>3, ChannelClosed
  <2> HIDE DEF x
  <2>5. /\ q \in Seq(Channels) /\ DOMAIN q = DOMAIN d.chan /\ q[c] = x
        /\ \A i \in DOMAIN d.chan : i # c => q[i] = d.chan[i]
    BY <1>1, <2>2, <2>4
  <2> HIDE DEF q
  <2>6. {} \in SUBSET Keys /\ None \in Ids /\ FALSE \in BOOLEAN
    BY DEF Ids
  <2>7. /\ e \in DisplayFields /\ Same(d, e) /\ e.client = None /\ e.intercepts = {}
        /\ ~ e.grabbed /\ e.chan = q
    BY <1>1, <2>5, <2>6 DEF DisplayFields, Same
  <2> HIDE DEF e
  <2>8. Linked(e)
    BY <1>1, <2>4, <2>5, <2>7 DEF Linked, Same
  <2>9. ASSUME NEW b, NEW M, Talk(d, b, M) PROVE Talk(e, b, M)
    <3>1. CASE b.conn = c
      <4>1. /\ b.conn \in DOMAIN e.chan /\ e.chan[b.conn] = x /\ d.chan[c].wm = "open"
            /\ Traced(b.surfaces, d.chan[c].up, M) /\ Marked(b.pc, d.chan[c])
        BY <2>5, <2>7, <2>9, <3>1 DEF Talk
      <4>2. Owed(e, b)
        BY <2>4, <4>1 DEF Owed
      <4>3. <<>> \in Seq(Wishes)
        OBVIOUS
      <4>4. Marked(b.pc, x)
        BY <2>4, <4>1, <4>3, SMTT(60) DEF Marked
      <4> QED
        BY <2>4, <4>1, <4>2, <4>4 DEF Talk
    <3>2. CASE b.conn # c
      <4>1. b.conn \in DOMAIN d.chan
        BY <2>9 DEF Talk
      <4>2. /\ b.conn \in DOMAIN e.chan /\ e.chan[b.conn] = d.chan[b.conn]
            /\ b.conn # e.client
        BY <1>1, <2>5, <2>7, <3>2, <4>1
      <4>3. keys_of(e, b.conn) = keys_of(d, b.conn) /\ grab_of(e, b.conn) = grab_of(d, b.conn)
        BY <3>2, <4>2 DEF keys_of, grab_of
      <4> QED
        BY <2>9, <4>2, <4>3, SameTalk
    <3> QED
      BY <3>1, <3>2
  <2> QED
    BY <2>1, <2>5, <2>7, <2>8, <2>9 DEF Displays
<1> QED
  BY <1>2, <1>3

LEMMA TracedSend ==
  ASSUME NEW S, NEW q \in Seq(Reports), NEW M, Traced(S, q, M), NEW m, Fresh(M, m)
  PROVE  Traced(S, Append(q, m), mirrored(M, m))
<1> DEFINE n == Len(q)
           r == Append(q, m)
<1>1. PICK h : Follows(h, Mirror(S), q) /\ h[n] = M
  BY DEF Traced
<1> DEFINE g == [i \in 0 .. n + 1 |-> IF i = n + 1 THEN mirrored(M, m) ELSE h[i]]
<1>2. n \in Nat /\ DOMAIN q = 1 .. n /\ DOMAIN r = 1 .. n + 1 /\ Len(r) = n + 1
  OBVIOUS
<1>3. r[n + 1] = m /\ \A i \in 1 .. n : r[i] = q[i]
  OBVIOUS
<1> HIDE DEF n, r
<1>4. g[n + 1] = mirrored(M, m) /\ \A i \in 0 .. n : g[i] = h[i]
  BY <1>2
<1> HIDE DEF g
<1>5. ASSUME NEW i \in 1 .. n + 1
      PROVE  g[i] = mirrored(g[i - 1], r[i]) /\ Fresh(g[i - 1], r[i])
  <2>1. CASE i = n + 1
    <3>1. g[i - 1] = M /\ r[i] = m
      BY <1>1, <1>2, <1>3, <1>4, <2>1
    <3> QED
      BY <1>4, <2>1, <3>1
  <2>2. CASE i # n + 1
    <3>1. i \in 1 .. n /\ i - 1 \in 0 .. n /\ i \in 0 .. n
      BY <1>2, <2>2
    <3>2. h[i] = mirrored(h[i - 1], q[i]) /\ Fresh(h[i - 1], q[i])
      BY <1>1, <1>2, <3>1 DEF Follows
    <3> QED
      BY <1>3, <1>4, <3>1, <3>2
  <2> QED
    BY <2>1, <2>2
<1>6. g[0] = Mirror(S)
  BY <1>1, <1>2, <1>4 DEF Follows
<1>7. Follows(g, Mirror(S), r)
  BY <1>2, <1>5, <1>6 DEF Follows
<1>8. g[Len(r)] = mirrored(M, m)
  BY <1>2, <1>4
<1> QED
  BY <1>7, <1>8 DEF Traced, r

\* A mark is sent to a backend that waits for it.
Suits(pc, ch, m) ==
  /\ m.type \in {"begin", "end"} => pc = "boot" /\ ch.down = <<>>
  /\ m.type = "begin" => \A i \in DOMAIN ch.up : ch.up[i].type # "end"

LEMMA MarkedSend ==
  ASSUME NEW pc, NEW ch \in Channels, Marked(pc, ch), NEW m \in Reports, Suits(pc, ch, m)
  PROVE  Marked(pc, [ch EXCEPT !.up = Append(ch.up, m)])
<1> DEFINE x == [ch EXCEPT !.up = Append(ch.up, m)]
           q == Append(ch.up, m)
           n == Len(ch.up)
<1>1. x.up = q /\ x.down = ch.down /\ x.ds = ch.ds
  BY DEF Channels
<1>2. ch.up \in Seq(Reports)
  BY DEF Channels
<1>3. n \in Nat /\ DOMAIN ch.up = 1 .. n /\ DOMAIN q = 1 .. n + 1
  BY <1>2
<1>4. q[n + 1] = m /\ \A i \in 1 .. n : q[i] = ch.up[i]
  BY <1>2
<1> HIDE DEF x, q, n
<1>5. \A i \in DOMAIN q : (i \in DOMAIN ch.up /\ q[i] = ch.up[i] /\ i < n + 1) \/ (i = n + 1 /\ q[i] = m)
  BY <1>3, <1>4
<1>6. ASSUME pc = "hello"
      PROVE  x.down = <<>> /\ \A i \in DOMAIN x.up : x.up[i].type \notin {"begin", "end"}
  BY <1>1, <1>5, <1>6 DEF Marked, Suits
<1>7. ASSUME pc = "run"
      PROVE  x.down \in Seq(Wishes) /\ \A i \in DOMAIN x.up : x.up[i].type # "begin"
  BY <1>1, <1>5, <1>7 DEF Marked, Suits
<1>8. ASSUME pc = "boot"
      PROVE  /\ x.down \in {<<Hi, Ask>>, <<Ask>>, <<>>}
             /\ x.down # <<>> => \A i \in DOMAIN x.up : x.up[i].type \notin {"begin", "end"}
  BY <1>1, <1>5, <1>8 DEF Marked, Suits
<1>9. ASSUME pc = "boot", NEW i \in DOMAIN q, NEW j \in DOMAIN q,
             q[i].type = "begin", q[j].type = "end"
      PROVE  i < j
  <2>1. CASE j = n + 1
    <3>1. q[j] = m /\ i # j
      BY <1>3, <1>4, <1>9, <2>1
    <3> QED
      BY <1>3, <1>5, <2>1, <3>1
  <2>2. CASE j # n + 1
    <3>1. j \in DOMAIN ch.up /\ q[j] = ch.up[j]
      BY <1>5, <2>2
    <3>2. m.type # "begin"
      BY <1>9, <3>1 DEF Suits
    <3>3. i \in DOMAIN ch.up /\ q[i] = ch.up[i]
      BY <1>5, <1>9, <3>2
    <3> QED
      BY <1>9, <3>1, <3>3 DEF Marked
  <2> QED
    BY <2>1, <2>2
<1> QED
  BY <1>1, <1>6, <1>7, <1>8, <1>9 DEF Marked, x, q

\* send_event: the client hears of it, or the connection is lost.
LEMMA Sends_event ==
  ASSUME NEW d \in Displays, NEW m \in Reports
  PROVE  LET e == send_event(d, m)
         IN  /\ e \in Displays /\ Same(d, e)
             /\ e.client # None =>
                  e.client = d.client /\ e.chan[e.client].down = d.chan[d.client].down
             /\ \A b, M : /\ Talk(d, b, M) /\ b.conn \in Nat
                          /\ d.client = b.conn => /\ Suits(b.pc, d.chan[b.conn], m) /\ Fresh(M, m)
                          => Talk(e, b, IF e.client = b.conn THEN mirrored(M, m) ELSE M)
<1> DEFINE c == d.client
           x == [d.chan[c] EXCEPT !.up = Append(d.chan[c].up, m)]
           q == [d.chan EXCEPT ![c] = x]
           e == [d EXCEPT !.chan = q]
           goal(a) ==
             /\ a \in Displays /\ Same(d, a)
             /\ a.client # None =>
                  a.client = d.client /\ a.chan[a.client].down = d.chan[d.client].down
             /\ \A b, M : /\ Talk(d, b, M) /\ b.conn \in Nat
                          /\ d.client = b.conn => /\ Suits(b.pc, d.chan[b.conn], m) /\ Fresh(M, m)
                          => Talk(a, b, IF a.client = b.conn THEN mirrored(M, m) ELSE M)
<1> SUFFICES goal(send_event(d, m))
  OBVIOUS
<1>1. /\ d \in DisplayFields /\ Linked(d) /\ d.chan \in Seq(Channels)
      /\ DOMAIN d.chan = 1 .. Len(d.chan) /\ Len(d.chan) \in Nat /\ None \notin DOMAIN d.chan
  BY DisplayParts
<1>2. None \notin Nat
  BY DisplayAssumption
<1>3. CASE c = None
  <2>1. send_event(d, m) = d
    BY <1>3 DEF send_event
  <2>2. \A b : b.conn \in Nat => d.client # b.conn
    BY <1>2, <1>3
  <2> QED
    BY <1>3, <2>1, <2>2 DEF Same
<1>4. CASE c # None /\ (Len(d.chan[c].up) >= Backlog \/ d.chan[c].wm = "closed")
  <2>1. send_event(d, m) = disconnect_client(d)
    BY <1>4 DEF send_event
  <2> DEFINE a == disconnect_client(d)
  <2>2. a \in Displays /\ a.client = None /\ Same(d, a) /\ \A b, M : Talk(d, b, M) => Talk(a, b, M)
    BY Disconnects
  <2> HIDE DEF a
  <2>3. \A b : b.conn \in Nat => a.client # b.conn
    BY <1>2, <2>2
  <2>4. \A b, M : /\ Talk(d, b, M) /\ b.conn \in Nat
                  => Talk(a, b, IF a.client = b.conn THEN mirrored(M, m) ELSE M)
    BY <2>2, <2>3
  <2>5. goal(a)
    BY <2>2, <2>4
  <2> HIDE DEF goal
  <2> QED
    BY <2>1, <2>5 DEF a
<1>5. CASE c # None /\ ~ (Len(d.chan[c].up) >= Backlog \/ d.chan[c].wm = "closed")
  <2>1. send_event(d, m) = e
    BY <1>5 DEF send_event
  <2>2. c \in DOMAIN d.chan
    BY <1>1, <1>5 DEF Linked
  <2>3. d.chan[c] \in Channels
    BY <1>1, <2>2
  <2>4. /\ x \in Channels /\ x.ds = d.chan[c].ds /\ x.down = d.chan[c].down
        /\ x.wm = d.chan[c].wm /\ x.up = Append(d.chan[c].up, m)
    <3>1. d.chan[c].up \in Seq(Reports)
      BY <2>3 DEF Channels
    <3> DEFINE u == Append(d.chan[c].up, m)
    <3>2. u \in Seq(Reports)
      BY <3>1
    <3> HIDE DEF u
    <3>3. x = [d.chan[c] EXCEPT !.up = u]
      BY Zenon DEF u
    <3>4. /\ x \in Channels /\ x.ds = d.chan[c].ds /\ x.down = d.chan[c].down
          /\ x.wm = d.chan[c].wm /\ x.up = u
      <4> HIDE DEF x
      <4> QED
        BY <2>3, <3>2, <3>3 DEF Channels
    <3> QED
      BY <3>4 DEF u
  <2> HIDE DEF x
  <2>5. /\ q \in Seq(Channels) /\ DOMAIN q = DOMAIN d.chan /\ q[c] = x
        /\ \A i \in DOMAIN d.chan : i # c => q[i] = d.chan[i]
    BY <1>1, <2>2, <2>4
  <2> HIDE DEF q
  <2>6. /\ e \in DisplayFields /\ Same(d, e) /\ e.client = c /\ e.intercepts = d.intercepts
        /\ e.grabbed = d.grabbed /\ e.chan = q
    BY <1>1, <2>5 DEF DisplayFields, Same
  <2> HIDE DEF e
  <2>7. Linked(e)
    BY <1>1, <2>4, <2>5, <2>6 DEF Linked, Same
  <2>8. ASSUME NEW b, NEW M, Talk(d, b, M), b.conn \in Nat,
               d.client = b.conn => Suits(b.pc, d.chan[b.conn], m) /\ Fresh(M, m)
        PROVE  Talk(e, b, IF e.client = b.conn THEN mirrored(M, m) ELSE M)
    <3>1. CASE b.conn = c
      <4>1. /\ d.chan[c].wm = "open" /\ Traced(b.surfaces, d.chan[c].up, M)
            /\ Marked(b.pc, d.chan[c]) /\ Suits(b.pc, d.chan[c], m) /\ Fresh(M, m) /\ Owed(d, b)
        BY <2>8, <3>1 DEF Talk
      <4>2. d.chan[c].up \in Seq(Reports)
        BY <2>3 DEF Channels
      <4>3. Traced(b.surfaces, x.up, mirrored(M, m))
        BY <2>4, <4>1, <4>2, TracedSend
      <4>4. Marked(b.pc, x)
        BY <2>3, <4>1, MarkedSend DEF x
      <4>5. e.chan[b.conn] = x /\ b.conn \in DOMAIN e.chan
        BY <2>2, <2>5, <2>6, <3>1
      <4>6. keys_of(e, b.conn) = keys_of(d, b.conn) /\ grab_of(e, b.conn) = grab_of(d, b.conn)
        BY <2>6 DEF keys_of, grab_of
      <4>7. Owed(e, b)
        BY <2>4, <3>1, <4>1, <4>5, <4>6 DEF Owed
      <4>8. Talk(e, b, mirrored(M, m))
        BY <2>4, <4>1, <4>3, <4>4, <4>5, <4>7 DEF Talk
      <4> QED
        BY <2>6, <3>1, <4>8
    <3>2. CASE b.conn # c
      <4>1. b.conn \in DOMAIN d.chan
        BY <2>8 DEF Talk
      <4>2. b.conn \in DOMAIN e.chan /\ e.chan[b.conn] = d.chan[b.conn]
        BY <2>5, <2>6, <3>2, <4>1
      <4>3. keys_of(e, b.conn) = keys_of(d, b.conn) /\ grab_of(e, b.conn) = grab_of(d, b.conn)
        BY <2>6 DEF keys_of, grab_of
      <4>4. Talk(e, b, M)
        BY <2>8, <4>2, <4>3, SameTalk
      <4> QED
        BY <2>6, <3>2, <4>4
    <3> QED
      BY <3>1, <3>2
  <2>9. goal(e)
    BY <2>4, <2>5, <2>6, <2>7, <2>8 DEF Displays
  <2> HIDE DEF goal
  <2> QED
    BY <2>1, <2>9
<1> QED
  BY <1>3, <1>4, <1>5

\* The snapshot the backend asked for has been sent.
Served(d, b) ==
  /\ b.pc \in {"boot", "run"} /\ d.client = b.conn
  /\ \A i \in DOMAIN d.chan[b.conn].down : d.chan[b.conn].down[i].type # "request"

Agrees(M, S) ==
  /\ M.known = DOMAIN S /\ M.mapped = {id \in DOMAIN S : S[id].mapped}
  /\ M.mapped \subseteq M.sized

Agree(d, b, M) ==
  /\ M.known \subseteq 1 .. d.next_id - 1
  /\ Served(d, b) => Agrees(M, d.surfaces)

\* When everything is read, the backend knows the surfaces that exist.
Good(d, b) == \E M : Talk(d, b, M) /\ Agree(d, b, M)

Sizes(d) == \A id \in DOMAIN d.surfaces : d.surfaces[id].mapped => d.surfaces[id].sized

\* What holds of the server while the backend is b.
Fine(d, b) == d \in Displays /\ Sizes(d) /\ (b.pc # "down" => Good(d, b))

LEMMA TalkConn ==
  ASSUME NEW d \in Displays, NEW b, NEW M, Talk(d, b, M)
  PROVE  b.conn \in Nat /\ b.conn \in DOMAIN d.chan /\ d.chan[b.conn] \in Channels
<1>1. b.conn \in DOMAIN d.chan
  BY DEF Talk
<1>2. d.chan \in Seq(Channels) /\ DOMAIN d.chan = 1 .. Len(d.chan) /\ Len(d.chan) \in Nat
  BY DisplayParts
<1> QED
  BY <1>1, <1>2

\* The server reports, other than with a mark.
LEMMA Reported ==
  ASSUME NEW d \in Displays, NEW m \in Reports, m.type \notin {"begin", "end"},
         NEW b, NEW M, Talk(d, b, M), d.client = b.conn => Fresh(M, m)
  PROVE  LET e == send_event(d, m)
         IN  /\ e \in Displays /\ Same(d, e)
             /\ Talk(e, b, IF e.client = b.conn THEN mirrored(M, m) ELSE M)
             /\ e.client = b.conn => d.client = b.conn
             /\ Served(e, b) => Served(d, b)
<1> DEFINE e == send_event(d, m)
<1>1. b.conn \in Nat /\ b.conn # None
  BY TalkConn, DisplayAssumption
<1>2. Suits(b.pc, d.chan[b.conn], m)
  BY DEF Suits
<1>3. /\ e \in Displays /\ Same(d, e)
      /\ e.client # None =>
           e.client = d.client /\ e.chan[e.client].down = d.chan[d.client].down
      /\ Talk(e, b, IF e.client = b.conn THEN mirrored(M, m) ELSE M)
  BY <1>1, <1>2, Sends_event
<1> HIDE DEF e
<1>4. e.client = b.conn => d.client = b.conn
  BY <1>1, <1>3
<1>5. Served(e, b) => Served(d, b)
  BY <1>1, <1>3 DEF Served
<1> QED
  BY <1>3, <1>4, <1>5 DEF e

LEMMA DisplayEvent ==
  ASSUME NEW d \in Displays, NEW m \in Reports
  PROVE  send_event(d, m) \in Displays /\ Same(d, send_event(d, m))
BY Sends_event

\* A report that is not about the surfaces.
LEMMA NeutralReport ==
  ASSUME NEW d, NEW b, Fine(d, b), NEW m \in Reports,
         m.type \in {"hello", "enter", "key", "button", "expose"}
  PROVE  Fine(send_event(d, m), b) /\ Same(d, send_event(d, m))
<1> DEFINE e == send_event(d, m)
<1>1. d \in Displays /\ Sizes(d)
  BY DEF Fine
<1>2. e \in Displays /\ Same(d, e)
  BY <1>1, DisplayEvent
<1>3. Sizes(e)
  BY <1>1, <1>2 DEF Sizes, Same
<1>4. ASSUME b.pc # "down" PROVE Good(e, b)
  <2>1. PICK M : Talk(d, b, M) /\ Agree(d, b, M)
    BY <1>4 DEF Fine, Good
  <2>2. m.type \notin {"begin", "end"} /\ Fresh(M, m) /\ mirrored(M, m) = M
    BY DEF Fresh, mirrored
  <2>3. /\ Talk(e, b, IF e.client = b.conn THEN mirrored(M, m) ELSE M)
        /\ Served(e, b) => Served(d, b)
    BY <1>1, <2>1, <2>2, Reported
  <2> HIDE DEF e
  <2>4. Talk(e, b, M)
    BY <2>2, <2>3
  <2>5. Agree(e, b, M)
    BY <1>2, <2>1, <2>3 DEF Agree, Same
  <2> QED
    BY <2>4, <2>5 DEF Good
<1> QED
  BY <1>2, <1>3, <1>4 DEF Fine

\* Connections and surfaces are the same, but for what no report is about.
Stable(d, e) ==
  /\ e.chan = d.chan /\ e.client = d.client /\ e.next_id = d.next_id
  /\ e.intercepts = d.intercepts /\ e.grabbed = d.grabbed
  /\ DOMAIN e.surfaces = DOMAIN d.surfaces
  /\ \A id \in DOMAIN d.surfaces : /\ e.surfaces[id].mapped = d.surfaces[id].mapped
                                   /\ d.surfaces[id].sized => e.surfaces[id].sized

LEMMA StableFine ==
  ASSUME NEW d, NEW b, Fine(d, b), NEW e \in Displays, Stable(d, e)
  PROVE  Fine(e, b)
<1>1. Sizes(e)
  BY DEF Fine, Sizes, Stable
<1>2. ASSUME b.pc # "down" PROVE Good(e, b)
  <2>1. PICK M : Talk(d, b, M) /\ Agree(d, b, M)
    BY <1>2 DEF Fine, Good
  <2>2. b.conn \in DOMAIN e.chan /\ e.chan[b.conn] = d.chan[b.conn]
    BY <2>1 DEF Talk, Stable
  <2>3. keys_of(e, b.conn) = keys_of(d, b.conn) /\ grab_of(e, b.conn) = grab_of(d, b.conn)
    BY DEF keys_of, grab_of, Stable
  <2>4. Talk(e, b, M)
    BY <2>1, <2>2, <2>3, SameTalk
  <2>5. Agree(e, b, M)
    <3>1. {id \in DOMAIN e.surfaces : e.surfaces[id].mapped}
            = {id \in DOMAIN d.surfaces : d.surfaces[id].mapped}
      BY DEF Stable
    <3> QED
      BY <2>1, <3>1 DEF Agree, Agrees, Served, Stable
  <2> QED
    BY <2>4, <2>5 DEF Good
<1> QED
  BY <1>1, <1>2 DEF Fine

\* One surface changes in what no report is about.
LEMMA SurfaceStable ==
  ASSUME NEW d, NEW b, Fine(d, b), NEW id \in DOMAIN d.surfaces, NEW x \in SurfaceStates,
         x.mapped = d.surfaces[id].mapped, d.surfaces[id].sized => x.sized
  PROVE  Fine([d EXCEPT !.surfaces[id] = x], b)
<1> DEFINE S == [d.surfaces EXCEPT ![id] = x]
           e == [d EXCEPT !.surfaces = S]
<1>1. d \in Displays
  BY DEF Fine
<1>2. /\ d \in DisplayFields /\ Linked(d) /\ DOMAIN d.surfaces \in SUBSET Surface
      /\ d.surfaces \in [DOMAIN d.surfaces -> SurfaceStates]
  BY <1>1, DisplayParts
<1>3. /\ S \in [DOMAIN d.surfaces -> SurfaceStates] /\ S[id] = x
      /\ \A i \in DOMAIN d.surfaces : i # id => S[i] = d.surfaces[i]
  BY <1>2
<1>4. [d EXCEPT !.surfaces[id] = x] = e
  BY <1>2 DEF DisplayFields
<1> HIDE DEF S
<1>5. S \in UNION {[D -> SurfaceStates] : D \in SUBSET Surface}
  BY <1>2, <1>3
<1>6. /\ e \in DisplayFields /\ e.surfaces = S /\ e.chan = d.chan /\ e.client = d.client
      /\ e.next_id = d.next_id /\ e.intercepts = d.intercepts /\ e.grabbed = d.grabbed
      /\ e.seat = d.seat /\ e.overlays = d.overlays
  BY <1>2, <1>5 DEF DisplayFields
<1> HIDE DEF e
<1>7. DOMAIN e.surfaces = DOMAIN d.surfaces
  BY <1>3, <1>6
<1>8. Linked(e)
  BY <1>2, <1>6, <1>7 DEF Linked
<1>9. Stable(d, e)
  BY <1>3, <1>6, <1>7 DEF Stable
<1>10. e \in Displays
  BY <1>6, <1>8 DEF Displays
<1> QED
  BY <1>4, <1>9, <1>10, StableFine

\* A command is what its type says.
LEMMA WishParts ==
  ASSUME NEW m \in Wishes
  PROVE  /\ m.type \in {"configure", "visible", "activated", "stacking", "grab", "border",
                        "intercepts", "overlay", "update", "drop"}
         /\ m.type = "configure" => m.value \in Places
         /\ m.type \in {"visible", "activated", "stacking", "grab"} => m.value \in BOOLEAN
         /\ m.type = "border" => m.value \in {"focused", "unfocused"}
         /\ m.type = "intercepts" => m.value \in SUBSET Keys
         /\ m.type = "overlay" => m.id \in Overlay
BY DEF Wishes

\* The seat, or the overlays, change.
LEMMA ScreenStable ==
  ASSUME NEW d, NEW b, Fine(d, b), NEW e, e \in DisplayFields,
         e.surfaces = d.surfaces, e.next_id = d.next_id, e.chan = d.chan, e.client = d.client,
         e.intercepts = d.intercepts, e.grabbed = d.grabbed,
         e.seat \in DOMAIN d.surfaces \cup {None}
  PROVE  Fine(e, b)
<1>1. d \in Displays /\ Linked(d)
  BY DisplayParts DEF Fine
<1>2. Linked(e)
  BY <1>1 DEF Linked
<1>3. e \in Displays /\ Stable(d, e)
  BY <1>2 DEF Displays, Stable
<1> QED
  BY <1>3, StableFine

\* What a window manager asks of the surfaces and of the screen.
LEMMA SurfaceCommands ==
  ASSUME NEW d, NEW b, Fine(d, b), NEW m \in Wishes,
         m.type \in {"configure", "visible", "stacking", "border"}
  PROVE  Fine(on_command(d, m), b)
<1> DEFINE id == m.id
           x == d.surfaces[id]
<1>1. d \in Displays
  BY DEF Fine
<1>2. d \in DisplayFields /\ d.surfaces \in [DOMAIN d.surfaces -> SurfaceStates]
  BY <1>1, DisplayParts
<1>3. CASE id \notin DOMAIN d.surfaces
  <2>1. on_command(d, m) = d
    BY <1>3 DEF on_command, has_surface, configure_surface, set_surface_visible,
                set_surface_stacking, set_surface_border
  <2> QED
    BY <2>1
<1>4. CASE id \in DOMAIN d.surfaces
  <2>1. x \in SurfaceStates
    BY <1>2, <1>4
  <2>2. CASE m.type = "configure"
    <3> DEFINE y == [x EXCEPT !.place = m.value, !.sized = TRUE]
    <3>1. m.value \in Places
      BY <2>2, WishParts
    <3>2. y \in SurfaceStates /\ y.mapped = x.mapped /\ y.sized
      BY <2>1, <3>1 DEF SurfaceStates
    <3>3. on_command(d, m) = [d EXCEPT !.surfaces[id] = y]
      <4>1. on_command(d, m) = configure_surface(d, id, m.value)
        BY <2>2 DEF on_command
      <4>2. configure_surface(d, id, m.value)
              = [d EXCEPT !.surfaces[id].place = m.value, !.surfaces[id].sized = TRUE]
        BY <1>4 DEF configure_surface, has_surface
      <4>3. [d EXCEPT !.surfaces[id].place = m.value, !.surfaces[id].sized = TRUE]
              = [d EXCEPT !.surfaces[id] = y]
        BY <1>2, <1>4 DEF DisplayFields
      <4> QED
        BY <4>1, <4>2, <4>3
    <3> HIDE DEF y
    <3>4. Fine([d EXCEPT !.surfaces[id] = y], b)
      BY <1>4, <3>2, SurfaceStable
    <3> QED
      BY <3>3, <3>4
  <2>3. CASE m.type = "visible"
    <3> DEFINE y == [x EXCEPT !.visible = m.value]
    <3>1. m.value \in BOOLEAN
      BY <2>3, WishParts
    <3>2. y \in SurfaceStates /\ y.mapped = x.mapped /\ y.sized = x.sized
      BY <2>1, <3>1 DEF SurfaceStates
    <3>3. on_command(d, m) = [d EXCEPT !.surfaces[id] = y]
      BY <1>4, <2>3 DEF on_command, set_surface_visible, has_surface
    <3> HIDE DEF y
    <3>4. Fine([d EXCEPT !.surfaces[id] = y], b)
      BY <1>4, <3>2, SurfaceStable
    <3> QED
      BY <3>3, <3>4
  <2>4. CASE m.type = "stacking"
    <3> DEFINE y == [x EXCEPT !.raised = m.value]
    <3>1. m.value \in BOOLEAN
      BY <2>4, WishParts
    <3>2. y \in SurfaceStates /\ y.mapped = x.mapped /\ y.sized = x.sized
      BY <2>1, <3>1 DEF SurfaceStates
    <3>3. on_command(d, m) = [d EXCEPT !.surfaces[id] = y]
      BY <1>4, <2>4 DEF on_command, set_surface_stacking, has_surface
    <3> HIDE DEF y
    <3>4. Fine([d EXCEPT !.surfaces[id] = y], b)
      BY <1>4, <3>2, SurfaceStable
    <3> QED
      BY <3>3, <3>4
  <2>5. CASE m.type = "border"
    <3> DEFINE y == [x EXCEPT !.border = m.value]
    <3>1. m.value \in {"focused", "unfocused"}
      BY <2>5, WishParts
    <3>2. y \in SurfaceStates /\ y.mapped = x.mapped /\ y.sized = x.sized
      BY <2>1, <3>1 DEF SurfaceStates
    <3>3. on_command(d, m) = [d EXCEPT !.surfaces[id] = y]
      BY <1>4, <2>5 DEF on_command, set_surface_border, has_surface
    <3> HIDE DEF y
    <3>4. Fine([d EXCEPT !.surfaces[id] = y], b)
      BY <1>4, <3>2, SurfaceStable
    <3> QED
      BY <3>3, <3>4
  <2> QED
    BY <2>2, <2>3, <2>4, <2>5
<1> QED
  BY <1>3, <1>4

LEMMA ScreenCommands ==
  ASSUME NEW d, NEW b, Fine(d, b), NEW m \in Wishes,
         m.type \in {"activated", "overlay", "update", "drop"}
  PROVE  Fine(on_command(d, m), b)
<1> DEFINE id == m.id
<1>1. d \in Displays
  BY DEF Fine
<1>2. d \in DisplayFields /\ Linked(d) /\ d.seat \in DOMAIN d.surfaces \cup {None}
      /\ DOMAIN d.surfaces \in SUBSET Surface
  BY <1>1, DisplayParts DEF Linked
<1>3. PICK D \in SUBSET Ids : d.overlays \in [D -> BOOLEAN]
  BY <1>1, DisplayParts
<1>4. CASE m.type = "activated"
  <2>1. on_command(d, m) = set_surface_activated(d, id, m.value)
    BY <1>4 DEF on_command
  <2>2. CASE id \notin DOMAIN d.surfaces
    BY <2>1, <2>2 DEF set_surface_activated, has_surface
  <2>3. CASE id \in DOMAIN d.surfaces
    <3> DEFINE z == IF m.value THEN id ELSE IF d.seat = id THEN None ELSE d.seat
               e == [d EXCEPT !.seat = z]
    <3>1. set_surface_activated(d, id, m.value) = e
      BY <2>3 DEF set_surface_activated, has_surface
    <3>2. z \in DOMAIN d.surfaces \cup {None} /\ z \in Ids
      BY <1>2, <2>3, Known
    <3> HIDE DEF z
    <3>3. /\ e \in DisplayFields /\ e.surfaces = d.surfaces /\ e.next_id = d.next_id
          /\ e.chan = d.chan /\ e.client = d.client /\ e.intercepts = d.intercepts
          /\ e.grabbed = d.grabbed /\ e.seat = z
      BY <1>2, <3>2 DEF DisplayFields
    <3> HIDE DEF e
    <3> QED
      BY <2>1, <3>1, <3>2, <3>3, ScreenStable
  <2> QED
    BY <2>2, <2>3
<1>5. ASSUME NEW E \in SUBSET Ids, NEW ov \in [E -> BOOLEAN]
      PROVE  Fine([d EXCEPT !.overlays = ov], b)
  <2> DEFINE e == [d EXCEPT !.overlays = ov]
  <2>1. ov \in UNION {[F -> BOOLEAN] : F \in SUBSET Ids}
    BY <1>5
  <2>2. /\ e \in DisplayFields /\ e.surfaces = d.surfaces /\ e.next_id = d.next_id
        /\ e.chan = d.chan /\ e.client = d.client /\ e.intercepts = d.intercepts
        /\ e.grabbed = d.grabbed /\ e.seat = d.seat
    BY <1>2, <2>1 DEF DisplayFields
  <2> HIDE DEF e
  <2>3. Fine(e, b)
    BY <1>2, <2>2, ScreenStable
  <2> QED
    BY <2>3 DEF e
<1>6. CASE m.type = "overlay"
  <2> DEFINE ov == put(d.overlays, id, FALSE)
             e == [d EXCEPT !.overlays = ov]
             r == [type |-> "expose", id |-> id]
  <2>1. id \in Overlay /\ id \in Ids
    BY <1>6, WishParts, DisplayAssumption DEF Overlay, Ids
  <2>2. ov \in [D \cup {id} -> BOOLEAN]
    BY <1>3, PutIs
  <2>3. D \cup {id} \in SUBSET Ids
    BY <2>1
  <2>4. on_command(d, m) = send_event(e, r)
    BY <1>6 DEF on_command, create_overlay
  <2> HIDE DEF ov
  <2>5. Fine(e, b)
    BY <1>5, <2>2, <2>3
  <2>6. r \in Reports /\ r.type = "expose"
    BY <2>1 DEF Reports
  <2> HIDE DEF e, r
  <2>7. Fine(send_event(e, r), b)
    BY <2>5, <2>6, NeutralReport
  <2> QED
    BY <2>4, <2>7
<1>7. CASE m.type = "update"
  <2>1. on_command(d, m) = update_overlay(d, id)
    BY <1>7 DEF on_command
  <2>2. CASE id \notin DOMAIN d.overlays
    BY <2>1, <2>2 DEF update_overlay
  <2>3. CASE id \in DOMAIN d.overlays
    <3> DEFINE ov == [d.overlays EXCEPT ![id] = TRUE]
    <3>1. update_overlay(d, id) = [d EXCEPT !.overlays = ov]
      BY <2>3 DEF update_overlay
    <3>2. ov \in [D -> BOOLEAN]
      BY <1>3
    <3> HIDE DEF ov
    <3>3. Fine([d EXCEPT !.overlays = ov], b)
      BY <1>3, <1>5, <3>2
    <3> QED
      BY <2>1, <3>1, <3>3
  <2> QED
    BY <2>2, <2>3
<1>8. CASE m.type = "drop"
  <2> DEFINE ov == Restrict(d.overlays, DOMAIN d.overlays \ {id})
  <2>1. on_command(d, m) = [d EXCEPT !.overlays = ov]
    BY <1>8 DEF on_command, destroy_overlay
  <2>2. ov \in [D \ {id} -> BOOLEAN]
    BY <1>3, RestrictIs
  <2>3. D \ {id} \in SUBSET Ids
    BY <1>3
  <2> HIDE DEF ov
  <2>4. Fine([d EXCEPT !.overlays = ov], b)
    BY <1>5, <2>2, <2>3
  <2> QED
    BY <2>1, <2>4
<1> QED
  BY <1>4, <1>6, <1>7, <1>8

\* One message is taken from a connection; what it says of grabs is done.
popped(d) ==
  LET c == d.client
      m == Head(d.chan[c].down)
  IN  [d EXCEPT !.chan = [d.chan EXCEPT ![c] = [d.chan[c] EXCEPT !.down = Tail(d.chan[c].down)]],
                !.intercepts = IF m.type = "intercepts" THEN m.value ELSE d.intercepts,
                !.grabbed = IF m.type = "grab" THEN m.value ELSE d.grabbed]

LEMMA MarkedPop ==
  ASSUME NEW pc, NEW ch \in Channels, Marked(pc, ch), ch.down # <<>>,
         NEW x \in Channels, x.up = ch.up, x.down = Tail(ch.down), x.ds # "backlog"
  PROVE  /\ Marked(pc, x)
         /\ Head(ch.down).type = "request" /\ pc \in {"hello", "boot", "run"} =>
              /\ pc = "boot" /\ x.down = <<>>
              /\ \A i \in DOMAIN ch.up : ch.up[i].type \notin {"begin", "end"}
<1>1. CASE pc = "hello"
  BY <1>1 DEF Marked
<1>2. CASE pc = "boot"
  <2>1. ch.down \in {<<Hi, Ask>>, <<Ask>>}
    BY <1>2 DEF Marked
  <2>2. Tail(<<Hi, Ask>>) = <<Ask>> /\ Tail(<<Ask>>) = <<>>
    OBVIOUS
  <2>3. Head(<<Hi, Ask>>) = Hi /\ Head(<<Ask>>) = Ask /\ Hi.type # "request"
    BY DEF Hi, Ask
  <2>4. /\ x.down \in {<<Ask>>, <<>>}
        /\ Head(ch.down).type = "request" => x.down = <<>>
    BY <2>1, <2>2, <2>3
  <2>5. \A i \in DOMAIN ch.up : ch.up[i].type \notin {"begin", "end"}
    BY <1>2 DEF Marked
  <2>6. \A i, j \in DOMAIN x.up : x.up[i].type = "begin" /\ x.up[j].type = "end" => i < j
    BY <2>5
  <2> QED
    BY <1>2, <2>4, <2>5, <2>6 DEF Marked
<1>3. CASE pc = "run"
  <2>1. ch.down \in Seq(Wishes)
    BY <1>3 DEF Marked
  <2>2. Tail(ch.down) \in Seq(Wishes) /\ Head(ch.down) \in Wishes
    BY <2>1
  <2>3. Head(ch.down).type # "request"
    BY <2>2, WishParts
  <2> QED
    BY <1>3, <2>2, <2>3 DEF Marked
<1>4. CASE pc \notin {"hello", "boot", "run"}
  BY <1>4 DEF Marked
<1> QED
  BY <1>1, <1>2, <1>3, <1>4

LEMMA Popped ==
  ASSUME NEW d \in Displays, d.client # None, d.chan[d.client].down # <<>>
  PROVE  LET q == popped(d)
             c == d.client
             m == Head(d.chan[c].down)
         IN  /\ q \in Displays /\ Same(d, q) /\ q.client = c /\ m \in Orders
             /\ m.type \notin {"intercepts", "grab"} =>
                  q = [d EXCEPT !.chan[c].down = Tail(@)]
             /\ m.type = "intercepts" =>
                  q = [[d EXCEPT !.chan[c].down = Tail(@)] EXCEPT !.intercepts = m.value]
             /\ m.type = "grab" =>
                  q = [[d EXCEPT !.chan[c].down = Tail(@)] EXCEPT !.grabbed = m.value]
             /\ \A b, M : Talk(d, b, M) =>
                  /\ Talk(q, b, M)
                  /\ b.conn # c \/ m.type # "request" => (Served(q, b) => Served(d, b))
                  /\ b.conn = c /\ m.type = "request" /\ b.pc \in {"hello", "boot", "run"} =>
                       /\ b.pc = "boot" /\ q.chan[c].down = <<>>
                       /\ \A i \in DOMAIN q.chan[c].up : q.chan[c].up[i].type \notin {"begin", "end"}
<1> DEFINE c == d.client
           ch == d.chan[c]
           m == Head(ch.down)
           x == [ch EXCEPT !.down = Tail(ch.down)]
           ct == [d.chan EXCEPT ![c] = x]
           ks == IF m.type = "intercepts" THEN m.value ELSE d.intercepts
           gr == IF m.type = "grab" THEN m.value ELSE d.grabbed
           q == [d EXCEPT !.chan = ct, !.intercepts = ks, !.grabbed = gr]
           goal(a) ==
             /\ a \in Displays /\ Same(d, a) /\ a.client = c /\ m \in Orders
             /\ m.type \notin {"intercepts", "grab"} =>
                  a = [d EXCEPT !.chan[c].down = Tail(@)]
             /\ m.type = "intercepts" =>
                  a = [[d EXCEPT !.chan[c].down = Tail(@)] EXCEPT !.intercepts = m.value]
             /\ m.type = "grab" =>
                  a = [[d EXCEPT !.chan[c].down = Tail(@)] EXCEPT !.grabbed = m.value]
             /\ \A b, M : Talk(d, b, M) =>
                  /\ Talk(a, b, M)
                  /\ b.conn # c \/ m.type # "request" => (Served(a, b) => Served(d, b))
                  /\ b.conn = c /\ m.type = "request" /\ b.pc \in {"hello", "boot", "run"} =>
                       /\ b.pc = "boot" /\ a.chan[c].down = <<>>
                       /\ \A i \in DOMAIN a.chan[c].up : a.chan[c].up[i].type \notin {"begin", "end"}
<1> SUFFICES goal(popped(d))
  OBVIOUS
<1>0. popped(d) = q
  BY DEF popped
<1>1. /\ d \in DisplayFields /\ Linked(d) /\ d.chan \in Seq(Channels)
      /\ DOMAIN d.chan = 1 .. Len(d.chan) /\ Len(d.chan) \in Nat /\ None \notin DOMAIN d.chan
      /\ d.intercepts \in SUBSET Keys /\ d.grabbed \in BOOLEAN
  BY DisplayParts
<1>2. c \in DOMAIN d.chan
  BY <1>1 DEF Linked
<1>3. ch \in Channels /\ ch.ds # "backlog"
  BY <1>1, <1>2 DEF Linked
<1>4. ch.down \in Seq(Orders) /\ ch.down # <<>>
  BY <1>3 DEF Channels
<1>5. Tail(ch.down) \in Seq(Orders) /\ m \in Orders
  BY <1>4
<1>6. /\ x \in Channels /\ x.up = ch.up /\ x.down = Tail(ch.down) /\ x.wm = ch.wm /\ x.ds = ch.ds
  <2> DEFINE t == Tail(ch.down)
  <2> HIDE DEF t, ch
  <2>1. x = [ch EXCEPT !.down = t] /\ t \in Seq(Orders)
    BY <1>5 DEF t
  <2> HIDE DEF x
  <2>2. x \in Channels /\ x.up = ch.up /\ x.down = t /\ x.wm = ch.wm /\ x.ds = ch.ds
    BY <1>3, <2>1 DEF Channels
  <2> QED
    BY <2>2 DEF t
<1>7. m.type \in {"intercepts", "grab"} => m \in Wishes
  BY <1>5 DEF Orders
<1>8. ks \in SUBSET Keys /\ gr \in BOOLEAN
  BY <1>1, <1>7, WishParts
<1>9. [d EXCEPT !.chan[c].down = Tail(@)] = [d EXCEPT !.chan = ct]
  BY DEF x
<1> HIDE DEF x
<1>10. /\ ct \in Seq(Channels) /\ DOMAIN ct = DOMAIN d.chan /\ ct[c] = x
       /\ \A i \in DOMAIN d.chan : i # c => ct[i] = d.chan[i]
  BY <1>1, <1>2, <1>6
<1> HIDE DEF ct, ks, gr
<1>11. /\ q \in DisplayFields /\ Same(d, q) /\ q.client = c /\ q.intercepts = ks
       /\ q.grabbed = gr /\ q.chan = ct
  BY <1>1, <1>8, <1>10 DEF DisplayFields, Same
<1>12. /\ m.type \notin {"intercepts", "grab"} => q = [d EXCEPT !.chan = ct]
       /\ m.type = "intercepts" => q = [[d EXCEPT !.chan = ct] EXCEPT !.intercepts = m.value]
       /\ m.type = "grab" => q = [[d EXCEPT !.chan = ct] EXCEPT !.grabbed = m.value]
  BY <1>1 DEF DisplayFields, ks, gr
<1> HIDE DEF q
<1>13. Linked(q)
  BY <1>1, <1>2, <1>6, <1>10, <1>11 DEF Linked, Same
<1>14. ASSUME NEW b, NEW M, Talk(d, b, M)
       PROVE  /\ Talk(q, b, M)
              /\ b.conn # c \/ m.type # "request" => (Served(q, b) => Served(d, b))
              /\ b.conn = c /\ m.type = "request" /\ b.pc \in {"hello", "boot", "run"} =>
                   /\ b.pc = "boot" /\ q.chan[c].down = <<>>
                   /\ \A i \in DOMAIN q.chan[c].up : q.chan[c].up[i].type \notin {"begin", "end"}
  <2>1. b.conn \in DOMAIN d.chan /\ b.conn \in DOMAIN q.chan
    BY <1>10, <1>11, <1>14 DEF Talk
  <2>2. CASE b.conn # c
    <3>1. q.chan[b.conn] = d.chan[b.conn]
      BY <1>10, <1>11, <2>1, <2>2
    <3>2. keys_of(q, b.conn) = keys_of(d, b.conn) /\ grab_of(q, b.conn) = grab_of(d, b.conn)
      BY <1>11, <2>2 DEF keys_of, grab_of
    <3>3. Talk(q, b, M)
      BY <1>14, <2>1, <3>1, <3>2, SameTalk
    <3>4. ~ Served(q, b)
      BY <1>11, <2>2 DEF Served
    <3> QED
      BY <2>2, <3>3, <3>4
  <2>3. CASE b.conn = c
    <3>1. q.chan[b.conn] = x /\ d.chan[b.conn] = ch
      BY <1>10, <1>11, <2>3
    <3>2. /\ ch.wm = "open" /\ Traced(b.surfaces, ch.up, M) /\ Owed(d, b) /\ Marked(b.pc, ch)
      BY <1>14, <3>1 DEF Talk
    <3> HIDE DEF ch
    <3>3. /\ Marked(b.pc, x)
          /\ m.type = "request" /\ b.pc \in {"hello", "boot", "run"} =>
              /\ b.pc = "boot" /\ x.down = <<>>
              /\ \A i \in DOMAIN ch.up : ch.up[i].type \notin {"begin", "end"}
      BY <1>3, <1>4, <1>6, <3>2, MarkedPop
    <3>4. Owed(q, b)
      <4> SUFFICES ASSUME x.ds # "closed" PROVE Owed(q, b)
        BY <3>1 DEF Owed
      <4> DEFINE v == IF b.pc = "run" THEN KeysHeld ELSE {}
                 u == b.dragging # NoWindow
      <4>1. /\ Leaves("intercepts", ch.down, d.intercepts, v)
            /\ Leaves("grab", ch.down, d.grabbed, u)
        BY <1>6, <2>3, <3>1, <3>2 DEF Owed, keys_of, grab_of
      <4> HIDE DEF v, u
      <4>2. /\ Leaves("intercepts", Tail(ch.down), ks, v)
            /\ Leaves("grab", Tail(ch.down), gr, u)
        BY <1>4, <4>1, LeavesRest DEF ks, gr
      <4>3. keys_of(q, b.conn) = ks /\ grab_of(q, b.conn) = gr
        BY <1>11, <2>3 DEF keys_of, grab_of
      <4>4. /\ Leaves("intercepts", q.chan[b.conn].down, keys_of(q, b.conn), v)
            /\ Leaves("grab", q.chan[b.conn].down, grab_of(q, b.conn), u)
        BY <1>6, <3>1, <4>2, <4>3
      <4> QED
        BY <4>4 DEF Owed, v, u
    <3>5. Talk(q, b, M)
      BY <1>6, <2>1, <3>1, <3>2, <3>3, <3>4 DEF Talk
    <3>6. ASSUME m.type # "request", Served(q, b) PROVE Served(d, b)
      <4>1. \A i \in DOMAIN x.down : x.down[i].type # "request"
        BY <3>1, <3>6 DEF Served
      <4>2. /\ Len(ch.down) \in Nat \ {0} /\ DOMAIN ch.down = 1 .. Len(ch.down)
            /\ DOMAIN Tail(ch.down) = 1 .. Len(ch.down) - 1 /\ m = ch.down[1]
            /\ \A i \in 1 .. Len(ch.down) - 1 : Tail(ch.down)[i] = ch.down[i + 1]
        BY <1>4
      <4>3. ASSUME NEW i \in DOMAIN ch.down PROVE ch.down[i].type # "request"
        <5>1. CASE i = 1
          BY <3>6, <4>2, <5>1
        <5>2. CASE i # 1
          <6>1. i - 1 \in 1 .. Len(ch.down) - 1 /\ (i - 1) + 1 = i
            BY <4>2, <5>2
          <6> QED
            BY <1>6, <4>1, <4>2, <6>1
        <5> QED
          BY <5>1, <5>2
      <4> QED
        BY <2>3, <3>1, <3>6, <4>3 DEF Served
    <3> QED
      BY <1>6, <2>3, <3>1, <3>3, <3>5, <3>6
  <2> QED
    BY <2>2, <2>3
<1>15. goal(q)
  BY <1>5, <1>9, <1>11, <1>12, <1>13, <1>14 DEF Displays
<1> HIDE DEF goal
<1> QED
  BY <1>0, <1>15

\* A report reaches the window manager that is the client, and only that one.
LEMMA Tells ==
  ASSUME NEW d \in Displays, NEW m \in Reports, NEW b, NEW M, Talk(d, b, M),
         d.client = b.conn => Suits(b.pc, d.chan[b.conn], m) /\ Fresh(M, m)
  PROVE  LET e == send_event(d, m)
         IN  /\ e \in Displays /\ Same(d, e)
             /\ Talk(e, b, IF e.client = b.conn THEN mirrored(M, m) ELSE M)
             /\ e.client = b.conn => /\ d.client = b.conn
                                     /\ e.chan[b.conn].down = d.chan[b.conn].down
<1> DEFINE e == send_event(d, m)
<1>1. b.conn \in Nat /\ b.conn # None
  BY TalkConn, DisplayAssumption
<1>2. /\ e \in Displays /\ Same(d, e)
      /\ e.client # None =>
           e.client = d.client /\ e.chan[e.client].down = d.chan[d.client].down
      /\ Talk(e, b, IF e.client = b.conn THEN mirrored(M, m) ELSE M)
  BY <1>1, Sends_event
<1> HIDE DEF e
<1> QED
  BY <1>1, <1>2 DEF e

\* The surfaces up to i have been described.
Partly(M, S, i) ==
  /\ M.known = {id \in DOMAIN S : id <= i} /\ M.mapped = {id \in DOMAIN S : id <= i /\ S[id].mapped}
  /\ M.mapped \subseteq M.sized

Telling(d, b, i) ==
  \E M : /\ Talk(d, b, M) /\ M.known \subseteq 1 .. d.next_id - 1
         /\ d.client = b.conn => /\ b.pc = "boot" /\ d.chan[b.conn].down = <<>>
                                 /\ Partly(M, d.surfaces, i)

LEMMA SurfaceReports ==
  ASSUME NEW id \in Surface
  PROVE  /\ [type |-> "created", id |-> id] \in Reports
         /\ [type |-> "mapped", id |-> id] \in Reports
         /\ [type |-> "destroyed", id |-> id] \in Reports
         /\ [type |-> "committed", id |-> id, sized |-> TRUE] \in Reports
BY DEF Reports

\* A report about a surface that is not a mark, to a window manager in its
\* snapshot.
LEMMA TellsOn ==
  ASSUME NEW d \in Displays, NEW m \in Reports, m.type \notin {"begin", "end"},
         NEW b, NEW M, Talk(d, b, M), M.known \subseteq 1 .. d.next_id - 1,
         m.type = "created" => m.id \in 1 .. d.next_id - 1,
         d.client = b.conn => /\ b.pc = "boot" /\ d.chan[b.conn].down = <<>>
                              /\ Fresh(M, m)
  PROVE  LET e == send_event(d, m)
         IN  /\ e \in Displays /\ Same(d, e)
             /\ \E N : /\ Talk(e, b, N) /\ N.known \subseteq 1 .. d.next_id - 1
                       /\ e.client = b.conn =>
                            /\ d.client = b.conn /\ e.chan[b.conn].down = <<>>
                            /\ N = mirrored(M, m)
<1> DEFINE e == send_event(d, m)
           N == IF e.client = b.conn THEN mirrored(M, m) ELSE M
<1>1. d.client = b.conn => Suits(b.pc, d.chan[b.conn], m) /\ Fresh(M, m)
  BY DEF Suits
<1>2. /\ e \in Displays /\ Same(d, e) /\ Talk(e, b, N)
      /\ e.client = b.conn => /\ d.client = b.conn
                              /\ e.chan[b.conn].down = d.chan[b.conn].down
  BY <1>1, Tells
<1> HIDE DEF e
<1>3. mirrored(M, m).known \subseteq 1 .. d.next_id - 1
  BY DEF mirrored
<1>4. N.known \subseteq 1 .. d.next_id - 1
  BY <1>3
<1>5. e.client = b.conn => N = mirrored(M, m)
  OBVIOUS
<1> HIDE DEF N
<1> QED
  BY <1>2, <1>4, <1>5 DEF e

LEMMA DescribesTyped ==
  ASSUME NEW d \in Displays, NEW id \in Nat
  PROVE  describe(d, id) \in Displays /\ Same(d, describe(d, id))
<1> DEFINE m1 == [type |-> "created", id |-> id]
           m2 == [type |-> "mapped", id |-> id]
           m3 == [type |-> "committed", id |-> id, sized |-> TRUE]
           a == send_event(d, m1)
           f == IF d.surfaces[id].mapped THEN send_event(a, m2) ELSE a
           e == IF d.surfaces[id].sized THEN send_event(f, m3) ELSE f
<1>1. CASE ~ has_surface(d, id)
  BY <1>1 DEF describe, Same
<1>2. CASE has_surface(d, id)
  <2>1. describe(d, id) = e
    BY <1>2 DEF describe, describe_surface
  <2>2. id \in Surface
    BY <1>2, DisplayParts DEF has_surface
  <2>3. m1 \in Reports /\ m2 \in Reports /\ m3 \in Reports
    BY <2>2, SurfaceReports
  <2> HIDE DEF m1, m2, m3
  <2>4. a \in Displays /\ Same(d, a)
    BY <2>3, DisplayEvent
  <2> HIDE DEF a
  <2>5. f \in Displays /\ Same(a, f)
    <3>1. Same(a, a)
      BY DEF Same
    <3> QED
      BY <2>3, <2>4, <3>1, DisplayEvent
  <2> HIDE DEF f
  <2>6. e \in Displays /\ Same(f, e)
    <3>1. Same(f, f)
      BY DEF Same
    <3> QED
      BY <2>3, <2>5, <3>1, DisplayEvent
  <2> HIDE DEF e
  <2>7. Same(d, e)
    BY <2>4, <2>5, <2>6 DEF Same
  <2> QED
    BY <2>1, <2>6, <2>7
<1> QED
  BY <1>1, <1>2

LEMMA Describes ==
  ASSUME NEW d \in Displays, Sizes(d), NEW b, NEW id \in Nat \ {0}, Telling(d, b, id - 1)
  PROVE  Telling(describe(d, id), b, id)
<1> DEFINE m1 == [type |-> "created", id |-> id]
           m2 == [type |-> "mapped", id |-> id]
           m3 == [type |-> "committed", id |-> id, sized |-> TRUE]
           a == send_event(d, m1)
           f == IF d.surfaces[id].mapped THEN send_event(a, m2) ELSE a
           e == IF d.surfaces[id].sized THEN send_event(f, m3) ELSE f
           S == d.surfaces
           n == d.next_id - 1
<1>1. PICK M : /\ Talk(d, b, M) /\ M.known \subseteq 1 .. n
               /\ d.client = b.conn => /\ b.pc = "boot" /\ d.chan[b.conn].down = <<>>
                                       /\ Partly(M, S, id - 1)
  BY DEF Telling
<1>2. DOMAIN S \in SUBSET Surface /\ DOMAIN S \subseteq 1 .. n /\ n \in Nat
  BY DisplayParts DEF Linked
<1>3. \A x \in DOMAIN S : x \in Nat
  BY <1>2
<1>4. CASE ~ has_surface(d, id)
  <2>1. describe(d, id) = d
    BY <1>4 DEF describe
  <2>2. id \notin DOMAIN S
    BY <1>4 DEF has_surface
  <2>3. \A x \in DOMAIN S : x <= id - 1 <=> x <= id
    BY <1>3, <2>2
  <2>4. Partly(M, S, id - 1) => Partly(M, S, id)
    BY <2>3 DEF Partly
  <2> QED
    BY <1>1, <2>1, <2>4 DEF Telling
<1>5. CASE has_surface(d, id)
  <2>1. describe(d, id) = e
    BY <1>5 DEF describe, describe_surface
  <2>2. id \in DOMAIN S /\ id \in Surface /\ id \in 1 .. n
    BY <1>2, <1>5 DEF has_surface
  <2>3. m1 \in Reports /\ m2 \in Reports /\ m3 \in Reports
    BY <2>2, SurfaceReports
  <2>4. /\ m1.type = "created" /\ m1.id = id /\ m2.type = "mapped" /\ m2.id = id
        /\ m3.type = "committed" /\ m3.id = id
    OBVIOUS
  <2> HIDE DEF m1, m2, m3
  <2>5. d.client = b.conn => id \notin M.known /\ Fresh(M, m1)
    BY <1>1, <1>3, <2>4 DEF Partly, Fresh
  <2>6. PICK N1 : /\ a \in Displays /\ Same(d, a) /\ Talk(a, b, N1) /\ N1.known \subseteq 1 .. n
                  /\ a.client = b.conn => /\ d.client = b.conn /\ a.chan[b.conn].down = <<>>
                                          /\ N1 = mirrored(M, m1)
    <3> HIDE DEF n
    <3>1. m1.type \notin {"begin", "end"} /\ (m1.type = "created" => m1.id \in 1 .. d.next_id - 1)
      BY <2>2, <2>4 DEF n
    <3> QED
      BY <1>1, <2>3, <2>5, <3>1, TellsOn DEF n
  <2> HIDE DEF a
  <2>7. a.next_id = d.next_id /\ (a.client = b.conn => b.pc = "boot" /\ Partly(M, S, id - 1))
    BY <1>1, <2>6 DEF Same
  <2>8. a.client = b.conn => /\ N1.known = {x \in DOMAIN S : x <= id}
                             /\ N1.mapped = {x \in DOMAIN S : x <= id - 1 /\ S[x].mapped}
                             /\ N1.mapped \subseteq N1.sized
    <3> SUFFICES ASSUME a.client = b.conn
                 PROVE  /\ N1.known = {x \in DOMAIN S : x <= id}
                        /\ N1.mapped = {x \in DOMAIN S : x <= id - 1 /\ S[x].mapped}
                        /\ N1.mapped \subseteq N1.sized
      OBVIOUS
    <3>1. N1.known = M.known \cup {id} /\ N1.mapped = M.mapped /\ N1.sized = M.sized
      BY <2>4, <2>6 DEF mirrored
    <3>2. Partly(M, S, id - 1)
      BY <2>7
    <3>3. {x \in DOMAIN S : x <= id - 1} \cup {id} = {x \in DOMAIN S : x <= id}
      BY <1>3, <2>2
    <3> QED
      BY <3>1, <3>2, <3>3 DEF Partly
  <2>9. PICK N2 : /\ f \in Displays /\ Same(d, f) /\ Talk(f, b, N2) /\ N2.known \subseteq 1 .. n
                  /\ f.client = b.conn =>
                       /\ b.pc = "boot" /\ f.chan[b.conn].down = <<>>
                       /\ N2.known = {x \in DOMAIN S : x <= id}
                       /\ N2.mapped = {x \in DOMAIN S : x <= id /\ S[x].mapped}
                       /\ N2.mapped \subseteq N2.sized \cup {id}
                       /\ ~ S[id].mapped => N2.mapped \subseteq N2.sized
    <3>1. CASE ~ S[id].mapped
      <4>1. f = a
        BY <3>1
      <4>2. {x \in DOMAIN S : x <= id - 1 /\ S[x].mapped} = {x \in DOMAIN S : x <= id /\ S[x].mapped}
        BY <1>3, <2>2, <3>1
      <4> QED
        BY <2>6, <2>7, <2>8, <4>1, <4>2
    <3>2. CASE S[id].mapped
      <4>1. f = send_event(a, m2)
        BY <3>2
      <4>2. m2.type \notin {"begin", "end", "created"} /\ Fresh(N1, m2)
        BY <2>4 DEF Fresh
      <4>3. PICK N2 : /\ f \in Displays /\ Same(a, f) /\ Talk(f, b, N2)
                      /\ N2.known \subseteq 1 .. a.next_id - 1
                      /\ f.client = b.conn => /\ a.client = b.conn /\ f.chan[b.conn].down = <<>>
                                              /\ N2 = mirrored(N1, m2)
        <5> DEFINE f0 == send_event(a, m2)
        <5>1. N1.known \subseteq 1 .. a.next_id - 1
          BY <2>6, <2>7
        <5>2. a.client = b.conn => b.pc = "boot" /\ a.chan[b.conn].down = <<>> /\ Fresh(N1, m2)
          BY <2>6, <2>7, <4>2
        <5>3. \E N : /\ f0 \in Displays /\ Same(a, f0) /\ Talk(f0, b, N)
                     /\ N.known \subseteq 1 .. a.next_id - 1
                     /\ f0.client = b.conn => /\ a.client = b.conn /\ f0.chan[b.conn].down = <<>>
                                              /\ N = mirrored(N1, m2)
          BY <2>3, <2>6, <4>2, <5>1, <5>2, TellsOn
        <5> HIDE DEF f0, f
        <5> QED
          BY <4>1, <5>3 DEF f0
      <4> HIDE DEF f
      <4>4. Same(d, f) /\ N2.known \subseteq 1 .. n
        BY <2>6, <2>7, <4>3 DEF Same
      <4>5. ASSUME f.client = b.conn
            PROVE  /\ N2.known = {x \in DOMAIN S : x <= id}
                   /\ N2.mapped = {x \in DOMAIN S : x <= id /\ S[x].mapped}
                   /\ N2.mapped \subseteq N2.sized \cup {id}
        <5>1. id \in N1.known
          BY <2>2, <2>8, <4>3, <4>5
        <5>2. N2.known = N1.known /\ N2.mapped = N1.mapped \cup {id} /\ N2.sized = N1.sized
          BY <2>4, <4>3, <4>5, <5>1 DEF mirrored
        <5>3. {x \in DOMAIN S : x <= id - 1 /\ S[x].mapped} \cup {id}
                = {x \in DOMAIN S : x <= id /\ S[x].mapped}
          BY <1>3, <2>2, <3>2
        <5> QED
          BY <2>8, <4>3, <4>5, <5>2, <5>3
      <4> QED
        BY <2>7, <3>2, <4>3, <4>4, <4>5
    <3> QED
      BY <3>1, <3>2
  <2> HIDE DEF f
  <2>10. S[id].mapped => S[id].sized
    BY <2>2 DEF Sizes
  <2>11. f.next_id = d.next_id /\ f.surfaces = S
    BY <2>9 DEF Same
  <2>12. CASE ~ S[id].sized
    <3>1. e = f
      BY <2>12
    <3>2. f.client = b.conn => Partly(N2, S, id)
      BY <2>9, <2>10, <2>12 DEF Partly
    <3>3. Telling(f, b, id)
      BY <2>9, <2>11, <3>2 DEF Telling
    <3> HIDE DEF e
    <3> QED
      BY <2>1, <3>1, <3>3
  <2>13. CASE S[id].sized
    <3>1. e = send_event(f, m3)
      BY <2>13
    <3>2. m3.type \notin {"begin", "end", "created"} /\ Fresh(N2, m3)
      BY <2>4 DEF Fresh
    <3>3. PICK N3 : /\ e \in Displays /\ Same(f, e) /\ Talk(e, b, N3)
                    /\ N3.known \subseteq 1 .. f.next_id - 1
                    /\ e.client = b.conn => /\ f.client = b.conn /\ e.chan[b.conn].down = <<>>
                                            /\ N3 = mirrored(N2, m3)
      <4> DEFINE e0 == send_event(f, m3)
      <4>1. N2.known \subseteq 1 .. f.next_id - 1
        BY <2>9, <2>11
      <4>2. f.client = b.conn => b.pc = "boot" /\ f.chan[b.conn].down = <<>> /\ Fresh(N2, m3)
        BY <2>9, <3>2
      <4>3. \E N : /\ e0 \in Displays /\ Same(f, e0) /\ Talk(e0, b, N)
                   /\ N.known \subseteq 1 .. f.next_id - 1
                   /\ e0.client = b.conn => /\ f.client = b.conn /\ e0.chan[b.conn].down = <<>>
                                            /\ N = mirrored(N2, m3)
        BY <2>3, <2>9, <3>2, <4>1, <4>2, TellsOn
      <4> HIDE DEF e0, e
      <4> QED
        BY <3>1, <4>3 DEF e0
    <3> HIDE DEF e
    <3>4. e.next_id = f.next_id /\ e.surfaces = S
      BY <2>11, <3>3 DEF Same
    <3>5. ASSUME e.client = b.conn PROVE b.pc = "boot" /\ Partly(N3, S, id)
      <4>1. id \in N2.known
        BY <2>2, <2>9, <3>3, <3>5
      <4>2. N3.known = N2.known /\ N3.mapped = N2.mapped /\ N3.sized = N2.sized \cup {id}
        BY <2>4, <3>3, <3>5, <4>1 DEF mirrored
      <4> QED
        BY <2>9, <3>3, <3>5, <4>2 DEF Partly
    <3>6. Telling(e, b, id)
      BY <3>3, <3>4, <3>5 DEF Telling
    <3> QED
      BY <2>1, <3>6
  <2> QED
    BY <2>12, <2>13
<1> QED
  BY <1>4, <1>5

Described(d, list) == FoldLeft(describe, d, list)

LEMMA DescribeRun ==
  ASSUME NEW d \in Displays, NEW list \in Seq(Nat)
  PROVE  \E g : /\ g \in [0 .. Len(list) -> Displays] /\ g[0] = d
               /\ \A i \in 1 .. Len(list) : g[i] = describe(g[i - 1], list[i])
               /\ Described(d, list) = g[Len(list)]
<1> DEFINE Q  == Displays
           N  == Len(list)
           F  == [p \in Q \X (1 .. N) |-> describe(p[1], list[p[2]])]
           it == CHOOSE it : it = [S \in SUBSET DOMAIN list |->
                   IF S = {} THEN d
                   ELSE describe(it[S \ {Max(S)}], list[Max(S)])]
           g  == [i \in 0 .. N |-> it[1 .. i]]
<1>1. Described(d, list) = it[DOMAIN list]
  BY DEF Described, FoldLeft, MapThenFoldSet
<1>2. N \in Nat /\ DOMAIN list = 1 .. N
  OBVIOUS
<1>3. d \in Q
  OBVIOUS
<1>4. ASSUME NEW q \in Q, NEW i \in 1 .. N PROVE describe(q, list[i]) \in Q
  <2>1. list[i] \in Nat
    BY <1>2
  <2> QED
    BY <2>1, DescribesTyped
<1> HIDE DEF Q
<1>5. IsStep(F, Q, N)
  BY <1>2, <1>4 DEF IsStep
<1>6. it = [S \in SUBSET DOMAIN list |->
              IF S = {} THEN d
              ELSE describe(it[S \ {Max(S)}], list[Max(S)])]
  <2>1. PICK f : IsFold(f, d, F, Q, N)
    <3> HIDE DEF F
    <3> QED
      BY <1>2, <1>3, <1>5, FoldExists
  <2>2. /\ f \in [SUBSET (1 .. N) -> Q]
        /\ \A S \in SUBSET (1 .. N) :
             f[S] = IF S = {} THEN d ELSE F[<<f[S \ {Max(S)}], Max(S)>>]
    BY <2>1 DEF IsFold
  <2>3. \A S \in SUBSET (1 .. N) : S # {} => Max(S) \in 1 .. N
    BY <1>2, MaxIn
  <2>4. f = [S \in SUBSET DOMAIN list |->
               IF S = {} THEN d
               ELSE describe(f[S \ {Max(S)}], list[Max(S)])]
    BY <1>2, <2>2, <2>3
  <2> QED
    BY <2>4
<1> HIDE DEF it
<1>7. it[1 .. 0] = d
  <2>1. 1 .. 0 = {}
    OBVIOUS
  <2> QED
    BY <1>6, <2>1
<1>8. ASSUME NEW i \in 1 .. N PROVE it[1 .. i] = describe(it[1 .. (i - 1)], list[i])
  <2>0. i \in Nat \ {0}
    BY <1>2
  <2>1. Max(1 .. i) = i /\ (1 .. i) \ {i} = 1 .. (i - 1) /\ 1 .. i # {}
    BY <2>0, Prefix
  <2>2. 1 .. i \in SUBSET DOMAIN list
    BY <1>2
  <2> QED
    BY <1>6, <2>1, <2>2
<1>9. \A i \in 0 .. N : it[1 .. i] \in Q
  <2> DEFINE S == {i \in 0 .. N : it[1 .. i] \in Q}
  <2>1. 0 \in S
    BY <1>2, <1>3, <1>7
  <2>2. ASSUME NEW i \in 1 .. N, i - 1 \in S PROVE i \in S
    BY <1>2, <1>4, <1>8, <2>2
  <2> HIDE DEF S
  <2>3. \A i \in 0 .. N : i \in S
    BY <1>2, <2>1, <2>2, Climb
  <2> QED
    BY <2>3 DEF S
<1>10. g \in [0 .. N -> Q] /\ g[0] = d /\ Described(d, list) = g[N]
  BY <1>1, <1>2, <1>7, <1>9
<1>11. \A i \in 1 .. N : g[i] = describe(g[i - 1], list[i])
  <2>1. ASSUME NEW i \in 1 .. N PROVE i \in 0 .. N /\ i - 1 \in 0 .. N
    BY <1>2
  <2> QED
    BY <1>8, <2>1
<1> HIDE DEF g
<1> QED
  BY <1>10, <1>11 DEF Q

\* The snapshot: afterwards the window manager that asked is told of what
\* exists.
LEMMA SnapshotSent ==
  ASSUME NEW q \in Displays, Sizes(q), NEW b,
         b.pc # "down" =>
           \E M : /\ Talk(q, b, M) /\ M.known \subseteq 1 .. q.next_id - 1
                  /\ q.client = b.conn =>
                       /\ b.pc = "boot" /\ q.chan[b.conn].down = <<>>
                       /\ \A i \in DOMAIN q.chan[b.conn].up :
                            q.chan[b.conn].up[i].type \notin {"begin", "end"}
  PROVE  Fine(send_snapshot(q), b)
<1> DEFINE n == q.next_id - 1
           list == [i \in 1 .. n |-> i]
           m1 == [type |-> "begin"]
           m2 == [type |-> "end"]
           a == send_event(q, m1)
           f == Described(a, list)
           e == send_event(f, m2)
<1>1. send_snapshot(q) = e
  BY DEF send_snapshot, Described
<1>2. n \in Nat /\ DOMAIN q.surfaces \subseteq 1 .. n
  BY DisplayParts DEF Linked
<1>3. m1 \in Reports /\ m2 \in Reports /\ m1.type = "begin" /\ m2.type = "end"
  BY DEF Reports
<1> HIDE DEF m1, m2
<1>4. a \in Displays /\ Same(q, a)
  BY <1>3, DisplayEvent
<1>5. ASSUME b.pc # "down" PROVE Telling(a, b, 0)
  <2>1. PICK M : /\ Talk(q, b, M) /\ M.known \subseteq 1 .. n
                 /\ q.client = b.conn =>
                       /\ b.pc = "boot" /\ q.chan[b.conn].down = <<>>
                       /\ \A i \in DOMAIN q.chan[b.conn].up :
                            q.chan[b.conn].up[i].type \notin {"begin", "end"}
    BY <1>5
  <2>2. q.client = b.conn => Suits(b.pc, q.chan[b.conn], m1) /\ Fresh(M, m1)
    BY <1>3, <2>1 DEF Suits, Fresh
  <2> DEFINE N == IF a.client = b.conn THEN mirrored(M, m1) ELSE M
  <2>3. /\ Talk(a, b, N)
        /\ a.client = b.conn => /\ q.client = b.conn
                                /\ a.chan[b.conn].down = q.chan[b.conn].down
    BY <1>3, <2>1, <2>2, Tells
  <2> HIDE DEF a
  <2>4. mirrored(M, m1) = [known |-> {}, mapped |-> {}, sized |-> {}]
    BY <1>3 DEF mirrored
  <2>5. N.known \subseteq 1 .. n
    BY <2>1, <2>4
  <2>6. a.client = b.conn => Partly(N, a.surfaces, 0)
    <3>1. \A id \in DOMAIN a.surfaces : ~ id <= 0
      BY <1>2, <1>4 DEF Same
    <3> QED
      BY <2>4, <3>1 DEF Partly
  <2>7. a.next_id - 1 = n
    BY <1>4 DEF Same
  <2> HIDE DEF N
  <2> QED
    BY <2>1, <2>3, <2>5, <2>6, <2>7 DEF Telling
<1> HIDE DEF n
<1>6. list \in Seq(Nat) /\ Len(list) = n /\ \A i \in 1 .. n : list[i] = i
  BY <1>2
<1> HIDE DEF a, list
<1>7. PICK g : /\ g \in [0 .. n -> Displays] /\ g[0] = a
               /\ \A i \in 1 .. n : g[i] = describe(g[i - 1], list[i])
               /\ f = g[n]
  <2>1. list \in Seq(Nat)
    BY <1>6
  <2>2. PICK g : /\ g \in [0 .. Len(list) -> Displays] /\ g[0] = a
                 /\ \A i \in 1 .. Len(list) : g[i] = describe(g[i - 1], list[i])
                 /\ f = g[Len(list)]
    BY <1>4, <2>1, DescribeRun
  <2> QED
    BY <1>6, <2>2, Zenon
<1> HIDE DEF f
<1> DEFINE S == {i \in 0 .. n : Same(q, g[i]) /\ (b.pc # "down" => Telling(g[i], b, i))}
<1>8. 0 \in S
  BY <1>2, <1>4, <1>5, <1>7
<1>9. ASSUME NEW i \in 1 .. n, i - 1 \in S PROVE i \in S
  <2> DEFINE h == g[i - 1]
  <2>1. h \in Displays /\ Same(q, h) /\ (b.pc # "down" => Telling(h, b, i - 1))
    BY <1>2, <1>7, <1>9
  <2>2. g[i] = describe(h, i) /\ i \in Nat \ {0}
    BY <1>2, <1>6, <1>7
  <2> HIDE DEF h
  <2>3. Sizes(h)
    BY <2>1 DEF Sizes, Same
  <2>4. b.pc # "down" => Telling(g[i], b, i)
    BY <2>1, <2>2, <2>3, Describes
  <2>5. Same(h, g[i])
    BY <2>1, <2>2, DescribesTyped
  <2>6. Same(q, g[i])
    BY <2>1, <2>5 DEF Same
  <2> QED
    BY <1>2, <2>4, <2>6
<1> HIDE DEF S
<1>10. n \in S
  <2>1. \A i \in 0 .. n : i \in S
    BY <1>2, <1>8, <1>9, Climb, Zenon
  <2> QED
    BY <1>2, <2>1
<1>11. f \in Displays /\ Same(q, f) /\ (b.pc # "down" => Telling(f, b, n))
  BY <1>2, <1>7, <1>10 DEF S
<1>12. e \in Displays /\ Same(f, e)
  BY <1>3, <1>11, DisplayEvent
<1>13. Sizes(e)
  BY <1>11, <1>12 DEF Sizes, Same
<1>14. ASSUME b.pc # "down" PROVE Good(e, b)
  <2>1. PICK M : /\ Talk(f, b, M) /\ M.known \subseteq 1 .. f.next_id - 1
                 /\ f.client = b.conn => /\ b.pc = "boot" /\ f.chan[b.conn].down = <<>>
                                         /\ Partly(M, f.surfaces, n)
    BY <1>11, <1>14 DEF Telling
  <2>2. f.client = b.conn => Suits(b.pc, f.chan[b.conn], m2) /\ Fresh(M, m2)
    BY <1>3, <2>1 DEF Suits, Fresh
  <2>3. mirrored(M, m2) = M
    BY <1>3 DEF mirrored
  <2>4. /\ Talk(e, b, IF e.client = b.conn THEN mirrored(M, m2) ELSE M)
        /\ e.client = b.conn => f.client = b.conn
    BY <1>3, <1>11, <2>1, <2>2, Tells
  <2> HIDE DEF e
  <2>5. Talk(e, b, M)
    BY <2>3, <2>4
  <2>6. e.surfaces = q.surfaces /\ e.next_id = q.next_id /\ f.surfaces = q.surfaces
        /\ f.next_id = q.next_id
    BY <1>11, <1>12 DEF Same
  <2>7. \A id \in DOMAIN q.surfaces : id <= n
    BY <1>2
  <2>8. Served(e, b) => Agrees(M, e.surfaces)
    <3> SUFFICES ASSUME e.client = b.conn PROVE Agrees(M, q.surfaces)
      BY <2>6 DEF Served
    <3>1. Partly(M, q.surfaces, n)
      BY <2>1, <2>4, <2>6
    <3>2. /\ {id \in DOMAIN q.surfaces : id <= n} = DOMAIN q.surfaces
          /\ {id \in DOMAIN q.surfaces : id <= n /\ q.surfaces[id].mapped}
               = {id \in DOMAIN q.surfaces : q.surfaces[id].mapped}
      BY <2>7
    <3> QED
      BY <3>1, <3>2 DEF Partly, Agrees
  <2> QED
    BY <2>1, <2>5, <2>6, <2>8 DEF Good, Agree
<1>15. Fine(e, b)
  BY <1>12, <1>13, <1>14 DEF Fine
<1> QED
  BY <1>1, <1>15

\* dispatch_one_message.
LEMMA DispatchesOne ==
  ASSUME NEW d, NEW b, Fine(d, b), b.pc \in {"down", "hello", "boot", "run"}, NEW i
  PROVE  Fine(dispatch_one(d, i), b)
<1> DEFINE c == d.client
           m == Head(d.chan[c].down)
           p == [d EXCEPT !.chan[c].down = Tail(@)]
           q == popped(d)
<1>1. d \in Displays /\ Sizes(d)
  BY DEF Fine
<1>2. CASE c = None
  <2>1. dispatch_one(d, i) = d
    BY <1>2 DEF dispatch_one
  <2> QED
    BY <2>1
<1>3. CASE c # None /\ d.chan[c].down = <<>>
  <2> DEFINE e == disconnect_client(d)
  <2>1. dispatch_one(d, i) = e
    BY <1>3 DEF dispatch_one
  <2>2. /\ e \in Displays /\ e.client = None /\ Same(d, e)
        /\ \A M : Talk(d, b, M) => Talk(e, b, M)
    BY <1>1, Disconnects
  <2> HIDE DEF e
  <2>3. Sizes(e)
    BY <1>1, <2>2 DEF Sizes, Same
  <2>4. ASSUME b.pc # "down" PROVE Good(e, b)
    <3>1. PICK M : Talk(d, b, M) /\ Agree(d, b, M)
      BY <2>4 DEF Fine, Good
    <3>2. b.conn # None
      BY <1>1, <3>1, TalkConn, DisplayAssumption
    <3>3. ~ Served(e, b)
      BY <2>2, <3>2 DEF Served
    <3> QED
      BY <2>2, <3>1, <3>3 DEF Good, Agree, Same
  <2> QED
    BY <2>1, <2>2, <2>3, <2>4 DEF Fine
<1>4. CASE c # None /\ d.chan[c].down # <<>>
  <2>1. dispatch_one(d, i) = on_command(p, m)
    BY <1>4 DEF dispatch_one
  <2>2. /\ q \in Displays /\ Same(d, q) /\ q.client = c /\ m \in Orders
        /\ m.type \notin {"intercepts", "grab"} => q = p
        /\ m.type = "intercepts" => q = [p EXCEPT !.intercepts = m.value]
        /\ m.type = "grab" => q = [p EXCEPT !.grabbed = m.value]
        /\ \A M : Talk(d, b, M) =>
             /\ Talk(q, b, M)
             /\ b.conn # c \/ m.type # "request" => (Served(q, b) => Served(d, b))
             /\ b.conn = c /\ m.type = "request" /\ b.pc \in {"hello", "boot", "run"} =>
                  /\ b.pc = "boot" /\ q.chan[c].down = <<>>
                  /\ \A j \in DOMAIN q.chan[c].up : q.chan[c].up[j].type \notin {"begin", "end"}
    BY <1>1, <1>4, Popped
  <2> HIDE DEF q, p, m
  <2>3. Sizes(q)
    BY <1>1, <2>2 DEF Sizes, Same
  <2>4. ASSUME m.type # "request" PROVE Fine(q, b)
    <3>1. ASSUME b.pc # "down" PROVE Good(q, b)
      <4>1. PICK M : Talk(d, b, M) /\ Agree(d, b, M)
        BY <3>1 DEF Fine, Good
      <4>2. Talk(q, b, M) /\ (Served(q, b) => Served(d, b))
        BY <2>2, <2>4, <4>1
      <4> QED
        BY <2>2, <4>1, <4>2 DEF Good, Agree, Same
    <3> QED
      BY <2>2, <2>3, <3>1 DEF Fine
  <2>5. CASE m.type = "request"
    <3>1. on_command(p, m) = send_snapshot(q)
      BY <2>2, <2>5 DEF on_command
    <3>2. ASSUME b.pc # "down"
          PROVE  \E M : /\ Talk(q, b, M) /\ M.known \subseteq 1 .. q.next_id - 1
                        /\ q.client = b.conn =>
                             /\ b.pc = "boot" /\ q.chan[b.conn].down = <<>>
                             /\ \A j \in DOMAIN q.chan[b.conn].up :
                                  q.chan[b.conn].up[j].type \notin {"begin", "end"}
      <4>1. PICK M : Talk(d, b, M) /\ Agree(d, b, M)
        BY <3>2 DEF Fine, Good
      <4>2. M.known \subseteq 1 .. q.next_id - 1
        BY <2>2, <4>1 DEF Agree, Same
      <4>3. /\ Talk(q, b, M)
            /\ q.client = b.conn =>
                 /\ b.pc = "boot" /\ q.chan[b.conn].down = <<>>
                 /\ \A j \in DOMAIN q.chan[b.conn].up :
                      q.chan[b.conn].up[j].type \notin {"begin", "end"}
        BY <2>2, <2>5, <3>2, <4>1
      <4> QED
        BY <4>2, <4>3
    <3>3. Fine(send_snapshot(q), b)
      BY <2>2, <2>3, <3>2, SnapshotSent
    <3> QED
      BY <2>1, <3>1, <3>3
  <2>6. CASE m.type = "hello"
    <3>1. on_command(p, m) = send_event(q, [type |-> "hello"])
      BY <2>2, <2>6 DEF on_command
    <3>2. [type |-> "hello"] \in Reports /\ [type |-> "hello"].type = "hello"
      BY DEF Reports
    <3>3. Fine(q, b)
      BY <2>4, <2>6
    <3>4. Fine(send_event(q, [type |-> "hello"]), b)
      BY <3>2, <3>3, NeutralReport
    <3> QED
      BY <2>1, <3>1, <3>4
  <2>7. CASE m.type \in {"intercepts", "grab"}
    <3>1. on_command(p, m) = q
      BY <2>2, <2>7 DEF on_command
    <3> QED
      BY <2>1, <2>4, <2>7, <3>1
  <2>8. CASE m.type \notin {"request", "hello", "intercepts", "grab"}
    <3>1. m \in Wishes
      BY <2>2, <2>8 DEF Orders
    <3>2. q = p /\ Fine(q, b)
      BY <2>2, <2>4, <2>8
    <3>3. m.type \in {"configure", "visible", "stacking", "border", "activated", "overlay", "update", "drop"}
      BY <2>8, <3>1, WishParts
    <3>4. Fine(on_command(q, m), b)
      BY <3>1, <3>2, <3>3, SurfaceCommands, ScreenCommands
    <3> QED
      BY <2>1, <3>2, <3>4
  <2> QED
    BY <2>5, <2>6, <2>7, <2>8
<1> QED
  BY <1>2, <1>3, <1>4

FineWith(b) == {d \in Displays : Fine(d, b)}

Dispatched(d, list) == FoldLeft(dispatch_one, d, list)

LEMMA DispatchRun ==
  ASSUME NEW b, b.pc \in {"down", "hello", "boot", "run"},
         NEW d \in FineWith(b), NEW list \in Seq(Nat)
  PROVE  \E g : /\ g \in [0 .. Len(list) -> FineWith(b)] /\ g[0] = d
               /\ \A i \in 1 .. Len(list) : g[i] = dispatch_one(g[i - 1], list[i])
               /\ Dispatched(d, list) = g[Len(list)]
<1> DEFINE Q  == FineWith(b)
           N  == Len(list)
           F  == [p \in Q \X (1 .. N) |-> dispatch_one(p[1], list[p[2]])]
           it == CHOOSE it : it = [S \in SUBSET DOMAIN list |->
                   IF S = {} THEN d
                   ELSE dispatch_one(it[S \ {Max(S)}], list[Max(S)])]
           g  == [i \in 0 .. N |-> it[1 .. i]]
<1>1. Dispatched(d, list) = it[DOMAIN list]
  BY DEF Dispatched, FoldLeft, MapThenFoldSet
<1>2. N \in Nat /\ DOMAIN list = 1 .. N
  OBVIOUS
<1>3. d \in Q
  OBVIOUS
<1>4. ASSUME NEW q \in Q, NEW i \in 1 .. N PROVE dispatch_one(q, list[i]) \in Q
  <2>1. Fine(q, b)
    BY DEF FineWith
  <2>2. Fine(dispatch_one(q, list[i]), b)
    BY <2>1, DispatchesOne
  <2> QED
    BY <2>2 DEF FineWith, Fine
<1> HIDE DEF Q
<1>5. IsStep(F, Q, N)
  BY <1>2, <1>4 DEF IsStep
<1>6. it = [S \in SUBSET DOMAIN list |->
              IF S = {} THEN d
              ELSE dispatch_one(it[S \ {Max(S)}], list[Max(S)])]
  <2>1. PICK f : IsFold(f, d, F, Q, N)
    <3> HIDE DEF F
    <3> QED
      BY <1>2, <1>3, <1>5, FoldExists
  <2>2. /\ f \in [SUBSET (1 .. N) -> Q]
        /\ \A S \in SUBSET (1 .. N) :
             f[S] = IF S = {} THEN d ELSE F[<<f[S \ {Max(S)}], Max(S)>>]
    BY <2>1 DEF IsFold
  <2>3. \A S \in SUBSET (1 .. N) : S # {} => Max(S) \in 1 .. N
    BY <1>2, MaxIn
  <2>4. f = [S \in SUBSET DOMAIN list |->
               IF S = {} THEN d
               ELSE dispatch_one(f[S \ {Max(S)}], list[Max(S)])]
    BY <1>2, <2>2, <2>3
  <2> QED
    BY <2>4
<1> HIDE DEF it
<1>7. it[1 .. 0] = d
  <2>1. 1 .. 0 = {}
    OBVIOUS
  <2> QED
    BY <1>6, <2>1
<1>8. ASSUME NEW i \in 1 .. N PROVE it[1 .. i] = dispatch_one(it[1 .. (i - 1)], list[i])
  <2>0. i \in Nat \ {0}
    BY <1>2
  <2>1. Max(1 .. i) = i /\ (1 .. i) \ {i} = 1 .. (i - 1) /\ 1 .. i # {}
    BY <2>0, Prefix
  <2>2. 1 .. i \in SUBSET DOMAIN list
    BY <1>2
  <2> QED
    BY <1>6, <2>1, <2>2
<1>9. \A i \in 0 .. N : it[1 .. i] \in Q
  <2> DEFINE S == {i \in 0 .. N : it[1 .. i] \in Q}
  <2>1. 0 \in S
    BY <1>2, <1>3, <1>7
  <2>2. ASSUME NEW i \in 1 .. N, i - 1 \in S PROVE i \in S
    BY <1>2, <1>4, <1>8, <2>2
  <2> HIDE DEF S
  <2>3. \A i \in 0 .. N : i \in S
    BY <1>2, <2>1, <2>2, Climb
  <2> QED
    BY <2>3 DEF S
<1>10. g \in [0 .. N -> Q] /\ g[0] = d /\ Dispatched(d, list) = g[N]
  BY <1>1, <1>2, <1>7, <1>9
<1>11. \A i \in 1 .. N : g[i] = dispatch_one(g[i - 1], list[i])
  <2>1. ASSUME NEW i \in 1 .. N PROVE i \in 0 .. N /\ i - 1 \in 0 .. N
    BY <1>2
  <2> QED
    BY <1>8, <2>1
<1> HIDE DEF g
<1> QED
  BY <1>10, <1>11 DEF Q

LEMMA DispatchesPending ==
  ASSUME NEW d, NEW b, Fine(d, b), b.pc \in {"down", "hello", "boot", "run"}, NEW n \in Nat
  PROVE  Fine(dispatch_pending(d, n), b)
<1> DEFINE list == [i \in 1 .. n |-> i]
<1>1. dispatch_pending(d, n) = Dispatched(d, list)
  BY DEF dispatch_pending, Dispatched
<1>2. list \in Seq(Nat) /\ Len(list) = n
  OBVIOUS
<1> HIDE DEF list
<1>3. d \in FineWith(b)
  BY DEF FineWith, Fine
<1>4. PICK g : g \in [0 .. Len(list) -> FineWith(b)] /\ Dispatched(d, list) = g[Len(list)]
  BY <1>2, <1>3, DispatchRun
<1>5. g[n] \in FineWith(b) /\ Dispatched(d, list) = g[n]
  BY <1>2, <1>4
<1> QED
  BY <1>1, <1>5 DEF FineWith

\* A connection is accepted, and replaces the one before.
LEMMA Accepts ==
  ASSUME NEW d \in Displays, NEW c \in DOMAIN d.chan, d.chan[c].ds = "backlog"
  PROVE  LET e == accept(d, c)
         IN  /\ e \in Displays /\ Same(d, e)
             /\ \A i \in DOMAIN d.chan :
                  i # c /\ d.chan[i].ds = "backlog" => e.chan[i].ds = "backlog"
             /\ \A b : Fine(d, b) => Fine(e, b)
<1> DEFINE a == disconnect_client(d)
           x == [a.chan[c] EXCEPT !.ds = "client"]
           q == [a.chan EXCEPT ![c] = x]
           e == [a EXCEPT !.client = c, !.chan = q]
<1>1. accept(d, c) = e
  BY DEF accept
<1>2. /\ a \in Displays /\ a.client = None /\ Same(d, a)
      /\ \A i \in DOMAIN d.chan : i # d.client => a.chan[i] = d.chan[i]
      /\ \A b, M : Talk(d, b, M) => Talk(a, b, M)
  BY Disconnects
<1>3. \A i \in DOMAIN d.chan : d.chan[i].ds = "backlog" => i # d.client
  BY DisplayParts DEF Linked
<1> HIDE DEF a
<1>4. a.chan[c] = d.chan[c] /\ c \in DOMAIN a.chan
  BY <1>2, <1>3 DEF Same
<1>5. /\ a \in DisplayFields /\ Linked(a) /\ a.chan \in Seq(Channels)
      /\ DOMAIN a.chan = 1 .. Len(a.chan) /\ Len(a.chan) \in Nat
  BY <1>2, DisplayParts
<1>6. a.chan[c] \in Channels /\ c \in Ids /\ c \in Nat
  BY <1>4, <1>5 DEF Ids
<1>7. /\ x \in Channels /\ x.ds = "client" /\ x.up = a.chan[c].up /\ x.down = a.chan[c].down
      /\ x.wm = a.chan[c].wm
  BY <1>6 DEF Channels
<1> HIDE DEF x
<1>8. /\ q \in Seq(Channels) /\ DOMAIN q = DOMAIN a.chan /\ q[c] = x
      /\ \A i \in DOMAIN a.chan : i # c => q[i] = a.chan[i]
  BY <1>4, <1>5, <1>7
<1> HIDE DEF q
<1>9. /\ e \in DisplayFields /\ Same(a, e) /\ e.client = c /\ e.intercepts = a.intercepts
      /\ e.grabbed = a.grabbed /\ e.chan = q
  BY <1>5, <1>6, <1>8 DEF DisplayFields, Same
<1> HIDE DEF e
<1>10. a.intercepts = {} /\ a.grabbed = FALSE /\ None \notin Nat
  <2>1. a.intercepts = {} /\ ~ a.grabbed /\ a.grabbed \in BOOLEAN
    BY <1>2, <1>5, DisplayParts DEF Linked
  <2> QED
    BY <2>1, DisplayAssumption
<1>11. Linked(e)
  <2>1. \A i \in DOMAIN a.chan : a.chan[i].ds # "client"
    BY <1>2, <1>5, <1>10 DEF Linked
  <2>2. \A i \in DOMAIN e.chan : e.chan[i].ds = "client" <=> i = e.client
    BY <1>7, <1>8, <1>9, <2>1
  <2>3. e.client \in DOMAIN e.chan \cup {None} /\ e.client # None
    BY <1>4, <1>6, <1>8, <1>9, <1>10
  <2>4. e.seat \in DOMAIN e.surfaces \cup {None} /\ DOMAIN e.surfaces \subseteq 1 .. e.next_id - 1
    BY <1>5, <1>9 DEF Linked, Same
  <2> QED
    BY <2>2, <2>3, <2>4 DEF Linked
<1>12. e \in Displays
  BY <1>9, <1>11 DEF Displays
<1>13. Same(d, e)
  BY <1>2, <1>9 DEF Same
<1>14. ASSUME NEW i \in DOMAIN d.chan, i # c, d.chan[i].ds = "backlog"
       PROVE  e.chan[i].ds = "backlog"
  BY <1>2, <1>3, <1>8, <1>9, <1>14 DEF Same
<1>15. ASSUME NEW b, Fine(d, b) PROVE Fine(e, b)
  <2>1. Sizes(e)
    BY <1>13, <1>15 DEF Fine, Sizes, Same
  <2>2. ASSUME b.pc # "down" PROVE Good(e, b)
    <3>1. PICK M : Talk(d, b, M) /\ Agree(d, b, M)
      BY <1>15, <2>2 DEF Fine, Good
    <3>2. Talk(a, b, M) /\ b.conn \in Nat
      BY <1>2, <3>1, TalkConn
    <3>3. keys_of(a, b.conn) = {} /\ grab_of(a, b.conn) = FALSE
      BY <1>2, <1>10, <3>2 DEF keys_of, grab_of
    <3>4. keys_of(e, b.conn) = {} /\ grab_of(e, b.conn) = FALSE
      BY <1>9, <1>10 DEF keys_of, grab_of
    <3>5. b.conn \in DOMAIN e.chan
      BY <1>8, <1>9, <3>2 DEF Talk
    <3>6. CASE b.conn # c
      <4>1. e.chan[b.conn] = a.chan[b.conn]
        BY <1>8, <1>9, <3>2, <3>6 DEF Talk
      <4>2. Talk(e, b, M)
        BY <3>2, <3>3, <3>4, <3>5, <4>1, SameTalk
      <4>3. ~ Served(e, b)
        BY <1>9, <3>6 DEF Served
      <4> QED
        BY <1>13, <3>1, <4>2, <4>3 DEF Good, Agree, Same
    <3>7. CASE b.conn = c
      <4>1. e.chan[b.conn] = x /\ a.chan[b.conn].ds = "backlog"
        BY <1>4, <1>8, <1>9, <3>7
      <4>2. /\ a.chan[c].wm = "open" /\ Traced(b.surfaces, a.chan[c].up, M) /\ Owed(a, b)
            /\ Marked(b.pc, a.chan[c])
        BY <3>2, <3>7 DEF Talk
      <4>3. Marked(b.pc, x)
        BY <1>7, <4>2 DEF Marked
      <4>4. Owed(e, b)
        BY <1>7, <3>3, <3>4, <3>7, <4>1, <4>2 DEF Owed
      <4>5. Talk(e, b, M)
        BY <1>7, <3>5, <3>7, <4>1, <4>2, <4>3, <4>4 DEF Talk
      <4>6. ~ Served(e, b)
        <5> SUFFICES ASSUME b.pc \in {"boot", "run"}
                     PROVE  \E i \in DOMAIN x.down : x.down[i].type = "request"
          BY <4>1 DEF Served
        <5>1. x.down = <<Hi, Ask>>
          BY <1>7, <3>7, <4>1, <4>2 DEF Marked
        <5>2. 2 \in DOMAIN <<Hi, Ask>> /\ <<Hi, Ask>>[2] = Ask /\ Ask.type = "request"
          BY DEF Ask
        <5> QED
          BY <5>1, <5>2, Zenon
      <4> QED
        BY <1>13, <3>1, <4>5, <4>6 DEF Good, Agree, Same
    <3> QED
      BY <3>6, <3>7
  <2> QED
    BY <1>12, <2>1, <2>2 DEF Fine
<1> QED
  BY <1>1, <1>12, <1>13, <1>14, <1>15

LEMMA ListReplaced ==
  ASSUME NEW T, NEW s \in Seq(T), NEW c, NEW x, c \in DOMAIN s => x \in T
  PROVE  [s EXCEPT ![c] = x] \in Seq(T)
<1> DEFINE n == Len(s)
<1>1. n \in Nat /\ s \in [1 .. n -> T]
  OBVIOUS
<1> HIDE DEF n
<1>2. [s EXCEPT ![c] = x] \in [1 .. n -> T]
  BY <1>1
<1> QED
  BY <1>1, <1>2, SeqDef

LEMMA AcceptsTyped ==
  ASSUME NEW d \in DisplayFields, NEW c \in Nat
  PROVE  accept(d, c) \in DisplayFields
<1>1. \A e \in DisplayFields : e.chan \in Seq(Channels) /\ e.client \in Ids
  BY DEF DisplayFields
<1>2. disconnect_client(d) \in DisplayFields
  <2>1. CASE d.client = None
    BY <2>1 DEF disconnect_client
  <2>2. CASE d.client # None
    <3> DEFINE x == close_server_end(d.chan[d.client])
               q == [d.chan EXCEPT ![d.client] = x]
    <3>1. disconnect_client(d) = [d EXCEPT !.intercepts = {}, !.grabbed = FALSE, !.chan = q,
                                           !.client = None]
      BY <2>2 DEF disconnect_client
    <3>2. d.client \in DOMAIN d.chan => x \in Channels
      BY <1>1, ChannelClosed
    <3> HIDE DEF x
    <3>3. q \in Seq(Channels)
      BY <1>1, <3>2, ListReplaced
    <3> HIDE DEF q
    <3> QED
      BY <3>1, <3>3 DEF DisplayFields, Ids
  <2> QED
    BY <2>1, <2>2
<1> DEFINE a == disconnect_client(d)
           x == [a.chan[c] EXCEPT !.ds = "client"]
           q == [a.chan EXCEPT ![c] = x]
<1>3. accept(d, c) = [a EXCEPT !.client = c, !.chan = q]
  BY DEF accept
<1>4. a \in DisplayFields
  BY <1>2
<1> HIDE DEF a
<1>5. c \in DOMAIN a.chan => x \in Channels
  <2> SUFFICES ASSUME c \in DOMAIN a.chan PROVE x \in Channels
    OBVIOUS
  <2>1. a.chan[c] \in Channels
    BY <1>1, <1>4
  <2> QED
    BY <2>1 DEF Channels
<1> HIDE DEF x
<1>6. q \in Seq(Channels)
  BY <1>1, <1>4, <1>5, ListReplaced
<1> HIDE DEF q
<1> QED
  BY <1>3, <1>4, <1>6 DEF DisplayFields, Ids

Accepted(d, list) == FoldLeft(accept, d, list)

LEMMA AcceptRun ==
  ASSUME NEW d \in DisplayFields, NEW list \in Seq(Nat)
  PROVE  \E g : /\ g \in [0 .. Len(list) -> DisplayFields] /\ g[0] = d
               /\ \A i \in 1 .. Len(list) : g[i] = accept(g[i - 1], list[i])
               /\ Accepted(d, list) = g[Len(list)]
<1> DEFINE Q  == DisplayFields
           N  == Len(list)
           F  == [p \in Q \X (1 .. N) |-> accept(p[1], list[p[2]])]
           it == CHOOSE it : it = [S \in SUBSET DOMAIN list |->
                   IF S = {} THEN d
                   ELSE accept(it[S \ {Max(S)}], list[Max(S)])]
           g  == [i \in 0 .. N |-> it[1 .. i]]
<1>1. Accepted(d, list) = it[DOMAIN list]
  BY DEF Accepted, FoldLeft, MapThenFoldSet
<1>2. N \in Nat /\ DOMAIN list = 1 .. N
  OBVIOUS
<1>3. d \in Q
  OBVIOUS
<1>4. ASSUME NEW q \in Q, NEW i \in 1 .. N PROVE accept(q, list[i]) \in Q
  <2>1. list[i] \in Nat
    BY <1>2
  <2> QED
    BY <2>1, AcceptsTyped
<1> HIDE DEF Q
<1>5. IsStep(F, Q, N)
  BY <1>2, <1>4 DEF IsStep
<1>6. it = [S \in SUBSET DOMAIN list |->
              IF S = {} THEN d
              ELSE accept(it[S \ {Max(S)}], list[Max(S)])]
  <2>1. PICK f : IsFold(f, d, F, Q, N)
    <3> HIDE DEF F
    <3> QED
      BY <1>2, <1>3, <1>5, FoldExists
  <2>2. /\ f \in [SUBSET (1 .. N) -> Q]
        /\ \A S \in SUBSET (1 .. N) :
             f[S] = IF S = {} THEN d ELSE F[<<f[S \ {Max(S)}], Max(S)>>]
    BY <2>1 DEF IsFold
  <2>3. \A S \in SUBSET (1 .. N) : S # {} => Max(S) \in 1 .. N
    BY <1>2, MaxIn
  <2>4. f = [S \in SUBSET DOMAIN list |->
               IF S = {} THEN d
               ELSE accept(f[S \ {Max(S)}], list[Max(S)])]
    BY <1>2, <2>2, <2>3
  <2> QED
    BY <2>4
<1> HIDE DEF it
<1>7. it[1 .. 0] = d
  <2>1. 1 .. 0 = {}
    OBVIOUS
  <2> QED
    BY <1>6, <2>1
<1>8. ASSUME NEW i \in 1 .. N PROVE it[1 .. i] = accept(it[1 .. (i - 1)], list[i])
  <2>0. i \in Nat \ {0}
    BY <1>2
  <2>1. Max(1 .. i) = i /\ (1 .. i) \ {i} = 1 .. (i - 1) /\ 1 .. i # {}
    BY <2>0, Prefix
  <2>2. 1 .. i \in SUBSET DOMAIN list
    BY <1>2
  <2> QED
    BY <1>6, <2>1, <2>2
<1>9. \A i \in 0 .. N : it[1 .. i] \in Q
  <2> DEFINE S == {i \in 0 .. N : it[1 .. i] \in Q}
  <2>1. 0 \in S
    BY <1>2, <1>3, <1>7
  <2>2. ASSUME NEW i \in 1 .. N, i - 1 \in S PROVE i \in S
    BY <1>2, <1>4, <1>8, <2>2
  <2> HIDE DEF S
  <2>3. \A i \in 0 .. N : i \in S
    BY <1>2, <2>1, <2>2, Climb
  <2> QED
    BY <2>3 DEF S
<1>10. g \in [0 .. N -> Q] /\ g[0] = d /\ Accepted(d, list) = g[N]
  BY <1>1, <1>2, <1>7, <1>9
<1>11. \A i \in 1 .. N : g[i] = accept(g[i - 1], list[i])
  <2>1. ASSUME NEW i \in 1 .. N PROVE i \in 0 .. N /\ i - 1 \in 0 .. N
    BY <1>2
  <2> QED
    BY <1>8, <2>1
<1> HIDE DEF g
<1> QED
  BY <1>10, <1>11 DEF Q

LEMMA AcceptsPending ==
  ASSUME NEW d, NEW b, Fine(d, b)
  PROVE  Fine(accept_pending(d), b)
<1> DEFINE n == Len(d.chan)
           all == [c \in DOMAIN d.chan |-> c]
           B == {c \in DOMAIN d.chan : d.chan[c].ds = "backlog"}
           list == Keep(all, B)
           N == Len(list)
<1>1. d \in Displays
  BY DEF Fine
<1>2. d \in DisplayFields /\ DOMAIN d.chan = 1 .. n /\ n \in Nat
  BY <1>1, DisplayParts
<1>3. accept_pending(d) = Accepted(d, list)
  BY DEF accept_pending, Accepted
<1>4. all \in Seq(Nat)
  BY <1>2
<1> HIDE DEF all, B
<1>5. list \in Seq(Nat \cap B) /\ \A i, j \in DOMAIN list : list[i] = list[j] => i = j
  BY <1>4, KeepLists
<1> HIDE DEF list
<1>6. list \in Seq(Nat) /\ N \in Nat /\ DOMAIN list = 1 .. N /\ \A i \in 1 .. N : list[i] \in B
  BY <1>5
<1>7. PICK g : /\ g \in [0 .. N -> DisplayFields] /\ g[0] = d
               /\ \A i \in 1 .. N : g[i] = accept(g[i - 1], list[i])
               /\ Accepted(d, list) = g[N]
  BY <1>2, <1>6, AcceptRun
<1> DEFINE ok(i) == /\ g[i] \in Displays /\ Same(d, g[i]) /\ Fine(g[i], b)
                    /\ \A j \in 1 .. N : j > i => g[i].chan[list[j]].ds = "backlog"
           S == {i \in 0 .. N : ok(i)}
<1> HIDE DEF N
<1>8. 0 \in S
  <2>1. Same(d, d)
    BY DEF Same
  <2>2. \A j \in 1 .. N : d.chan[list[j]].ds = "backlog"
    BY <1>6 DEF B
  <2> QED
    BY <1>1, <1>6, <1>7, <2>1, <2>2
<1>9. ASSUME NEW i \in 1 .. N, i - 1 \in S PROVE i \in S
  <2> DEFINE h == g[i - 1]
             c == list[i]
  <2>1. /\ h \in Displays /\ Same(d, h) /\ Fine(h, b)
        /\ \A j \in 1 .. N : j > i - 1 => h.chan[list[j]].ds = "backlog"
    BY <1>9
  <2>2. g[i] = accept(h, c) /\ i \in 0 .. N
    BY <1>6, <1>7
  <2> HIDE DEF h
  <2>3. \A j \in 1 .. N : list[j] \in DOMAIN h.chan
    BY <1>6, <2>1 DEF Same, B
  <2>4. c \in DOMAIN h.chan /\ h.chan[c].ds = "backlog"
    BY <1>6, <2>1, <2>3
  <2>5. /\ g[i] \in Displays /\ Same(h, g[i]) /\ Fine(g[i], b)
        /\ \A j \in DOMAIN h.chan :
             j # c /\ h.chan[j].ds = "backlog" => g[i].chan[j].ds = "backlog"
    BY <2>1, <2>2, <2>4, Accepts
  <2>6. ASSUME NEW j \in 1 .. N, j > i PROVE g[i].chan[list[j]].ds = "backlog"
    <3>1. j > i - 1 /\ j # i
      BY <1>6, <2>6
    <3>2. list[j] # c /\ h.chan[list[j]].ds = "backlog"
      BY <1>5, <1>6, <2>1, <3>1
    <3> QED
      BY <2>3, <2>5, <3>2
  <2>7. Same(d, g[i])
    BY <2>1, <2>5 DEF Same
  <2> QED
    BY <2>2, <2>5, <2>6, <2>7
<1> HIDE DEF S
<1>10. N \in S
  <2>1. \A i \in 0 .. N : i \in S
    BY <1>6, <1>8, <1>9, Climb, Zenon
  <2> QED
    BY <1>6, <2>1
<1> QED
  BY <1>3, <1>7, <1>10 DEF S

\* The surfaces change, and the window manager is told.
SameLinks(d, e) ==
  /\ e.chan = d.chan /\ e.client = d.client
  /\ e.intercepts = d.intercepts /\ e.grabbed = d.grabbed

LEMMA LinksTalk ==
  ASSUME NEW d, NEW e, SameLinks(d, e), NEW b, NEW M
  PROVE  (Talk(d, b, M) => Talk(e, b, M)) /\ (Served(e, b) <=> Served(d, b))
<1>1. keys_of(e, b.conn) = keys_of(d, b.conn) /\ grab_of(e, b.conn) = grab_of(d, b.conn)
  BY DEF keys_of, grab_of, SameLinks
<1>2. ASSUME Talk(d, b, M) PROVE Talk(e, b, M)
  <2>1. b.conn \in DOMAIN e.chan /\ e.chan[b.conn] = d.chan[b.conn]
    BY <1>2 DEF Talk, SameLinks
  <2> QED
    BY <1>1, <1>2, <2>1, SameTalk
<1>3. Served(e, b) <=> Served(d, b)
  BY DEF Served, SameLinks
<1> QED
  BY <1>2, <1>3

LEMMA ChangeReported ==
  ASSUME NEW d, NEW f \in Displays, SameLinks(d, f), NEW m \in Reports, m.type \notin {"begin", "end"},
         NEW b, NEW M, Talk(d, b, M), Fresh(M, m)
  PROVE  LET e == send_event(f, m)
         IN  /\ e \in Displays /\ Same(f, e)
             /\ \E N : /\ Talk(e, b, N) /\ N \in {M, mirrored(M, m)}
                       /\ Served(e, b) => N = mirrored(M, m) /\ Served(d, b)
<1> DEFINE e == send_event(f, m)
           N == IF e.client = b.conn THEN mirrored(M, m) ELSE M
<1>1. Talk(f, b, M) /\ (Served(f, b) => Served(d, b))
  BY LinksTalk
<1>2. /\ e \in Displays /\ Same(f, e) /\ Talk(e, b, N)
      /\ Served(e, b) => Served(f, b)
  BY <1>1, Reported
<1> HIDE DEF e
<1>3. N \in {M, mirrored(M, m)}
  OBVIOUS
<1>4. Served(e, b) => N = mirrored(M, m)
  BY DEF Served
<1> HIDE DEF N
<1>5. Served(e, b) => N = mirrored(M, m) /\ Served(d, b)
  BY <1>1, <1>2, <1>4
<1> QED
  BY <1>2, <1>3, <1>5 DEF e

\* The surfaces of a display become S.
SurfaceMaps == UNION {[D -> SurfaceStates] : D \in SUBSET Surface}
with_surfaces(d, S, n, z) == [d EXCEPT !.surfaces = S, !.next_id = n, !.seat = z]

Fitting(S, n, z) ==
  /\ S \in SurfaceMaps /\ n \in Nat \ {0} /\ DOMAIN S \subseteq 1 .. n - 1
  /\ z \in DOMAIN S \cup {None}

LEMMA SurfacesBecome ==
  ASSUME NEW d \in Displays, NEW S, NEW n, NEW z, Fitting(S, n, z)
  PROVE  LET e == with_surfaces(d, S, n, z)
         IN  e \in Displays /\ SameLinks(d, e) /\ e.surfaces = S /\ e.next_id = n
<1> DEFINE e == [d EXCEPT !.surfaces = S, !.next_id = n, !.seat = z]
<1>0. /\ S \in SurfaceMaps /\ n \in Nat \ {0} /\ DOMAIN S \subseteq 1 .. n - 1
      /\ z \in DOMAIN S \cup {None}
  BY DEF Fitting
<1>1. d \in DisplayFields /\ Linked(d)
  BY DisplayParts
<1>2. DOMAIN S \in SUBSET Surface
  BY <1>0 DEF SurfaceMaps
<1>3. z \in Ids
  BY <1>0, <1>2, Known
<1>4. /\ e \in DisplayFields /\ SameLinks(d, e) /\ e.surfaces = S /\ e.next_id = n /\ e.seat = z
  BY <1>0, <1>1, <1>3 DEF DisplayFields, SameLinks, SurfaceMaps
<1> HIDE DEF e
<1>5. Linked(e)
  BY <1>0, <1>1, <1>4 DEF Linked, SameLinks
<1> QED
  BY <1>4, <1>5 DEF Displays, e, with_surfaces

LEMMA AddsSurface ==
  ASSUME NEW d, NEW b, Fine(d, b), d.next_id <= MaxSurfaces
  PROVE  Fine(add_surface(d, None), b)
<1> DEFINE id == d.next_id
           y == new_surface(None)
           D == DOMAIN d.surfaces
           S == put(d.surfaces, id, y)
           f == [d EXCEPT !.surfaces = S, !.next_id = id + 1, !.seat = d.seat]
           m == [type |-> "created", id |-> id]
           e == send_event(f, m)
<1>1. d \in Displays /\ Sizes(d)
  BY DEF Fine
<1>2. /\ d \in DisplayFields /\ Linked(d) /\ D \in SUBSET Surface
      /\ d.surfaces \in [D -> SurfaceStates] /\ id \in Nat \ {0}
      /\ D \subseteq 1 .. id - 1 /\ d.seat \in D \cup {None}
  BY <1>1, DisplayParts DEF Linked
<1>3. id \in Surface /\ id \notin D
  BY <1>2, DisplayAssumption DEF Surface
<1>4. add_surface(d, None) = e
  <2>1. f = [d EXCEPT !.surfaces = S, !.next_id = id + 1]
    BY <1>2 DEF DisplayFields
  <2> HIDE DEF f
  <2> QED
    BY <2>1 DEF add_surface
<1>5. y \in SurfaceStates /\ ~ y.mapped
  BY DEF new_surface, SurfaceStates
<1> HIDE DEF y
<1>6. /\ S \in [D \cup {id} -> SurfaceStates] /\ S[id] = y
      /\ \A i \in D : S[i] = d.surfaces[i]
  <2> DEFINE F == d.surfaces
  <2>1. F \in [D -> SurfaceStates] /\ S = put(F, id, y)
    BY <1>2
  <2> HIDE DEF F, D, S, id
  <2>2. /\ put(F, id, y) \in [D \cup {id} -> SurfaceStates] /\ put(F, id, y)[id] = y
        /\ \A i \in D : i # id => put(F, id, y)[i] = F[i]
    <3>1. F \in [D -> SurfaceStates]
      BY <2>1
    <3>2. y \in SurfaceStates
      BY <1>5
    <3> QED
      BY <3>1, <3>2 DEF put
  <2> QED
    BY <1>3, <2>1, <2>2 DEF F
<1> HIDE DEF S
<1>7. /\ D \cup {id} \in SUBSET Surface /\ D \cup {id} \subseteq 1 .. (id + 1) - 1
      /\ id + 1 \in Nat \ {0} /\ d.seat \in (D \cup {id}) \cup {None}
  BY <1>2, <1>3
<1>8. /\ f \in Displays /\ SameLinks(d, f) /\ f.surfaces = S /\ f.next_id = id + 1
      /\ DOMAIN f.surfaces = D \cup {id}
  <2> DEFINE n == id + 1
             z == d.seat
             g == with_surfaces(d, S, n, z)
  <2>1. S \in SurfaceMaps /\ DOMAIN S = D \cup {id}
    BY <1>6, <1>7 DEF SurfaceMaps
  <2>2. n \in Nat \ {0} /\ DOMAIN S \subseteq 1 .. n - 1 /\ z \in DOMAIN S \cup {None}
    BY <1>7, <2>1
  <2>3. f = g
    BY DEF with_surfaces
  <2> HIDE DEF n, z
  <2>4. g \in Displays /\ SameLinks(d, g) /\ g.surfaces = S /\ g.next_id = n
    <3>1. d \in Displays
      BY <1>1
    <3>2. Fitting(S, n, z)
      BY <2>1, <2>2 DEF Fitting
    <3> HIDE DEF D, id
    <3> QED
      BY <3>1, <3>2, SurfacesBecome
  <2> HIDE DEF g, f
  <2> QED
    BY <2>1, <2>3, <2>4 DEF n
<1> HIDE DEF f
<1>9. m \in Reports /\ m.type = "created" /\ m.id = id
  BY <1>3, SurfaceReports
<1> HIDE DEF m
<1>10. e \in Displays /\ Same(f, e)
  BY <1>8, <1>9, DisplayEvent
<1>11. e.surfaces = S /\ e.next_id = id + 1 /\ DOMAIN e.surfaces = D \cup {id}
  BY <1>8, <1>10 DEF Same
<1>12. Sizes(e)
  BY <1>1, <1>5, <1>6, <1>11 DEF Sizes
<1>13. ASSUME b.pc # "down" PROVE Good(e, b)
  <2>1. PICK M : Talk(d, b, M) /\ Agree(d, b, M)
    BY <1>13 DEF Fine, Good
  <2>2. M.known \subseteq 1 .. id - 1 /\ Fresh(M, m)
    BY <1>2, <1>9, <2>1 DEF Agree, Fresh
  <2>3. PICK N : /\ Talk(e, b, N) /\ N \in {M, mirrored(M, m)}
                 /\ Served(e, b) => N = mirrored(M, m) /\ Served(d, b)
    BY <1>8, <1>9, <2>1, <2>2, ChangeReported
  <2> HIDE DEF e
  <2>4. mirrored(M, m) = [known |-> M.known \cup {id}, mapped |-> M.mapped, sized |-> M.sized]
    BY <1>9 DEF mirrored
  <2>5. N.known \subseteq 1 .. e.next_id - 1
    BY <1>2, <1>11, <2>2, <2>3, <2>4
  <2>6. ASSUME Served(e, b) PROVE Agrees(N, e.surfaces)
    <3>1. Agrees(M, d.surfaces) /\ N = mirrored(M, m)
      BY <2>1, <2>3, <2>6 DEF Agree
    <3>2. N.known = M.known \cup {id} /\ N.mapped = M.mapped /\ N.sized = M.sized
      BY <2>4, <3>1
    <3>3. {i \in D \cup {id} : S[i].mapped} = {i \in D : d.surfaces[i].mapped}
      BY <1>3, <1>5, <1>6
    <3> QED
      BY <1>11, <3>1, <3>2, <3>3 DEF Agrees
  <2> QED
    BY <2>3, <2>5, <2>6 DEF Good, Agree
<1>14. Fine(e, b)
  BY <1>10, <1>12, <1>13 DEF Fine
<1> QED
  BY <1>4, <1>14

LEMMA RemovesSurface ==
  ASSUME NEW d, NEW b, Fine(d, b), NEW id \in DOMAIN d.surfaces
  PROVE  Fine([surface_destroyed(d, id) EXCEPT !.seat = IF @ = id THEN None ELSE @], b)
<1> DEFINE D == DOMAIN d.surfaces
           m == [type |-> "destroyed", id |-> id]
           f == send_event(d, m)
           S == Restrict(d.surfaces, DOMAIN d.surfaces \ {id})
           z == IF d.seat = id THEN None ELSE d.seat
           e == [f EXCEPT !.surfaces = S, !.next_id = d.next_id, !.seat = z]
<1>1. d \in Displays /\ Sizes(d)
  BY DEF Fine
<1>2. /\ d \in DisplayFields /\ Linked(d) /\ D \in SUBSET Surface
      /\ d.surfaces \in [D -> SurfaceStates] /\ d.next_id \in Nat \ {0}
      /\ D \subseteq 1 .. d.next_id - 1 /\ d.seat \in D \cup {None}
  BY <1>1, DisplayParts DEF Linked
<1>3. m \in Reports /\ m.type = "destroyed" /\ m.id = id
  BY <1>2, SurfaceReports
<1> HIDE DEF m
<1>4. f \in Displays /\ Same(d, f)
  BY <1>1, <1>3, DisplayEvent
<1>5. [surface_destroyed(d, id) EXCEPT !.seat = IF @ = id THEN None ELSE @] = e
  <2>1. surface_destroyed(d, id) = [f EXCEPT !.surfaces = Restrict(f.surfaces, DOMAIN f.surfaces \ {id})]
    BY <1>3 DEF surface_destroyed, has_surface, m
  <2> HIDE DEF f
  <2>2. f.surfaces = d.surfaces /\ f.next_id = d.next_id /\ f.seat = d.seat
    BY <1>4 DEF Same
  <2>3. surface_destroyed(d, id) = [f EXCEPT !.surfaces = S]
    BY <2>1, <2>2
  <2> HIDE DEF S
  <2>4. f \in DisplayFields
    BY <1>4, DisplayParts
  <2>5. [[f EXCEPT !.surfaces = S] EXCEPT !.seat = IF @ = id THEN None ELSE @] = e
    BY <2>2, <2>4 DEF DisplayFields
  <2> HIDE DEF e
  <2> QED
    BY <2>3, <2>5
<1>6. S \in [D \ {id} -> SurfaceStates] /\ \A i \in D \ {id} : S[i] = d.surfaces[i]
  <2> DEFINE F == d.surfaces
             T == Restrict(F, DOMAIN F \ {id})
  <2>1. F \in [D -> SurfaceStates] /\ S = T
    BY <1>2
  <2> HIDE DEF F, D, S
  <2>2. T \in [D \ {id} -> SurfaceStates] /\ \A i \in D \ {id} : T[i] = F[i]
    <3>1. F \in [D -> SurfaceStates]
      BY <2>1
    <3> QED
      BY <3>1 DEF Restrict
  <2> HIDE DEF T
  <2> QED
    BY <2>1, <2>2 DEF F
<1> HIDE DEF S, f
<1>7. /\ e \in Displays /\ SameLinks(f, e) /\ e.surfaces = S /\ e.next_id = d.next_id
      /\ DOMAIN e.surfaces = D \ {id}
  <2> DEFINE n == d.next_id
             g == with_surfaces(f, S, n, z)
  <2>1. S \in SurfaceMaps /\ DOMAIN S = D \ {id}
    BY <1>2, <1>6 DEF SurfaceMaps
  <2>2. n \in Nat \ {0} /\ DOMAIN S \subseteq 1 .. n - 1 /\ z \in DOMAIN S \cup {None}
    BY <1>2, <2>1
  <2>3. e = g
    BY DEF with_surfaces
  <2> HIDE DEF n, z
  <2>4. g \in Displays /\ SameLinks(f, g) /\ g.surfaces = S /\ g.next_id = n
    <3>1. f \in Displays
      BY <1>4
    <3>2. Fitting(S, n, z)
      BY <2>1, <2>2 DEF Fitting
    <3> HIDE DEF D
    <3> QED
      BY <3>1, <3>2, SurfacesBecome
  <2> HIDE DEF g, e
  <2> QED
    BY <2>1, <2>3, <2>4 DEF n
<1> HIDE DEF e
<1>8. Sizes(e)
  BY <1>1, <1>6, <1>7 DEF Sizes
<1>9. ASSUME b.pc # "down" PROVE Good(e, b)
  <2>1. PICK M : Talk(d, b, M) /\ Agree(d, b, M)
    BY <1>9 DEF Fine, Good
  <2>2. Fresh(M, m) /\ SameLinks(d, d)
    BY <1>3 DEF Fresh, SameLinks
  <2>3. PICK N : /\ Talk(f, b, N) /\ N \in {M, mirrored(M, m)}
                 /\ Served(f, b) => N = mirrored(M, m) /\ Served(d, b)
    BY <1>1, <1>3, <2>1, <2>2, ChangeReported DEF f
  <2>4. Talk(e, b, N) /\ (Served(e, b) => Served(f, b))
    BY <1>7, <2>3, LinksTalk
  <2>5. mirrored(M, m) = [known |-> M.known \ {id}, mapped |-> M.mapped \ {id},
                          sized |-> M.sized \ {id}]
    BY <1>3 DEF mirrored
  <2>6. M.known \subseteq 1 .. d.next_id - 1
    BY <2>1 DEF Agree
  <2>7. N.known \subseteq 1 .. e.next_id - 1
    BY <1>7, <2>3, <2>5, <2>6
  <2>8. ASSUME Served(e, b) PROVE Agrees(N, e.surfaces)
    <3>1. Agrees(M, d.surfaces) /\ N = mirrored(M, m)
      BY <2>1, <2>3, <2>4, <2>8 DEF Agree
    <3>2. N.known = M.known \ {id} /\ N.mapped = M.mapped \ {id} /\ N.sized = M.sized \ {id}
      BY <2>5, <3>1
    <3>3. {i \in D \ {id} : S[i].mapped} = {i \in D : d.surfaces[i].mapped} \ {id}
      BY <1>6
    <3> QED
      BY <1>7, <3>1, <3>2, <3>3 DEF Agrees
  <2> QED
    BY <2>4, <2>7, <2>8 DEF Good, Agree
<1>10. Fine(e, b)
  BY <1>7, <1>8, <1>9 DEF Fine
<1> QED
  BY <1>5, <1>10

\* One field of a surface is set.
LEMMA SurfaceBecomes ==
  ASSUME NEW d \in Displays, NEW id \in DOMAIN d.surfaces, NEW x \in SurfaceStates
  PROVE  LET S == [d.surfaces EXCEPT ![id] = x]
             e == with_surfaces(d, S, d.next_id, d.seat)
         IN  /\ e \in Displays /\ SameLinks(d, e) /\ e.surfaces = S /\ e.next_id = d.next_id
             /\ DOMAIN S = DOMAIN d.surfaces /\ S[id] = x
             /\ \A i \in DOMAIN d.surfaces : i # id => S[i] = d.surfaces[i]
             /\ e = [d EXCEPT !.surfaces[id] = x]
<1> DEFINE S == [d.surfaces EXCEPT ![id] = x]
           n == d.next_id
           z == d.seat
           e == with_surfaces(d, S, n, z)
<1>1. /\ d \in DisplayFields /\ Linked(d) /\ d.surfaces \in SurfaceMaps
      /\ d.next_id \in Nat \ {0}
  BY DisplayParts DEF DisplayFields, SurfaceMaps
<1>2. /\ DOMAIN S = DOMAIN d.surfaces /\ S[id] = x
      /\ \A i \in DOMAIN d.surfaces : i # id => S[i] = d.surfaces[i]
  OBVIOUS
<1>3. S \in SurfaceMaps
  <2>1. PICK D \in SUBSET Surface : d.surfaces \in [D -> SurfaceStates]
    BY <1>1 DEF SurfaceMaps
  <2>2. S \in [D -> SurfaceStates]
    BY <2>1
  <2> QED
    BY <2>1, <2>2 DEF SurfaceMaps
<1>4. e = [d EXCEPT !.surfaces[id] = x]
  BY <1>1 DEF DisplayFields, with_surfaces
<1>5. n \in Nat \ {0} /\ DOMAIN S \subseteq 1 .. n - 1 /\ z \in DOMAIN S \cup {None}
  BY <1>1, <1>2 DEF Linked
<1> HIDE DEF S, n, z
<1>6. e \in Displays /\ SameLinks(d, e) /\ e.surfaces = S /\ e.next_id = n
  <2>1. Fitting(S, n, z)
    BY <1>3, <1>5 DEF Fitting
  <2> QED
    BY <2>1, SurfacesBecome
<1> HIDE DEF e
<1> QED
  BY <1>2, <1>4, <1>6 DEF S, n, z, e

LEMMA MapsSurface ==
  ASSUME NEW d, NEW b, Fine(d, b), NEW id \in DOMAIN d.surfaces
  PROVE  Fine(surface_committed(surface_mapped(d, id), id, TRUE), b)
<1> DEFINE D == DOMAIN d.surfaces
           x == [d.surfaces[id] EXCEPT !.mapped = TRUE]
           S == [d.surfaces EXCEPT ![id] = x]
           f == with_surfaces(d, S, d.next_id, d.seat)
           m == [type |-> "mapped", id |-> id]
           a == send_event(f, m)
           y == [x EXCEPT !.sized = TRUE]
           R == [a.surfaces EXCEPT ![id] = y]
           h == with_surfaces(a, R, a.next_id, a.seat)
           k == [type |-> "committed", id |-> id, sized |-> TRUE]
           e == send_event(h, k)
<1>1. d \in Displays /\ Sizes(d)
  BY DEF Fine
<1>2. D \in SUBSET Surface /\ d.surfaces[id] \in SurfaceStates /\ id \in Surface
  <2>1. D \in SUBSET Surface /\ d.surfaces \in [D -> SurfaceStates]
    BY <1>1, DisplayParts
  <2> QED
    BY <2>1
<1>3. x \in SurfaceStates /\ x.mapped = TRUE
  BY <1>2 DEF SurfaceStates
<1>4. y \in SurfaceStates /\ y.mapped = TRUE /\ y.sized = TRUE
  BY <1>3 DEF SurfaceStates
<1>5. [d EXCEPT !.surfaces[id].mapped = TRUE] = [d EXCEPT !.surfaces[id] = x]
  OBVIOUS
<1>6. m \in Reports /\ m.type = "mapped" /\ m.id = id
  BY <1>2, SurfaceReports
<1>7. k \in Reports /\ k.type = "committed" /\ k.id = id
  BY <1>2, SurfaceReports
<1>8. surface_mapped(d, id) = send_event([d EXCEPT !.surfaces[id] = x], m)
  BY <1>5 DEF surface_mapped, has_surface
<1> HIDE DEF x
<1>9. /\ f \in Displays /\ SameLinks(d, f) /\ f.surfaces = S /\ f.next_id = d.next_id
      /\ DOMAIN S = D /\ S[id] = x /\ \A i \in D : i # id => S[i] = d.surfaces[i]
      /\ f = [d EXCEPT !.surfaces[id] = x]
  BY <1>1, <1>3, SurfaceBecomes
<1>10. surface_mapped(d, id) = a
  <2> HIDE DEF f, m
  <2> QED
    BY <1>8, <1>9
<1> HIDE DEF f, S, m
<1>11. a \in Displays /\ Same(f, a)
  BY <1>6, <1>9, DisplayEvent
<1> HIDE DEF a
<1>12. a.surfaces = S /\ a.next_id = d.next_id /\ id \in DOMAIN a.surfaces /\ a.surfaces[id] = x
  BY <1>9, <1>11 DEF Same
<1>13. [a EXCEPT !.surfaces[id].sized = TRUE] = [a EXCEPT !.surfaces[id] = y]
  BY <1>12
<1> HIDE DEF y
<1>14. surface_committed(a, id, TRUE) = send_event([a EXCEPT !.surfaces[id] = y], k)
  BY <1>12, <1>13 DEF surface_committed, has_surface
<1>15. /\ h \in Displays /\ SameLinks(a, h) /\ h.surfaces = R /\ h.next_id = a.next_id
       /\ DOMAIN R = DOMAIN a.surfaces /\ R[id] = y
       /\ \A i \in DOMAIN a.surfaces : i # id => R[i] = a.surfaces[i]
       /\ h = [a EXCEPT !.surfaces[id] = y]
  BY <1>4, <1>11, <1>12, SurfaceBecomes
<1>16. surface_committed(surface_mapped(d, id), id, TRUE) = e
  <2> HIDE DEF h, k, e
  <2> QED
    BY <1>10, <1>14, <1>15 DEF e
<1> HIDE DEF h, R, k
<1>17. e \in Displays /\ Same(h, e)
  BY <1>7, <1>15, DisplayEvent
<1>18. /\ e.surfaces = R /\ e.next_id = d.next_id /\ DOMAIN R = D /\ R[id] = y
       /\ \A i \in D : i # id => R[i] = d.surfaces[i]
  BY <1>9, <1>12, <1>15, <1>17 DEF Same
<1>19. Sizes(e)
  BY <1>1, <1>4, <1>18 DEF Sizes
<1>20. ASSUME b.pc # "down" PROVE Good(e, b)
  <2>1. PICK M : Talk(d, b, M) /\ Agree(d, b, M)
    BY <1>20 DEF Fine, Good
  <2>2. Fresh(M, m) /\ m.type \notin {"begin", "end"}
    BY <1>6 DEF Fresh
  <2>3. PICK N : /\ Talk(a, b, N) /\ N \in {M, mirrored(M, m)}
                 /\ Served(a, b) => N = mirrored(M, m) /\ Served(d, b)
    BY <1>6, <1>9, <2>1, <2>2, ChangeReported DEF a
  <2>4. Fresh(N, k) /\ k.type \notin {"begin", "end"}
    BY <1>7 DEF Fresh
  <2>5. PICK L : /\ Talk(e, b, L) /\ L \in {N, mirrored(N, k)}
                 /\ Served(e, b) => L = mirrored(N, k) /\ Served(a, b)
    BY <1>7, <1>15, <2>3, <2>4, ChangeReported
  <2> HIDE DEF e
  <2>6. mirrored(M, m).known = M.known /\ mirrored(N, k).known = N.known
    BY <1>6, <1>7 DEF mirrored
  <2>7. M.known \subseteq 1 .. d.next_id - 1
    BY <2>1 DEF Agree
  <2>8. L.known \subseteq 1 .. e.next_id - 1
    BY <1>18, <2>3, <2>5, <2>6, <2>7
  <2>9. ASSUME Served(e, b) PROVE Agrees(L, e.surfaces)
    <3>1. Agrees(M, d.surfaces) /\ N = mirrored(M, m) /\ L = mirrored(N, k)
      BY <2>1, <2>3, <2>5, <2>9 DEF Agree
    <3>2. id \in M.known
      BY <3>1 DEF Agrees
    <3>3. N.known = M.known /\ N.mapped = M.mapped \cup {id} /\ N.sized = M.sized
      BY <1>6, <3>1, <3>2 DEF mirrored
    <3>4. L.known = M.known /\ L.mapped = M.mapped \cup {id} /\ L.sized = M.sized \cup {id}
      BY <1>7, <3>1, <3>2, <3>3 DEF mirrored
    <3>5. {i \in D : R[i].mapped} = {i \in D : d.surfaces[i].mapped} \cup {id}
      BY <1>4, <1>18
    <3> QED
      BY <1>18, <3>1, <3>4, <3>5 DEF Agrees
  <2> QED
    BY <2>5, <2>8, <2>9 DEF Good, Agree
<1>21. Fine(e, b)
  BY <1>17, <1>19, <1>20 DEF Fine
<1> QED
  BY <1>16, <1>21

\* The rest of the server's loop.
LEMMA Serves ==
  ASSUME NEW d, NEW b, Fine(d, b), b.pc \in {"down", "hello", "boot", "run"}
  PROVE  LET e == IF ready.accept THEN accept_pending(d) ELSE d
         IN  Fine(dispatch_pending(e, reads(e)), b)
<1> DEFINE e == IF ready.accept THEN accept_pending(d) ELSE d
<1>1. Fine(e, b)
  BY AcceptsPending
<1> HIDE DEF e
<1>2. reads(e) \in Nat
  <2>1. e \in Displays
    BY <1>1 DEF Fine
  <2>2. ASSUME e.client # None PROVE Len(e.chan[e.client].down) \in Nat
    <3>1. e.client \in DOMAIN e.chan /\ e.chan \in Seq(Channels)
      BY <2>1, <2>2, DisplayParts DEF Linked
    <3>2. e.chan[e.client] \in Channels
      BY <3>1
    <3>3. e.chan[e.client].down \in Seq(Orders)
      BY <3>2 DEF Channels
    <3> QED
      BY <3>3
  <2> QED
    BY <2>2 DEF reads
<1>3. Fine(dispatch_pending(e, reads(e)), b)
  BY <1>1, <1>2, DispatchesPending
<1> QED
  BY <1>3 DEF e

-----------------------------------------------------------------------------
(* The window manager on its connection.                                   *)

\* Connection c has u to be read by the window manager and w by the server.
moved(d, c, u, w) ==
  [d EXCEPT !.chan = [d.chan EXCEPT ![c] = [d.chan[c] EXCEPT !.up = u, !.down = w]]]

LEMMA Moved ==
  ASSUME NEW d \in Displays, NEW c \in DOMAIN d.chan, NEW u \in Seq(Reports), NEW w \in Seq(Orders)
  PROVE  LET e == moved(d, c, u, w)
         IN  /\ e \in Displays /\ Same(d, e) /\ e.client = d.client
             /\ e.intercepts = d.intercepts /\ e.grabbed = d.grabbed
             /\ e.chan[c].up = u /\ e.chan[c].down = w /\ e.chan[c].wm = d.chan[c].wm
             /\ e.chan[c].ds = d.chan[c].ds
<1> DEFINE x == [d.chan[c] EXCEPT !.up = u, !.down = w]
           q == [d.chan EXCEPT ![c] = x]
           e == [d EXCEPT !.chan = q]
<1>1. /\ d \in DisplayFields /\ Linked(d) /\ d.chan \in Seq(Channels)
      /\ DOMAIN d.chan = 1 .. Len(d.chan) /\ Len(d.chan) \in Nat /\ d.chan[c] \in Channels
  BY DisplayParts
<1>2. /\ x \in Channels /\ x.up = u /\ x.down = w /\ x.wm = d.chan[c].wm /\ x.ds = d.chan[c].ds
  BY <1>1 DEF Channels
<1> HIDE DEF x
<1>3. /\ q \in Seq(Channels) /\ DOMAIN q = DOMAIN d.chan /\ q[c] = x
      /\ \A i \in DOMAIN d.chan : i # c => q[i] = d.chan[i]
  BY <1>1, <1>2
<1> HIDE DEF q
<1>4. /\ e \in DisplayFields /\ Same(d, e) /\ e.client = d.client
      /\ e.intercepts = d.intercepts /\ e.grabbed = d.grabbed /\ e.chan = q
  BY <1>1, <1>3 DEF DisplayFields, Same
<1>5. e = moved(d, c, u, w)
  BY DEF moved, q, x
<1> HIDE DEF e
<1>6. Linked(e)
  BY <1>1, <1>2, <1>3, <1>4 DEF Linked, Same
<1>7. /\ e \in Displays /\ Same(d, e) /\ e.client = d.client
      /\ e.intercepts = d.intercepts /\ e.grabbed = d.grabbed
      /\ e.chan[c].up = u /\ e.chan[c].down = w /\ e.chan[c].wm = d.chan[c].wm
      /\ e.chan[c].ds = d.chan[c].ds
  BY <1>2, <1>3, <1>4, <1>6 DEF Displays
<1> QED
  BY <1>5, <1>7

\* What a step of the window manager does to its connection, in the two forms
\* of the actions.
exchanged(d, c, u, o) == [d EXCEPT !.chan[c].up = u, !.chan[c].down = @ \o o]
delivered(d, c, o)    == [d EXCEPT !.chan[c].down = @ \o o]

LEMMA MovedIs ==
  ASSUME NEW d \in Displays, NEW c \in DOMAIN d.chan, NEW u, NEW o
  PROVE  /\ exchanged(d, c, u, o) = moved(d, c, u, d.chan[c].down \o o)
         /\ delivered(d, c, o) = moved(d, c, d.chan[c].up, d.chan[c].down \o o)
<1>1. d \in DisplayFields /\ d.chan \in Seq(Channels) /\ d.chan[c] \in Channels
  BY DisplayParts
<1>2. d = [surfaces |-> d.surfaces, next_id |-> d.next_id, seat |-> d.seat,
           intercepts |-> d.intercepts, grabbed |-> d.grabbed, overlays |-> d.overlays,
           client |-> d.client, chan |-> d.chan]
  BY <1>1 DEF DisplayFields
<1>3. [d EXCEPT !.chan[c].down = @ \o o] = moved(d, c, d.chan[c].up, d.chan[c].down \o o)
  <2> DEFINE w == d.chan[c].down \o o
             x == [d.chan[c] EXCEPT !.down = w]
             y == [d.chan[c] EXCEPT !.up = d.chan[c].up, !.down = w]
  <2>1. [d EXCEPT !.chan[c].down = @ \o o] = [d EXCEPT !.chan = [d.chan EXCEPT ![c] = x]]
    OBVIOUS
  <2> HIDE DEF w
  <2>2. x = y
    BY <1>1 DEF Channels
  <2>3. moved(d, c, d.chan[c].up, w) = [d EXCEPT !.chan = [d.chan EXCEPT ![c] = y]]
    BY DEF moved
  <2> HIDE DEF x, y
  <2> QED
    BY <2>1, <2>2, <2>3 DEF w
<1>4. [d EXCEPT !.chan[c].up = u, !.chan[c].down = @ \o o]
        = moved(d, c, u, d.chan[c].down \o o)
  <2> DEFINE f == [d EXCEPT !.chan = [d.chan EXCEPT ![c] = [d.chan[c] EXCEPT !.up = u]]]
             x == [d.chan[c] EXCEPT !.up = u]
             q == [d.chan EXCEPT ![c] = x]
  <2>1. [d EXCEPT !.chan[c].up = u, !.chan[c].down = @ \o o]
          = [f EXCEPT !.chan = [f.chan EXCEPT ![c] = [f.chan[c] EXCEPT !.down = f.chan[c].down \o o]]]
    OBVIOUS
  <2>2. f.chan = q
    BY <1>2
  <2>3. q[c] = x /\ x.down = d.chan[c].down
    BY <1>1 DEF Channels
  <2> DEFINE w == d.chan[c].down \o o
             y == [x EXCEPT !.down = w]
             z == [d.chan[c] EXCEPT !.up = u, !.down = w]
  <2>4. [f EXCEPT !.chan = [f.chan EXCEPT ![c] = [f.chan[c] EXCEPT !.down = f.chan[c].down \o o]]]
          = [f EXCEPT !.chan = [q EXCEPT ![c] = y]]
    <3> HIDE DEF f, q, x
    <3> QED
      BY <2>2, <2>3
  <2> HIDE DEF w
  <2>5. y = z
    OBVIOUS
  <2>6. [q EXCEPT ![c] = y] = [d.chan EXCEPT ![c] = y]
    <3> HIDE DEF x, y
    <3> QED
      BY <1>1
  <2>7. [f EXCEPT !.chan = [q EXCEPT ![c] = y]] = [d EXCEPT !.chan = [d.chan EXCEPT ![c] = y]]
    <3> DEFINE p == [d.chan EXCEPT ![c] = y]
    <3>1. f = [d EXCEPT !.chan = q]
      OBVIOUS
    <3> HIDE DEF f, q, p
    <3>2. [[d EXCEPT !.chan = q] EXCEPT !.chan = p] = [d EXCEPT !.chan = p]
      BY <1>2
    <3> QED
      BY <2>6, <3>1, <3>2 DEF p
  <2>8. moved(d, c, u, w) = [d EXCEPT !.chan = [d.chan EXCEPT ![c] = z]]
    BY DEF moved
  <2> HIDE DEF f, q, x, y, z
  <2> QED
    BY <2>1, <2>4, <2>5, <2>7, <2>8 DEF w
<1> QED
  BY <1>3, <1>4 DEF exchanged, delivered

\* What the window manager wants of the server.
keys_wanted(b) == IF b.pc = "run" THEN KeysHeld ELSE {}

\* The window manager has read some, becomes b and sends o.
LEMMA ManagerSteps ==
  ASSUME NEW d, NEW a, Fine(d, a), NEW M, Talk(d, a, M), Agree(d, a, M),
         NEW b, b.conn = a.conn, NEW u \in Seq(Reports), NEW o \in Seq(Orders),
         Traced(b.surfaces, u, M),
         Leaves("intercepts", o, keys_wanted(a), keys_wanted(b)),
         Leaves("grab", o, a.dragging # NoWindow, b.dragging # NoWindow),
         NEW e, e = moved(d, a.conn, u, d.chan[a.conn].down \o o),
         Marked(b.pc, e.chan[a.conn]), Served(e, b) => Served(d, a)
  PROVE  Fine(e, b)
<1> DEFINE c == a.conn
           w == d.chan[c].down \o o
<1>1. d \in Displays /\ Sizes(d)
  BY DEF Fine
<1>2. c \in DOMAIN d.chan /\ d.chan[c] \in Channels /\ c \in Nat
  BY <1>1, TalkConn
<1>3. d.chan[c].down \in Seq(Orders)
  BY <1>2 DEF Channels
<1>4. w \in Seq(Orders)
  BY <1>3
<1> HIDE DEF w
<1>5. /\ e \in Displays /\ Same(d, e) /\ e.client = d.client
      /\ e.intercepts = d.intercepts /\ e.grabbed = d.grabbed
      /\ e.chan[c].up = u /\ e.chan[c].down = w /\ e.chan[c].wm = d.chan[c].wm
      /\ e.chan[c].ds = d.chan[c].ds
  <2>1. e = moved(d, c, u, w)
    BY DEF w
  <2> HIDE DEF c
  <2> DEFINE f == moved(d, c, u, w)
  <2>2. /\ f \in Displays /\ Same(d, f) /\ f.client = d.client
        /\ f.intercepts = d.intercepts /\ f.grabbed = d.grabbed
        /\ f.chan[c].up = u /\ f.chan[c].down = w /\ f.chan[c].wm = d.chan[c].wm
        /\ f.chan[c].ds = d.chan[c].ds
    BY <1>1, <1>2, <1>4, Moved
  <2> HIDE DEF f
  <2>3. e = f
    BY <2>1 DEF f
  <2> QED
    BY <2>2, <2>3
<1>6. Sizes(e)
  BY <1>1, <1>5 DEF Sizes, Same
<1>7. Owed(e, b)
  <2> SUFFICES ASSUME d.chan[c].ds # "closed" PROVE Owed(e, b)
    BY <1>5 DEF Owed
  <2> DEFINE ga == a.dragging # NoWindow
             gb == b.dragging # NoWindow
             ka == keys_wanted(a)
             kb == keys_wanted(b)
             kd == keys_of(d, c)
             gd == grab_of(d, c)
  <2>1. /\ Leaves("intercepts", d.chan[c].down, kd, ka)
        /\ Leaves("grab", d.chan[c].down, gd, ga)
    BY DEF Talk, Owed, keys_wanted
  <2>2. Leaves("intercepts", o, ka, kb) /\ Leaves("grab", o, ga, gb)
    OBVIOUS
  <2>3. keys_of(e, c) = kd /\ grab_of(e, c) = gd
    BY <1>5 DEF keys_of, grab_of
  <2> HIDE DEF ga, gb, ka, kb, kd, gd, c
  <2>4. Leaves("intercepts", d.chan[c].down \o o, kd, kb) /\ Leaves("grab", d.chan[c].down \o o, gd, gb)
    BY <1>3, <2>1, <2>2, LeavesBoth
  <2>5. Leaves("intercepts", w, kd, kb) /\ Leaves("grab", w, gd, gb)
    BY <2>4 DEF w
  <2>6. b.conn = c
    BY DEF c
  <2> QED
    BY <1>5, <2>3, <2>5, <2>6 DEF Owed, keys_wanted, kb, gb
<1>8. Talk(e, b, M)
  <2>1. c \in DOMAIN e.chan /\ d.chan[c].wm = "open"
    BY <1>2, <1>5 DEF Same, Talk
  <2> QED
    BY <1>5, <1>7, <2>1 DEF Talk
<1>9. Agree(e, b, M)
  BY <1>5 DEF Agree, Same
<1> QED
  BY <1>5, <1>6, <1>8, <1>9 DEF Fine, Good

\* The messages up to n are read.
LEMMA TraceRead ==
  ASSUME NEW S, NEW q \in Seq(Reports), NEW M, Traced(S, q, M), NEW n \in 0 .. Len(q)
  PROVE  LET now == SubSeq(q, 1, n)
             later == SubSeq(q, n + 1, Len(q))
         IN  /\ now \in Seq(Reports) /\ later \in Seq(Reports)
             /\ DOMAIN now = 1 .. n /\ \A i \in 1 .. n : now[i] = q[i]
             /\ DOMAIN later = 1 .. Len(q) - n /\ \A i \in 1 .. Len(q) - n : later[i] = q[i + n]
             /\ \E h : /\ Follows(h, Mirror(S), now)
                       /\ \A T : Mirror(T) = h[Len(now)] => Traced(T, later, M)
<1> DEFINE now == SubSeq(q, 1, n)
           later == SubSeq(q, n + 1, Len(q))
           N == Len(q)
<1>1. N \in Nat /\ DOMAIN q = 1 .. N /\ n \in 0 .. N
  OBVIOUS
<1>2. /\ now \in Seq(Reports) /\ Len(now) = n /\ DOMAIN now = 1 .. n
      /\ \A i \in 1 .. n : now[i] = q[i]
  OBVIOUS
<1>3. /\ later \in Seq(Reports) /\ Len(later) = N - n /\ DOMAIN later = 1 .. N - n
      /\ \A i \in 1 .. N - n : later[i] = q[i + n]
  OBVIOUS
<1> HIDE DEF now, later, N
<1>4. PICK h : Follows(h, Mirror(S), q) /\ h[N] = M
  BY DEF Traced, N
<1>5. Follows(h, Mirror(S), now)
  BY <1>1, <1>2, <1>4 DEF Follows
<1> DEFINE g == [i \in 0 .. N - n |-> h[i + n]]
<1>6. ASSUME NEW T, Mirror(T) = h[n] PROVE Traced(T, later, M)
  <2>1. g[0] = h[n] /\ g[N - n] = h[N]
    BY <1>1
  <2>2. ASSUME NEW i \in 1 .. N - n
        PROVE  g[i] = mirrored(g[i - 1], later[i]) /\ Fresh(g[i - 1], later[i])
    <3>1. i + n \in 1 .. N /\ g[i] = h[i + n] /\ g[i - 1] = h[(i + n) - 1] /\ later[i] = q[i + n]
      BY <1>1, <1>3
    <3>2. h[i + n] = mirrored(h[(i + n) - 1], q[i + n]) /\ Fresh(h[(i + n) - 1], q[i + n])
      BY <1>1, <1>4, <3>1 DEF Follows
    <3> QED
      BY <3>1, <3>2
  <2> HIDE DEF g
  <2>3. Follows(g, Mirror(T), later)
    BY <1>3, <1>6, <2>1, <2>2 DEF Follows
  <2> QED
    BY <1>3, <1>4, <2>1, <2>3 DEF Traced
<1>7. Len(now) = n
  BY <1>2
<1> QED
  BY <1>2, <1>3, <1>5, <1>6, <1>7 DEF now, later, N

-----------------------------------------------------------------------------
(* The inductive invariant, for Core k, backend b and display server d.    *)

manager(k, b) == [core |-> k, wm |-> b, out |-> <<>>]

Kept(k, b, d) ==
  /\ manager(k, b) \in Managers /\ k.effects = <<>> /\ Exact(manager(k, b))
  /\ b.pc = "down" => b = backend
  /\ b.pc # "run" => b.dragging = NoWindow
  /\ Fine(d, b)

LEMMA ManagerIs ==
  ASSUME NEW r \in Managers
  PROVE  /\ manager(r.core, r.wm) \in Managers /\ (Exact(r) => Exact(manager(r.core, r.wm)))
         /\ manager(r.core, r.wm).core = r.core /\ manager(r.core, r.wm).wm = r.wm
         /\ manager(r.core, r.wm).out = <<>>
<1>1. r.core \in Cores(Surface) /\ r.wm \in Backends /\ Held(r) /\ <<>> \in Seq(Wishes)
  BY ManagerParts
<1>2. manager(r.core, r.wm) \in Managers
  BY <1>1, NewManagerState DEF Held, manager
<1>3. Exact(r) => Exact(manager(r.core, r.wm))
  BY DEF Exact, Managed, Ripe, manager
<1>4. /\ manager(r.core, r.wm).core = r.core /\ manager(r.core, r.wm).wm = r.wm
      /\ manager(r.core, r.wm).out = <<>>
  BY DEF manager
<1> QED
  BY <1>2, <1>3, <1>4

LEMMA ContinuesExact ==
  ASSUME NEW s, NEW r, Continues(s, r), Exact(s)
  PROVE  Exact(r)
BY DEF Continues, Exact, Managed, Ripe

\* The server or its clients act.
LEMMA ServerKeeps ==
  ASSUME NEW k, NEW b, NEW d, Kept(k, b, d), NEW e, Fine(d, b) => Fine(e, b)
  PROVE  Kept(k, b, e)
BY DEF Kept

LEMMA FreshCore ==
  ASSUME NEW mons \in Seq(Outputs), NEW c \in Configs
  PROVE  LET k == fresh_core(mons, c)
         IN  k \in Cores(Surface) /\ k.effects = <<>> /\ DOMAIN k.window = {}
<1>1. fresh_core(mons, c) \in Cores(Surface)
  BY FirstCore DEF fresh_core
<1>2. fresh_core(mons, c).effects = <<>> /\ DOMAIN fresh_core(mons, c).window = {}
  BY DEF fresh_core
<1> QED
  BY <1>1, <1>2

LEMMA FreshBackend ==
  /\ backend \in Backends /\ DOMAIN backend.surfaces = {} /\ backend.pc = "down"
  /\ backend.conn = None /\ backend.dragging = NoWindow
<1>1. backend.surfaces \in UNION {[D -> SurfaceRecords] : D \in SUBSET Surface}
  <2>1. [id \in {} |-> [mapped |-> FALSE]] \in [{} -> SurfaceRecords]
    OBVIOUS
  <2>2. backend.surfaces = [id \in {} |-> [mapped |-> FALSE]]
    BY DEF backend
  <2> QED
    BY <2>1, <2>2
<1>2. backend.configured \in UNION {[D -> Places] : D \in SUBSET Surface}
  <2>1. [w \in {} |-> Own] \in [{} -> Places]
    OBVIOUS
  <2>2. backend.configured = [w \in {} |-> Own]
    BY DEF backend
  <2> QED
    BY <2>1, <2>2
<1> DEFINE f == backend.surfaces
           g == backend.configured
<1>3. backend = [pc |-> "down", conn |-> None, surfaces |-> f, prev_focused |-> NoWindow,
                 configured |-> g, overlay |-> 0, next_overlay |-> 1,
                 dragging |-> NoWindow, astray |-> FALSE]
  BY DEF backend
<1>4. DOMAIN f = {}
  BY DEF backend
<1> HIDE DEF f, g
<1>5. backend \in Backends
  <2>1. /\ f \in UNION {[D -> SurfaceRecords] : D \in SUBSET Surface}
        /\ g \in UNION {[D -> Places] : D \in SUBSET Surface}
    BY <1>1, <1>2 DEF f, g
  <2>2. [pc |-> "down", conn |-> None, surfaces |-> f, prev_focused |-> NoWindow,
         configured |-> g, overlay |-> 0, next_overlay |-> 1,
         dragging |-> NoWindow, astray |-> FALSE] \in Backends
    BY <2>1 DEF Backends, Ids
  <2> QED
    BY <1>3, <2>2
<1> QED
  BY <1>3, <1>4, <1>5 DEF f

LEMMA FreshManager ==
  ASSUME NEW k \in Cores(Surface), k.effects = <<>>, DOMAIN k.window = {},
         NEW d \in Displays, Sizes(d)
  PROVE  Kept(k, backend, d)
<1>1. backend \in Backends /\ DOMAIN backend.surfaces = {} /\ backend.pc = "down"
      /\ backend.dragging = NoWindow /\ <<>> \in Seq(Wishes)
  BY FreshBackend
<1>2. manager(k, backend) \in Managers
  BY <1>1, NewManagerState DEF manager
<1>3. Exact(manager(k, backend))
  BY <1>1 DEF Exact, Managed, Ripe, manager
<1>4. Fine(d, backend)
  BY <1>1 DEF Fine
<1> QED
  BY <1>1, <1>2, <1>3, <1>4 DEF Kept

\* The process is gone.
LEMMA DownKeeps ==
  ASSUME NEW k, NEW b, NEW d, Kept(k, b, d), b.pc # "down"
  PROVE  Kept(fresh_core(k.wsman.monitors, k.settings), backend,
              [d EXCEPT !.chan[b.conn] = close_manager_end(@)])
<1> DEFINE c == b.conn
           j == fresh_core(k.wsman.monitors, k.settings)
           x == close_manager_end(d.chan[c])
           q == [d.chan EXCEPT ![c] = x]
           e == [d EXCEPT !.chan = q]
<1>1. k \in Cores(Surface) /\ d \in Displays /\ Sizes(d)
  <2>1. manager(k, b) \in Managers /\ manager(k, b).core = k
    BY DEF Kept, manager
  <2> QED
    BY <2>1, ManagerParts DEF Kept, Fine
<1>2. k.settings \in Configs /\ 1 \in DOMAIN k.workspaces
  BY <1>1, CoreParts
<1>3. k.wsman.monitors \in Seq(Outputs)
  BY <1>1, <1>2, MonitorOf
<1>4. j \in Cores(Surface) /\ j.effects = <<>> /\ DOMAIN j.window = {}
  BY <1>2, <1>3, FreshCore
<1> HIDE DEF j
<1>5. PICK M : Talk(d, b, M)
  BY DEF Kept, Fine, Good
<1>6. /\ d \in DisplayFields /\ Linked(d) /\ d.chan \in Seq(Channels)
      /\ DOMAIN d.chan = 1 .. Len(d.chan) /\ Len(d.chan) \in Nat
      /\ c \in DOMAIN d.chan /\ d.chan[c] \in Channels
  BY <1>1, <1>5, DisplayParts, TalkConn
<1>7. [d EXCEPT !.chan[b.conn] = close_manager_end(@)] = e
  OBVIOUS
<1>8. x \in Channels /\ x.ds = d.chan[c].ds
  <2>1. <<>> \in Seq(Orders) /\ <<>> \in Seq(Reports)
    OBVIOUS
  <2> DEFINE ch == d.chan[c]
             w == IF ch.ds = "closed" THEN <<>> ELSE ch.down
  <2>2. ch \in Channels
    BY <1>6
  <2>3. x = [ch EXCEPT !.wm = "closed", !.up = <<>>, !.down = w]
    BY DEF close_manager_end
  <2> HIDE DEF x, ch
  <2>4. w \in Seq(Orders)
    BY <2>1, <2>2 DEF Channels
  <2> HIDE DEF w
  <2>5. x \in Channels /\ x.ds = ch.ds
    BY <2>1, <2>2, <2>3, <2>4 DEF Channels
  <2> QED
    BY <2>5 DEF ch
<1> HIDE DEF x
<1>9. /\ q \in Seq(Channels) /\ DOMAIN q = DOMAIN d.chan /\ q[c] = x
      /\ \A i \in DOMAIN d.chan : i # c => q[i] = d.chan[i]
  BY <1>6, <1>8
<1> HIDE DEF q
<1>10. /\ e \in DisplayFields /\ Same(d, e) /\ e.client = d.client
       /\ e.intercepts = d.intercepts /\ e.grabbed = d.grabbed /\ e.chan = q
  BY <1>6, <1>9 DEF DisplayFields, Same
<1> HIDE DEF e
<1>11. Linked(e)
  BY <1>6, <1>8, <1>9, <1>10 DEF Linked, Same
<1>12. e \in Displays /\ Sizes(e)
  BY <1>1, <1>10, <1>11 DEF Displays, Sizes, Same
<1>13. Kept(j, backend, e)
  BY <1>4, <1>12, FreshManager
<1> QED
  BY <1>7, <1>13 DEF j

\* The constructor connects.
LEMMA ConnectKeeps ==
  ASSUME NEW k, NEW b, NEW d, Kept(k, b, d), b.pc = "down"
  PROVE  Kept(k, [b EXCEPT !.pc = "hello", !.conn = Len(d.chan) + 1],
              [d EXCEPT !.chan = Append(@, [up |-> <<>>, down |-> <<>>,
                                            wm |-> "open", ds |-> "backlog"])])
<1> DEFINE c == Len(d.chan) + 1
           x == [up |-> <<>>, down |-> <<>>, wm |-> "open", ds |-> "backlog"]
           q == Append(d.chan, x)
           e == [d EXCEPT !.chan = q]
           a == [b EXCEPT !.pc = "hello", !.conn = c]
<1>1. /\ d \in Displays /\ Sizes(d) /\ b = backend /\ k.effects = <<>>
      /\ manager(k, b) \in Managers /\ Exact(manager(k, b))
  BY DEF Kept, Fine
<1>2. b \in Backends /\ DOMAIN b.surfaces = {} /\ b.dragging = NoWindow
  BY <1>1, FreshBackend
<1>3. /\ d \in DisplayFields /\ Linked(d) /\ d.chan \in Seq(Channels)
      /\ DOMAIN d.chan = 1 .. Len(d.chan) /\ Len(d.chan) \in Nat
  BY <1>1, DisplayParts
<1>4. c \in Nat /\ c \in Ids /\ c \notin DOMAIN d.chan /\ c # None
  BY <1>3, DisplayAssumption DEF Ids
<1>5. /\ a \in Backends /\ a.pc = "hello" /\ a.conn = c /\ a.surfaces = b.surfaces
      /\ a.dragging = NoWindow
  <2> HIDE DEF c
  <2> QED
    BY <1>2, <1>4 DEF Backends
<1> HIDE DEF a
<1>6. x \in Channels /\ x.up = <<>> /\ x.down = <<>> /\ x.wm = "open" /\ x.ds = "backlog"
  BY DEF Channels
<1> HIDE DEF x
<1>7. /\ q \in Seq(Channels) /\ DOMAIN q = DOMAIN d.chan \cup {c} /\ q[c] = x
      /\ \A i \in DOMAIN d.chan : q[i] = d.chan[i]
  BY <1>3, <1>6
<1> HIDE DEF q
<1>8. /\ e \in DisplayFields /\ e.surfaces = d.surfaces /\ e.next_id = d.next_id
      /\ e.seat = d.seat /\ e.client = d.client
      /\ e.intercepts = d.intercepts /\ e.grabbed = d.grabbed /\ e.chan = q
  BY <1>3, <1>7 DEF DisplayFields
<1>80. e = [d EXCEPT !.chan = Append(@, [up |-> <<>>, down |-> <<>>, wm |-> "open", ds |-> "backlog"])]
  BY DEF q, x
<1> HIDE DEF e, c
<1>9. Linked(e)
  <2>1. d.client # c
    BY <1>3, <1>4 DEF Linked
  <2>2. \A i \in DOMAIN e.chan : e.chan[i].ds = "client" <=> i = e.client
    BY <1>3, <1>6, <1>7, <1>8, <2>1 DEF Linked
  <2> QED
    BY <1>3, <1>7, <1>8, <2>2 DEF Linked
<1>10. e \in Displays /\ Sizes(e) /\ e.client # c
  <2>1. d.client # c
    BY <1>3, <1>4 DEF Linked
  <2> QED
    BY <1>1, <1>8, <1>9, <2>1 DEF Displays, Sizes
<1> DEFINE M == Mirror(a.surfaces)
           h == [i \in {0} |-> M]
<1>11. Traced(a.surfaces, <<>>, M)
  <2>1. h[0] = M /\ Len(<<>>) = 0 /\ DOMAIN <<>> = {}
    OBVIOUS
  <2> HIDE DEF h, M
  <2>2. Follows(h, M, <<>>)
    BY <2>1 DEF Follows
  <2> QED
    BY <2>1, <2>2 DEF Traced, M
<1>12. M.known = {}
  BY <1>2, <1>5 DEF Mirror
<1> HIDE DEF M
<1>13. Owed(e, a)
  <2>1. keys_of(e, c) = {} /\ grab_of(e, c) = FALSE
    BY <1>10 DEF keys_of, grab_of
  <2>2. e.chan[a.conn].down = <<>> /\ a.conn = c
    BY <1>5, <1>6, <1>7, <1>8
  <2>3. (a.dragging # NoWindow) = FALSE /\ (IF a.pc = "run" THEN KeysHeld ELSE {}) = {}
    BY <1>5
  <2>4. Leaves("intercepts", <<>>, {}, {}) /\ Leaves("grab", <<>>, FALSE, FALSE)
    BY LeavesNone
  <2> QED
    BY <2>1, <2>2, <2>3, <2>4 DEF Owed
<1>14. Marked(a.pc, x)
  BY <1>5, <1>6 DEF Marked
<1>15. Talk(e, a, M)
  BY <1>5, <1>6, <1>7, <1>8, <1>11, <1>13, <1>14 DEF Talk
<1>16. Agree(e, a, M)
  BY <1>5, <1>12 DEF Agree, Served
<1>17. Fine(e, a)
  BY <1>10, <1>15, <1>16 DEF Fine, Good
<1>18. manager(k, a) \in Managers /\ Exact(manager(k, a))
  <2>1. /\ manager(k, b).core = k /\ manager(k, b).wm = b /\ manager(k, a).core = k
        /\ manager(k, a).wm = a
    BY DEF manager
  <2>2. k \in Cores(Surface) /\ <<>> \in Seq(Wishes)
    BY <1>1, <2>1, ManagerParts
  <2>3. manager(k, a) \in Managers
    BY <1>2, <1>5, <2>2, NewManagerState DEF manager
  <2>4. DOMAIN k.window = {}
    BY <1>1, <1>2, <2>1 DEF Exact, Managed
  <2>5. Exact(manager(k, a))
    BY <1>2, <1>5, <2>1, <2>4 DEF Exact, Managed, Ripe
  <2> QED
    BY <2>3, <2>5
<1>19. Kept(k, a, e)
  BY <1>1, <1>5, <1>17, <1>18 DEF Kept
<1> QED
  BY <1>19, <1>80 DEF a, c

\* What the window manager sends only adds to what it sent.
LEMMA DeliveredIs ==
  ASSUME NEW d \in Displays, NEW c \in DOMAIN d.chan, NEW o
  PROVE  delivered(d, c, o) = exchanged(d, c, d.chan[c].up, o)
BY MovedIs

\* A backend that is started, or starts, has read up to u and sends what it
\* wants of the server.
LEMMA RunKeeps ==
  ASSUME NEW k, NEW b, NEW d, Kept(k, b, d), b.pc \in {"boot", "run"},
         NEW M, Talk(d, b, M), Agree(d, b, M), b.pc = "boot" => d.chan[b.conn].down = <<>>,
         NEW s \in Managers, s.wm.pc = "run", s.wm.conn = b.conn, Exact(s), s.core.effects = <<>>,
         NEW u \in Seq(Reports), Traced(s.wm.surfaces, u, M),
         \A i \in DOMAIN u : u[i].type # "begin",
         Says(s, keys_wanted(b), KeysHeld, b.dragging # NoWindow)
  PROVE  Kept(s.core, s.wm, exchanged(d, b.conn, u, s.out))
<1> DEFINE c == b.conn
           o == s.out
           w == d.chan[c].down \o o
           a == s.wm
           e == exchanged(d, c, u, o)
<1>1. Fine(d, b) /\ d \in Displays
  BY DEF Kept, Fine
<1>2. c \in DOMAIN d.chan /\ d.chan[c] \in Channels /\ Marked(b.pc, d.chan[c])
  BY <1>1, TalkConn DEF Talk
<1>3. d.chan[c].down \in Seq(Wishes)
  <2>1. ASSUME b.pc = "boot" PROVE d.chan[c].down \in Seq(Wishes)
    <3>1. d.chan[c].down = <<>>
      BY <2>1
    <3>2. <<>> \in Seq(Wishes)
      OBVIOUS
    <3> QED
      BY <3>1, <3>2, Zenon
  <2>2. ASSUME b.pc = "run" PROVE d.chan[c].down \in Seq(Wishes)
    <3> HIDE DEF c
    <3> QED
      BY <1>2, <2>2 DEF Marked
  <2> QED
    BY <2>1, <2>2
<1>4. o \in Seq(Wishes)
  BY ManagerParts
<1>5. w \in Seq(Wishes)
  BY <1>3, <1>4
<1>6. Wishes \subseteq Orders
  BY DEF Orders
<1>7. o \in Seq(Orders) /\ w \in Seq(Orders)
  BY <1>4, <1>5, <1>6, SeqMonotonic
<1>10. d.chan[c].ds # "backlog"
  <2>1. <<Hi, Ask>> # <<>>
    OBVIOUS
  <2> QED
    BY <1>2, <2>1 DEF Marked, c
<1> HIDE DEF w, o, c
<1>8. e = moved(d, c, u, w)
  BY <1>1, <1>2, MovedIs DEF w
<1>9. /\ e.chan[c].up = u /\ e.chan[c].down = w /\ e.chan[c].ds = d.chan[c].ds
      /\ e.client = d.client
  <2>1. /\ moved(d, c, u, w).chan[c].up = u /\ moved(d, c, u, w).chan[c].down = w
        /\ moved(d, c, u, w).chan[c].ds = d.chan[c].ds /\ moved(d, c, u, w).client = d.client
    BY <1>1, <1>2, <1>7, Moved
  <2> QED
    BY <1>8, <2>1, Zenon
<1> HIDE DEF e
<1>11. Marked(a.pc, e.chan[c])
  BY <1>5, <1>9, <1>10 DEF Marked
<1>12. Served(e, a) => Served(d, b)
  <2>1. \A i \in DOMAIN d.chan[c].down : d.chan[c].down[i].type # "request"
    <3>1. ASSUME NEW i \in DOMAIN d.chan[c].down PROVE d.chan[c].down[i].type # "request"
      <4>1. d.chan[c].down[i] \in Wishes
        BY <1>3
      <4> QED
        BY <4>1, WishParts
    <3> QED
      BY <3>1
  <2> QED
    BY <1>9, <2>1 DEF Served, c
<1>13. /\ Leaves("intercepts", o, keys_wanted(b), keys_wanted(a))
       /\ Leaves("grab", o, b.dragging # NoWindow, a.dragging # NoWindow)
  BY DEF Says, keys_wanted, o
<1>14. Fine(e, a)
  <2>1. e = moved(d, b.conn, u, d.chan[b.conn].down \o o)
    BY <1>8 DEF w, c
  <2>2. Marked(a.pc, e.chan[b.conn])
    BY <1>11 DEF c
  <2>3. a.conn = b.conn /\ Traced(a.surfaces, u, M)
    OBVIOUS
  <2> HIDE DEF a
  <2> QED
    BY <1>1, <1>7, <1>12, <1>13, <2>1, <2>2, <2>3, ManagerSteps
<1>15. manager(s.core, s.wm) \in Managers /\ Exact(manager(s.core, s.wm))
  BY ManagerIs
<1>16. Kept(s.core, s.wm, e)
  BY <1>14, <1>15 DEF Kept
<1> QED
  BY <1>16 DEF e, c, o

\* What a started backend has on its connection.
LEMMA RunningTalk ==
  ASSUME NEW k, NEW b, NEW d, Kept(k, b, d), b.pc \in {"hello", "boot", "run"}
  PROVE  /\ manager(k, b) \in Managers /\ Exact(manager(k, b)) /\ k.effects = <<>>
         /\ manager(k, b).core = k /\ manager(k, b).wm = b /\ manager(k, b).out = <<>>
         /\ d \in Displays /\ Fine(d, b)
         /\ \E M : Talk(d, b, M) /\ Agree(d, b, M)
         /\ b.conn \in DOMAIN d.chan /\ d.chan[b.conn] \in Channels
         /\ Marked(b.pc, d.chan[b.conn]) /\ d.chan[b.conn].up \in Seq(Reports)
<1>1. d \in Displays /\ Fine(d, b) /\ \E M : Talk(d, b, M) /\ Agree(d, b, M)
  BY DEF Kept, Fine, Good
<1>2. PICK M : Talk(d, b, M)
  BY <1>1
<1>3. /\ b.conn \in DOMAIN d.chan /\ d.chan[b.conn] \in Channels
      /\ Marked(b.pc, d.chan[b.conn])
  BY <1>1, <1>2, TalkConn DEF Talk
<1>4. d.chan[b.conn].up \in Seq(Reports)
  BY <1>3 DEF Channels
<1>5. manager(k, b).core = k /\ manager(k, b).wm = b /\ manager(k, b).out = <<>>
  BY DEF manager
<1> QED
  BY <1>1, <1>3, <1>4, <1>5 DEF Kept

\* The window manager reads n messages: it knows what they say, and the rest
\* says what is still to know.
ReadOn(s, r, q, n, later, M) ==
  /\ r \in Managers /\ Silent(s, r) /\ Exact(r) /\ later \in Seq(Reports)
  /\ \A T : Mirror(T) = Mirror(r.wm.surfaces) => Traced(T, later, M)
  /\ \A j \in DOMAIN later : j + n \in DOMAIN q /\ later[j] = q[j + n]

LEMMA ReadsSome ==
  ASSUME NEW s \in Managers, Exact(s), NEW q \in Seq(Reports), NEW M, Traced(s.wm.surfaces, q, M),
         NEW n \in 0 .. Len(q), NEW now, now = SubSeq(q, 1, n),
         NEW later, later = SubSeq(q, n + 1, Len(q)),
         s.wm.pc = "run" => \A i \in DOMAIN q : q[i].type # "begin"
  PROVE  now \in Seq(Reports) /\ ReadOn(s, Heard(s, now), q, n, later, M)
<1> DEFINE S == s.wm.surfaces
<1>1. /\ now \in Seq(Reports) /\ later \in Seq(Reports)
      /\ DOMAIN now = 1 .. n /\ \A i \in 1 .. n : now[i] = q[i]
      /\ DOMAIN later = 1 .. Len(q) - n /\ \A i \in 1 .. Len(q) - n : later[i] = q[i + n]
      /\ \E h : /\ Follows(h, Mirror(S), now)
                /\ \A T : Mirror(T) = h[Len(now)] => Traced(T, later, M)
  <2>1. Traced(S, q, M)
    OBVIOUS
  <2> HIDE DEF S
  <2>2. LET v == SubSeq(q, 1, n)
            w == SubSeq(q, n + 1, Len(q))
        IN  /\ v \in Seq(Reports) /\ w \in Seq(Reports)
            /\ DOMAIN v = 1 .. n /\ \A i \in 1 .. n : v[i] = q[i]
            /\ DOMAIN w = 1 .. Len(q) - n /\ \A i \in 1 .. Len(q) - n : w[i] = q[i + n]
            /\ \E h : /\ Follows(h, Mirror(S), v)
                      /\ \A T : Mirror(T) = h[Len(v)] => Traced(T, w, M)
    BY <2>1, TraceRead, Zenon
  <2> QED
    BY <2>2, Zenon
<1>2. Len(q) \in Nat /\ DOMAIN q = 1 .. Len(q) /\ n \in Nat /\ n <= Len(q)
  OBVIOUS
<1>3. \A j \in DOMAIN later : j + n \in DOMAIN q /\ later[j] = q[j + n]
  BY <1>1, <1>2
<1>4. s.wm.pc = "run" => \A i \in DOMAIN now : now[i].type # "begin"
  BY <1>1, <1>2
<1>5. PICK h : /\ Follows(h, Mirror(S), now)
               /\ \A T : Mirror(T) = h[Len(now)] => Traced(T, later, M)
  BY <1>1
<1>6. now \in Seq(Reports) /\ Follows(h, Mirror(s.wm.surfaces), now)
  BY <1>1, <1>5
<1>7. LET r == Heard(s, now)
      IN  /\ r \in Managers /\ Silent(s, r)
          /\ Mirror(r.wm.surfaces) = h[Len(now)]
          /\ Exact(s) /\ (s.wm.pc = "run" => \A i \in DOMAIN now : now[i].type # "begin")
               => Exact(r)
  BY <1>6, HeardAll
<1> QED
  BY <1>1, <1>3, <1>4, <1>5, <1>7 DEF ReadOn

\* A tick that reads n messages.
LEMMA TickKeeps ==
  ASSUME NEW k, NEW b, NEW d, Kept(k, b, d), b.pc = "run",
         NEW up, up = d.chan[b.conn].up, NEW n \in 1 .. Len(up),
         NEW now, now = SubSeq(up, 1, n), NEW later, later = SubSeq(up, n + 1, Len(up)),
         NEW s, s = render_frame(Drained(Heard(manager(k, b), now), now))
  PROVE  Kept(s.core, s.wm, exchanged(d, b.conn, later, s.out))
<1> DEFINE h0 == manager(k, b)
           h1 == Heard(h0, now)
           h2 == Drained(h1, now)
<1>1. /\ h0 \in Managers /\ Exact(h0) /\ h0.wm = b /\ h0.out = <<>>
      /\ Marked("run", d.chan[b.conn]) /\ up \in Seq(Reports)
  BY RunningTalk
<1>2. PICK M : Talk(d, b, M) /\ Agree(d, b, M)
  BY RunningTalk
<1>3. \A i \in DOMAIN up : up[i].type # "begin"
  BY <1>1 DEF Marked
<1>4. Traced(h0.wm.surfaces, up, M)
  BY <1>1, <1>2 DEF Talk
<1>5. n \in 0 .. Len(up)
  BY <1>1
<1>6. s = render_frame(h2)
  BY DEF h2, h1, h0
<1> HIDE DEF h0
<1>7. /\ now \in Seq(Reports) /\ later \in Seq(Reports)
      /\ h1 \in Managers /\ Silent(h0, h1) /\ Exact(h1)
      /\ \A T : Mirror(T) = Mirror(h1.wm.surfaces) => Traced(T, later, M)
      /\ \A j \in DOMAIN later : j + n \in DOMAIN up /\ later[j] = up[j + n]
  <2>1. h0 \in Managers
    BY <1>1
  <2>2. up \in Seq(Reports)
    BY <1>1
  <2>3. h0.wm.pc = "run" => \A i \in DOMAIN up : up[i].type # "begin"
    BY <1>3
  <2>4. Exact(h0)
    BY <1>1
  <2>5. now \in Seq(Reports) /\ ReadOn(h0, Heard(h0, now), up, n, later, M)
    BY <1>4, <1>5, <2>1, <2>2, <2>3, <2>4, ReadsSome
  <2> QED
    BY <2>5 DEF ReadOn
<1>8. \A j \in DOMAIN later : later[j].type # "begin"
  BY <1>3, <1>7
<1> HIDE DEF h1
<1>9. h2 \in Managers /\ Continues(h1, h2)
  BY <1>7, DrainedAll
<1> HIDE DEF h2
<1>10. s \in Managers /\ Continues(h2, s) /\ s.core.effects = <<>>
  BY <1>6, <1>9, FrameRendered
<1>11. Continues(h1, s) /\ Exact(s)
  BY <1>7, <1>9, <1>10, ContinuesTwice, ContinuesExact
<1>12. s.wm.pc = "run" /\ s.wm.conn = b.conn /\ s.wm.surfaces = h1.wm.surfaces
  BY <1>1, <1>7, <1>11 DEF Continues, Silent
<1>13. Traced(s.wm.surfaces, later, M)
  BY <1>7, <1>12
<1>14. Says(s, keys_wanted(b), KeysHeld, b.dragging # NoWindow)
  <2> DEFINE g == b.dragging # NoWindow
  <2>1. h1.out = <<>> /\ (h1.wm.dragging # NoWindow) = g
    BY <1>1, <1>7 DEF Silent
  <2>2. keys_wanted(b) = KeysHeld
    BY DEF keys_wanted
  <2> HIDE DEF g
  <2>3. Leaves("intercepts", <<>>, KeysHeld, KeysHeld) /\ Leaves("grab", <<>>, g, g)
    BY LeavesNone
  <2>4. Says(h1, KeysHeld, KeysHeld, g)
    BY <2>1, <2>3 DEF Says
  <2>5. Says(s, KeysHeld, KeysHeld, g)
    BY <1>11, <2>4 DEF Continues
  <2> QED
    BY <2>2, <2>5 DEF g
<1>15. b.pc \in {"boot", "run"} /\ (b.pc = "boot" => d.chan[b.conn].down = <<>>)
  OBVIOUS
<1>16. later \in Seq(Reports) /\ Talk(d, b, M) /\ Agree(d, b, M) /\ Exact(s)
  BY <1>2, <1>7, <1>11
<1> QED
  BY <1>8, <1>10, <1>12, <1>13, <1>14, <1>15, <1>16, RunKeeps, ZenonT(60)

\* Only the surfaces, the windows and whether it is started matter.
LEMMA ExactAgain ==
  ASSUME NEW s, NEW r, Exact(s), r.core.window = s.core.window,
         r.wm.surfaces = s.wm.surfaces, r.wm.pc = s.wm.pc
  PROVE  Exact(r)
BY DEF Exact, Managed, Ripe

\* Three messages, neither of them a grab.
LEMMA ThreeWishes ==
  ASSUME NEW x \in Wishes, NEW y \in Wishes, NEW z \in Wishes,
         x.type \notin {"intercepts", "grab"}, y.type \notin {"intercepts", "grab"},
         z.type \notin {"intercepts", "grab"}
  PROVE  /\ <<x, y, z>> \in Seq(Wishes)
         /\ \A a, g : /\ Leaves("intercepts", <<x, y, z>>, a, a)
                      /\ Leaves("grab", <<x, y, z>>, g, g)
<1> DEFINE q == <<x, y, z>>
<1>1. q \in Seq(Wishes) /\ DOMAIN q = 1 .. 3 /\ q[1] = x /\ q[2] = y /\ q[3] = z
  OBVIOUS
<1> HIDE DEF q
<1>2. ASSUME NEW i \in DOMAIN q PROVE q[i].type # "intercepts" /\ q[i].type # "grab"
  <2>1. i = 1 \/ i = 2 \/ i = 3
    BY <1>1
  <2> QED
    BY <1>1, <2>1
<1>3. \A a, g : Leaves("intercepts", q, a, a) /\ Leaves("grab", q, g, g)
  BY <1>2 DEF Leaves
<1> QED
  BY <1>1, <1>3 DEF q

\* The bar is built anew.
LEMMA BarKeeps ==
  ASSUME NEW k, NEW b, NEW d, Kept(k, b, d), b.pc = "run", b.next_overlay <= MaxOverlays,
         NEW a, a = [b EXCEPT !.overlay = b.next_overlay, !.next_overlay = b.next_overlay + 1],
         NEW o, o = <<set("drop", b.overlay, TRUE), set("overlay", b.next_overlay, TRUE),
                      set("update", b.next_overlay, TRUE)>>,
         NEW s, s = [core |-> k, wm |-> a, out |-> o]
  PROVE  Kept(s.core, s.wm, delivered(d, b.conn, s.out))
<1> DEFINE u == d.chan[b.conn].up
           x == b.overlay
           n == b.next_overlay
           m1 == set("drop", x, TRUE)
           m2 == set("overlay", n, TRUE)
           m3 == set("update", n, TRUE)
<1>1. /\ manager(k, b) \in Managers /\ Exact(manager(k, b)) /\ k.effects = <<>>
      /\ manager(k, b).core = k /\ manager(k, b).wm = b /\ d \in Displays
      /\ b.conn \in DOMAIN d.chan /\ Marked("run", d.chan[b.conn]) /\ u \in Seq(Reports)
  BY RunningTalk
<1>2. k \in Cores(Surface) /\ b \in Backends /\ Held(manager(k, b))
  BY <1>1, ManagerParts
<1>3. x \in Nat /\ n \in Nat \ {0} /\ n + 1 \in Nat \ {0}
  BY <1>2 DEF Backends
<1>4. x \in Ids /\ n \in Ids /\ n \in Overlay
  BY <1>3, DisplayAssumption DEF Ids, Overlay
<1>5. a \in Backends /\ a.pc = "run" /\ a.conn = b.conn /\ a.surfaces = b.surfaces
      /\ a.dragging = b.dragging
  <2> DEFINE y == n + 1
  <2>1. a = [b EXCEPT !.overlay = n, !.next_overlay = y] /\ y \in Nat \ {0} /\ n \in Nat
    BY <1>3
  <2> HIDE DEF n, y
  <2> QED
    BY <1>2, <2>1 DEF Backends
<1>6. o = <<m1, m2, m3>>
  OBVIOUS
<1> HIDE DEF x, n
<1>7. m1 \in Wishes
  BY <1>4, WishIs
<1>8. m2 \in Wishes /\ m3 \in Wishes
  BY <1>4, WishIs
<1>9. m1.type = "drop" /\ m2.type = "overlay" /\ m3.type = "update"
  BY DEF set
<1> HIDE DEF m1, m2, m3
<1>10. /\ o \in Seq(Wishes)
       /\ \A v, g : Leaves("intercepts", o, v, v) /\ Leaves("grab", o, g, g)
  <2>1. /\ m1.type \notin {"intercepts", "grab"} /\ m2.type \notin {"intercepts", "grab"}
        /\ m3.type \notin {"intercepts", "grab"}
    BY <1>9
  <2>2. /\ <<m1, m2, m3>> \in Seq(Wishes)
        /\ \A v, g : /\ Leaves("intercepts", <<m1, m2, m3>>, v, v)
                     /\ Leaves("grab", <<m1, m2, m3>>, g, g)
    BY <1>7, <1>8, <2>1, ThreeWishes
  <2> QED
    BY <1>6, <2>2, Zenon
<1>12. s.core = k /\ s.wm = a /\ s.out = o
  OBVIOUS
<1>13. s \in Managers
  <2>1. \A id \in DOMAIN a.surfaces : a.surfaces[id].managed => id \in DOMAIN k.window
    BY <1>1, <1>2, <1>5 DEF Held
  <2>2. [core |-> k, wm |-> a, out |-> o] \in Managers
    BY <1>2, <1>5, <1>10, <2>1, NewManagerState
  <2> QED
    BY <2>2
<1>14. Exact(s)
  <2> DEFINE r == manager(k, b)
  <2>1. s.core.window = r.core.window /\ s.wm.surfaces = r.wm.surfaces /\ s.wm.pc = r.wm.pc
    BY <1>1, <1>5, <1>12
  <2>2. Exact(r)
    BY <1>1
  <2> HIDE DEF r
  <2> QED
    BY <2>1, <2>2, ExactAgain
<1>15. PICK M : Talk(d, b, M) /\ Agree(d, b, M)
  BY RunningTalk
<1>16. \A i \in DOMAIN u : u[i].type # "begin"
  BY <1>1 DEF Marked
<1>17. Traced(s.wm.surfaces, u, M)
  BY <1>5, <1>12, <1>15 DEF Talk
<1>18. Says(s, keys_wanted(b), KeysHeld, b.dragging # NoWindow)
  <2> DEFINE g == b.dragging # NoWindow
  <2>1. (s.wm.dragging # NoWindow) = g /\ keys_wanted(b) = KeysHeld
    BY <1>5, <1>12 DEF keys_wanted
  <2> HIDE DEF g
  <2>2. Leaves("intercepts", o, KeysHeld, KeysHeld) /\ Leaves("grab", o, g, g)
    BY <1>10
  <2>3. Says(s, KeysHeld, KeysHeld, g)
    BY <1>12, <2>1, <2>2 DEF Says
  <2> QED
    BY <2>1, <2>3 DEF g
<1>19. delivered(d, b.conn, s.out) = exchanged(d, b.conn, u, s.out)
  BY <1>1, DeliveredIs
<1>20. b.pc \in {"boot", "run"} /\ (b.pc = "boot" => d.chan[b.conn].down = <<>>)
  OBVIOUS
<1>21. /\ s.wm.conn = b.conn /\ s.wm.pc = "run" /\ s.core.effects = <<>> /\ u \in Seq(Reports)
  BY <1>1, <1>5, <1>12
<1> HIDE DEF u
<1>22. Kept(s.core, s.wm, exchanged(d, b.conn, u, s.out))
  BY <1>13, <1>14, <1>15, <1>16, <1>17, <1>18, <1>20, <1>21, RunKeeps
<1> QED
  BY <1>19, <1>22

\* The hello, and the request for the snapshot.
LEMMA HelloKeeps ==
  ASSUME NEW k, NEW b, NEW d, Kept(k, b, d), b.pc = "hello"
  PROVE  Kept(k, [b EXCEPT !.pc = "boot"], delivered(d, b.conn, <<Hi, Ask>>))
<1> DEFINE a == [b EXCEPT !.pc = "boot"]
           o == <<Hi, Ask>>
           c == b.conn
           u == d.chan[c].up
           e == delivered(d, c, o)
<1>1. /\ manager(k, b) \in Managers /\ Exact(manager(k, b)) /\ k.effects = <<>>
      /\ manager(k, b).core = k /\ manager(k, b).wm = b /\ d \in Displays /\ Fine(d, b)
      /\ c \in DOMAIN d.chan /\ Marked("hello", d.chan[c]) /\ u \in Seq(Reports)
  BY RunningTalk
<1>2. k \in Cores(Surface) /\ b \in Backends /\ Held(manager(k, b)) /\ <<>> \in Seq(Wishes)
      /\ b.dragging = NoWindow
  BY <1>1, ManagerParts DEF Kept
<1>5. /\ a \in Backends /\ a.pc = "boot" /\ a.conn = c /\ a.surfaces = b.surfaces
      /\ a.dragging = NoWindow
  BY <1>1, <1>2 DEF Backends
<1> HIDE DEF a
<1>6. PICK M : Talk(d, b, M) /\ Agree(d, b, M)
  BY RunningTalk
<1>8. d.chan[c].down = <<>> /\ \A i \in DOMAIN u : u[i].type \notin {"begin", "end"}
  BY <1>1 DEF Marked
<1>9. o \in Seq(Orders) /\ DOMAIN o = 1 .. 2 /\ o[1] = Hi /\ o[2] = Ask /\ <<>> \o o = o
  <2>1. Hi \in Orders /\ Ask \in Orders
    BY DEF Orders, Hi, Ask
  <2> QED
    BY <2>1
<1> HIDE DEF o
<1>10. Hi.type = "hello" /\ Ask.type = "request"
  BY DEF Hi, Ask
<1>11. e = moved(d, c, u, d.chan[c].down \o o)
  <2> HIDE DEF c
  <2> QED
    BY <1>1, MovedIs
<1>12. e = moved(d, c, u, o)
  BY <1>8, <1>9, <1>11
<1> HIDE DEF u, e
<1>13. e.chan[c].up = u /\ e.chan[c].down = o
  <2>1. moved(d, c, u, o).chan[c].up = u /\ moved(d, c, u, o).chan[c].down = o
    <3> HIDE DEF c
    <3> QED
      BY <1>1, <1>9, Moved
  <2> QED
    BY <1>12, <2>1
<1>14. Marked(a.pc, e.chan[c])
  <2>1. \A i \in DOMAIN e.chan[c].up : e.chan[c].up[i].type \notin {"begin", "end"}
    BY <1>8, <1>13
  <2>2. e.chan[c].down = <<Hi, Ask>>
    BY <1>13 DEF o
  <2> QED
    BY <1>5, <2>1, <2>2 DEF Marked
<1>15. ~ Served(e, a)
  <2>1. 2 \in DOMAIN e.chan[c].down /\ e.chan[c].down[2].type = "request"
    BY <1>9, <1>10, <1>13
  <2> QED
    BY <1>5, <2>1 DEF Served
<1>16. /\ Leaves("intercepts", o, keys_wanted(b), keys_wanted(a))
       /\ Leaves("grab", o, b.dragging # NoWindow, a.dragging # NoWindow)
  <2>1. keys_wanted(b) = {} /\ keys_wanted(a) = {}
    BY <1>5 DEF keys_wanted
  <2>2. (b.dragging # NoWindow) = FALSE /\ (a.dragging # NoWindow) = FALSE
    BY <1>2, <1>5
  <2>3. \A i \in DOMAIN o : o[i].type \notin {"intercepts", "grab"}
    BY <1>9, <1>10
  <2>4. Leaves("intercepts", o, {}, {}) /\ Leaves("grab", o, FALSE, FALSE)
    BY <2>3 DEF Leaves
  <2> QED
    BY <2>1, <2>2, <2>4
<1>17. Traced(a.surfaces, u, M)
  BY <1>5, <1>6 DEF Talk, u
<1>18. Fine(e, a)
  <2>1. e = moved(d, b.conn, u, d.chan[b.conn].down \o o)
    BY <1>11
  <2>2. Marked(a.pc, e.chan[b.conn]) /\ a.conn = b.conn
    BY <1>5, <1>14
  <2>3. u \in Seq(Reports) /\ o \in Seq(Orders)
    BY <1>1, <1>9 DEF u
  <2>4. Fine(d, b) /\ (Served(e, a) => Served(d, b))
    BY <1>1, <1>15
  <2>5. /\ Leaves("intercepts", o, keys_wanted(b), keys_wanted(a))
        /\ Leaves("grab", o, b.dragging # NoWindow, a.dragging # NoWindow)
    BY <1>16
  <2> HIDE DEF c
  <2> QED
    BY <1>6, <1>17, <2>1, <2>2, <2>3, <2>4, <2>5, ManagerSteps
<1>19. manager(k, a) \in Managers /\ Exact(manager(k, a))
  <2>1. manager(k, a).core = k /\ manager(k, a).wm = a
    BY DEF manager
  <2>2. \A id \in DOMAIN a.surfaces : a.surfaces[id].managed => id \in DOMAIN k.window
    BY <1>1, <1>2, <1>5 DEF Held
  <2>3. manager(k, a) \in Managers
    BY <1>2, <1>5, <2>2, NewManagerState DEF manager
  <2>4. Exact(manager(k, a))
    BY <1>1, <1>5, <2>1 DEF Exact, Managed, Ripe
  <2> QED
    BY <2>3, <2>4
<1>20. Kept(k, a, e)
  BY <1>1, <1>5, <1>18, <1>19 DEF Kept
<1> QED
  BY <1>20 DEF a, e, o

\* What a backend sends first: the keys one by one, and the bar.
key_grabs == [i \in DOMAIN Bindings |-> set("intercepts", None, intercepts_sent(i))]

first_wishes == key_grabs \o <<set("overlay", 1, TRUE), set("update", 1, TRUE)>>

LEMMA KeysGrabbed ==
  /\ key_grabs \in Seq(Wishes) /\ Leaves("intercepts", key_grabs, {}, KeysHeld)
  /\ Leaves("grab", key_grabs, FALSE, FALSE)
<1> DEFINE N == Len(Bindings)
           keys(i) == intercepts_sent(i)
<1>1. Bindings \in Seq({"switch", "next", "previous"}) /\ N \in Nat /\ DOMAIN Bindings = 1 .. N
  BY DisplayAssumption
<1>2. Keys = {Bindings[j] : j \in 1 .. N}
  BY <1>1 DEF Keys, Range
<1>3. \A i \in 1 .. N : keys(i) \in SUBSET Keys
  <2> SUFFICES ASSUME NEW i \in 1 .. N, NEW key \in keys(i) PROVE key \in Keys
    OBVIOUS
  <2>1. PICK j \in 1 .. i : key = Bindings[j]
    BY DEF intercepts_sent
  <2>2. j \in 1 .. N
    BY <1>1
  <2> QED
    BY <1>2, <2>1, <2>2
<1>4. key_grabs = [i \in 1 .. N |-> set("intercepts", None, keys(i))]
  BY <1>1 DEF key_grabs
<1>5. keys(N) = KeysHeld
  BY DEF KeysHeld
<1> HIDE DEF keys, N
<1>6. None \in Ids
  BY Known
<1>7. \A i \in 1 .. N : set("intercepts", None, keys(i)) \in Wishes
  BY <1>3, <1>6, WishIs
<1>8. key_grabs \in Seq(Wishes) /\ DOMAIN key_grabs = 1 .. N
  BY <1>1, <1>4, <1>7
<1>9. \A i \in 1 .. N : key_grabs[i].type = "intercepts" /\ key_grabs[i].value = keys(i)
  BY <1>4, SetIs
<1>10. Leaves("grab", key_grabs, FALSE, FALSE)
  BY <1>8, <1>9 DEF Leaves
<1>11. CASE N = 0
  <2>1. KeysHeld = {} /\ DOMAIN key_grabs = {}
    <3>1. 1 .. N = {}
      BY <1>11
    <3>2. KeysHeld = {Bindings[i] : i \in {j \in 1 .. N : j <= MaxKeyIntercepts}}
      BY DEF KeysHeld, N, intercepts_sent
    <3> QED
      BY <1>8, <3>1, <3>2
  <2>2. Leaves("intercepts", key_grabs, {}, KeysHeld)
    BY <2>1 DEF Leaves
  <2> QED
    BY <1>8, <1>10, <2>2
<1>12. CASE N # 0
  <2>1. N \in DOMAIN key_grabs /\ \A j \in DOMAIN key_grabs : ~ j > N
    BY <1>1, <1>8, <1>12
  <2>2. key_grabs[N].type = "intercepts" /\ key_grabs[N].value = KeysHeld
    BY <1>5, <1>8, <1>9, <2>1
  <2>3. Leaves("intercepts", key_grabs, {}, KeysHeld)
    BY <2>1, <2>2 DEF Leaves
  <2> QED
    BY <1>8, <1>10, <2>3
<1> QED
  BY <1>11, <1>12

LEMMA FirstWishes ==
  /\ first_wishes \in Seq(Wishes) /\ Leaves("intercepts", first_wishes, {}, KeysHeld)
  /\ Leaves("grab", first_wishes, FALSE, FALSE)
<1> DEFINE x == set("overlay", 1, TRUE)
           y == set("update", 1, TRUE)
           q == <<x, y>>
<1>1. 1 \in Ids /\ 1 \in Overlay
  BY DisplayAssumption DEF Ids, Overlay
<1>2. x \in Wishes /\ y \in Wishes
  BY <1>1, WishIs
<1>3. x.type = "overlay" /\ y.type = "update"
  BY DEF set
<1>4. first_wishes = key_grabs \o q
  BY DEF first_wishes
<1> HIDE DEF x, y
<1>5. q \in Seq(Wishes) /\ DOMAIN q = 1 .. 2 /\ q[1] = x /\ q[2] = y
  BY <1>2
<1> HIDE DEF q
<1>6. ASSUME NEW i \in DOMAIN q PROVE q[i].type # "intercepts" /\ q[i].type # "grab"
  <2>1. i = 1 \/ i = 2
    BY <1>5
  <2> QED
    BY <1>3, <1>5, <2>1
<1>7. Leaves("intercepts", q, KeysHeld, KeysHeld) /\ Leaves("grab", q, FALSE, FALSE)
  BY <1>6 DEF Leaves
<1>8. key_grabs \in Seq(Wishes)
  BY KeysGrabbed
<1>9. key_grabs \o q \in Seq(Wishes)
  BY <1>5, <1>8
<1>10. Leaves("intercepts", key_grabs \o q, {}, KeysHeld)
  BY <1>5, <1>7, <1>8, KeysGrabbed, LeavesBoth
<1>11. Leaves("grab", key_grabs \o q, FALSE, FALSE)
  BY <1>5, <1>7, <1>8, KeysGrabbed, LeavesBoth
<1> QED
  BY <1>4, <1>9, <1>10, <1>11

\* The backend after the snapshot, before it manages the surfaces.
prepared(known) ==
  [core |-> known.core,
   wm   |-> [known.wm EXCEPT !.pc = "run", !.overlay = 1, !.next_overlay = 2],
   out  |-> first_wishes]

LEMMA Prepared ==
  ASSUME NEW s \in Managers, Exact(s), s.wm.pc # "run", s.wm.dragging = NoWindow
  PROVE  LET r == prepared(s)
         IN  /\ r \in Managers /\ r.wm.pc = "run" /\ r.wm.conn = s.wm.conn
             /\ r.wm.surfaces = s.wm.surfaces /\ Managed(r) = {} /\ DOMAIN r.core.window = {}
             /\ Says(r, {}, KeysHeld, FALSE)
<1> DEFINE a == [s.wm EXCEPT !.pc = "run", !.overlay = 1, !.next_overlay = 2]
           k == s.core
           r == [core |-> k, wm |-> a, out |-> first_wishes]
<1>1. k \in Cores(Surface) /\ s.wm \in Backends
  BY ManagerParts
<1>2. /\ a \in Backends /\ a.pc = "run" /\ a.conn = s.wm.conn /\ a.surfaces = s.wm.surfaces
      /\ a.dragging = NoWindow
  <2> DEFINE b == s.wm
             x == 1
             y == 2
  <2>1. b \in Backends /\ x \in Nat /\ y \in Nat \ {0} /\ b.dragging = NoWindow
        /\ a = [b EXCEPT !.pc = "run", !.overlay = x, !.next_overlay = y]
    BY <1>1
  <2> HIDE DEF b, x, y
  <2>2. /\ a \in Backends /\ a.pc = "run" /\ a.conn = b.conn /\ a.surfaces = b.surfaces
        /\ a.dragging = b.dragging
    BY <2>1 DEF Backends
  <2> QED
    BY <2>1, <2>2 DEF b
<1>3. Managed(s) = {} /\ DOMAIN k.window = {}
  BY DEF Exact
<1>4. \A id \in DOMAIN a.surfaces : ~ a.surfaces[id].managed
  BY <1>2, <1>3 DEF Managed
<1>5. prepared(s) = r
  BY DEF prepared
<1> HIDE DEF a, k
<1>6. first_wishes \in Seq(Wishes)
  BY FirstWishes
<1>7. r \in Managers
  BY <1>1, <1>2, <1>4, <1>6, NewManagerState
<1>8. r.core = k /\ r.wm = a /\ r.out = first_wishes
  OBVIOUS
<1> HIDE DEF r
<1>9. Managed(r) = {}
  BY <1>4, <1>8 DEF Managed
<1>10. Says(r, {}, KeysHeld, FALSE)
  <2>1. (r.wm.dragging # NoWindow) = FALSE
    BY <1>2, <1>8
  <2> QED
    BY <1>8, <2>1, FirstWishes DEF Says
<1> QED
  BY <1>2, <1>3, <1>5, <1>7, <1>8, <1>9, <1>10

\* Where a snapshot ends is a position of what the server reported.
LEMMA EndAt ==
  ASSUME NEW up \in Seq(Reports), NEW n \in snapshot_end(up)
  PROVE  /\ n \in DOMAIN up /\ up[n].type = "end" /\ n \in 1 .. Len(up) /\ Len(up) \in Nat
         /\ n \in Nat /\ n \in 0 .. Len(up)
<1>1. n \in DOMAIN up /\ up[n].type = "end"
  BY DEF snapshot_end
<1>2. n \in 1 .. Len(up) /\ Len(up) \in Nat
  BY <1>1
<1> QED
  BY <1>1, <1>2

\* What follows the end of the snapshot holds no beginning of one.
LEMMA NoneBegins ==
  ASSUME NEW up, NEW later \in Seq(Reports), NEW n \in Nat,
         \A j \in DOMAIN later : j + n \in DOMAIN up /\ later[j] = up[j + n],
         \A i \in DOMAIN up : up[i].type = "begin" => i < n
  PROVE  \A j \in DOMAIN later : later[j].type # "begin"
<1>1. ASSUME NEW j \in DOMAIN later PROVE later[j].type # "begin"
  <2>1. j + n \in DOMAIN up /\ later[j] = up[j + n]
    OBVIOUS
  <2>2. j \in Nat /\ 1 <= j
    OBVIOUS
  <2>3. ~ (j + n < n)
    BY <2>2
  <2> QED
    BY <2>1, <2>3
<1> QED
  BY <1>1

\* The reports up to the end of the snapshot are read, the later ones wait.
LEMMA SnapshotRead ==
  ASSUME NEW k, NEW b, NEW d, Kept(k, b, d), b.pc = "boot",
         NEW up, up = d.chan[b.conn].up, NEW n \in snapshot_end(up)
  PROVE  \E M : /\ Talk(d, b, M) /\ Agree(d, b, M)
                /\ ReadOn(manager(k, b), Heard(manager(k, b), SubSeq(up, 1, n)), up, n,
                          SubSeq(up, n + 1, Len(up)), M)
<1> DEFINE h0 == manager(k, b)
           now == SubSeq(up, 1, n)
           later == SubSeq(up, n + 1, Len(up))
<1>1. b.pc \in {"hello", "boot", "run"}
  OBVIOUS
<1>2. h0 \in Managers /\ Exact(h0) /\ h0.wm = b /\ up \in Seq(Reports)
  BY <1>1, RunningTalk
<1>3. PICK M : Talk(d, b, M) /\ Agree(d, b, M)
  BY <1>1, RunningTalk
<1>4. Traced(h0.wm.surfaces, up, M)
  BY <1>2, <1>3 DEF Talk
<1>5. n \in 0 .. Len(up)
  BY <1>2, EndAt
<1>6. h0.wm.pc = "run" => \A i \in DOMAIN up : up[i].type # "begin"
  BY <1>2
<1>7. now = SubSeq(up, 1, n) /\ later = SubSeq(up, n + 1, Len(up))
  OBVIOUS
<1> HIDE DEF h0, now, later
<1>8. ReadOn(h0, Heard(h0, now), up, n, later, M)
  BY <1>2, <1>4, <1>5, <1>6, <1>7, ReadsSome
<1> QED
  BY <1>3, <1>8, Zenon DEF h0, now, later

\* The snapshot is read, the surfaces are managed in some order.
LEMMA StartKeeps ==
  ASSUME NEW k, NEW b, NEW d, Kept(k, b, d), b.pc = "boot",
         NEW up, up = d.chan[b.conn].up, NEW n \in snapshot_end(up),
         NEW M, Talk(d, b, M), Agree(d, b, M),
         NEW known, NEW later, ReadOn(manager(k, b), known, up, n, later, M),
         NEW order \in SetToSeqs(DOMAIN known.wm.surfaces),
         NEW s, s = render_frame(Taken_up(prepared(known), order))
  PROVE  /\ Kept(s.core, s.wm, exchanged(d, b.conn, later, s.out))
         /\ DOMAIN known.wm.surfaces \subseteq Surface
<1> DEFINE h0 == manager(k, b)
           p == prepared(known)
           r == Taken_up(p, order)
<1>1. h0.wm = b /\ h0.out = <<>> /\ Marked("boot", d.chan[b.conn]) /\ up \in Seq(Reports)
  <2>1. b.pc \in {"hello", "boot", "run"}
    OBVIOUS
  <2>2. /\ manager(k, b).wm = b /\ manager(k, b).out = <<>>
        /\ Marked(b.pc, d.chan[b.conn]) /\ d.chan[b.conn].up \in Seq(Reports)
    BY <2>1, RunningTalk
  <2> QED
    BY <2>2
<1>2. n \in DOMAIN up /\ up[n].type = "end" /\ n \in Nat
  BY <1>1, EndAt
<1>3. d.chan[b.conn].down = <<>> /\ \A i \in DOMAIN up : up[i].type = "begin" => i < n
  BY <1>1, <1>2 DEF Marked
<1>4. s = render_frame(r)
  BY DEF r, p
<1>5. b.dragging = NoWindow
  BY DEF Kept
<1> HIDE DEF h0
<1>6. /\ known \in Managers /\ Silent(h0, known) /\ Exact(known) /\ later \in Seq(Reports)
      /\ \A T : Mirror(T) = Mirror(known.wm.surfaces) => Traced(T, later, M)
      /\ \A j \in DOMAIN later : j + n \in DOMAIN up /\ later[j] = up[j + n]
  BY DEF ReadOn, h0
<1>7. \A j \in DOMAIN later : later[j].type # "begin"
  BY <1>2, <1>3, <1>6, NoneBegins
<1>8. known.wm.pc = "boot" /\ known.wm.conn = b.conn /\ known.wm.dragging = NoWindow
  BY <1>1, <1>5, <1>6 DEF Silent
<1>9. DOMAIN known.wm.surfaces \in SUBSET Surface
  BY <1>6, ManagerParts
<1>10. order \in Seq(DOMAIN known.wm.surfaces) /\ Range(order) = DOMAIN known.wm.surfaces
  BY <1>9, SurfacesFinite, SetAsList
<1>11. /\ p \in Managers /\ p.wm.pc = "run" /\ p.wm.conn = b.conn
       /\ p.wm.surfaces = known.wm.surfaces /\ Managed(p) = {} /\ DOMAIN p.core.window = {}
       /\ Says(p, {}, KeysHeld, FALSE)
  BY <1>6, <1>8, Prepared
<1> HIDE DEF p
<1>12. /\ r \in Managers /\ Silent(p, r) /\ Mirror(r.wm.surfaces) = Mirror(p.wm.surfaces)
       /\ DOMAIN r.core.window = Ripe(p) /\ Managed(r) = Ripe(p)
  <2>1. order \in Seq(DOMAIN p.wm.surfaces) /\ Range(order) = DOMAIN p.wm.surfaces
    BY <1>10, <1>11
  <2> QED
    BY <1>11, <2>1, AllManaged
<1> HIDE DEF r
<1>13. Exact(r)
  <2>1. Ripe(r) = Ripe(p)
    BY <1>12, RipeIs
  <2>2. r.wm.pc = "run"
    BY <1>11, <1>12 DEF Silent
  <2> QED
    BY <1>12, <2>1, <2>2 DEF Exact
<1>14. Says(r, {}, KeysHeld, FALSE)
  BY <1>11, <1>12 DEF Says, Silent
<1>15. s \in Managers /\ Continues(r, s) /\ s.core.effects = <<>>
  BY <1>4, <1>12, FrameRendered
<1>16. Exact(s) /\ Says(s, {}, KeysHeld, FALSE)
  BY <1>13, <1>14, <1>15, ContinuesExact DEF Continues
<1>17. s.wm.pc = "run" /\ s.wm.conn = b.conn /\ s.wm.surfaces = r.wm.surfaces
  BY <1>11, <1>12, <1>15 DEF Continues, Silent
<1>18. Traced(s.wm.surfaces, later, M)
  BY <1>6, <1>11, <1>12, <1>17
<1>19. Says(s, keys_wanted(b), KeysHeld, b.dragging # NoWindow)
  <2>1. keys_wanted(b) = {} /\ (b.dragging # NoWindow) = FALSE
    BY <1>5 DEF keys_wanted
  <2> QED
    BY <1>16, <2>1
<1>20. b.pc \in {"boot", "run"} /\ (b.pc = "boot" => d.chan[b.conn].down = <<>>)
  BY <1>3
<1>21. later \in Seq(Reports) /\ Talk(d, b, M) /\ Agree(d, b, M) /\ Exact(s)
  BY <1>6, <1>16
<1>22. Kept(s.core, s.wm, exchanged(d, b.conn, later, s.out))
  BY <1>7, <1>15, <1>17, <1>18, <1>19, <1>20, <1>21, RunKeeps
<1> QED
  BY <1>9, <1>22
-----------------------------------------------------------------------------
(* The steps of the specification.                                         *)

\* The inductive invariant.
DisplayInv == Kept(core, wm, ds) /\ left \subseteq Surface

LEMMA ServerFirst == display_state \in Displays /\ Sizes(display_state)
<1> DEFINE S == no_surfaces
           O == [o \in {} |-> FALSE]
           d == [surfaces |-> S, next_id |-> 1, seat |-> None, intercepts |-> {},
                 grabbed |-> FALSE, overlays |-> O, client |-> None, chan |-> <<>>]
<1>1. display_state = d
  BY DEF display_state
<1>2. S \in UNION {[D -> SurfaceStates] : D \in SUBSET Surface} /\ DOMAIN S = {}
  <2>1. S \in [{} -> SurfaceStates]
    BY DEF no_surfaces
  <2> QED
    BY <2>1
<1>3. O \in UNION {[D -> BOOLEAN] : D \in SUBSET Ids}
  <2>1. O \in [{} -> BOOLEAN]
    OBVIOUS
  <2> QED
    BY <2>1
<1>4. None \in Ids /\ <<>> \in Seq(Channels) /\ DOMAIN <<>> = {} /\ 1 \in Nat \ {0}
  BY DEF Ids
<1> HIDE DEF S, O
<1>5. d \in DisplayFields
  BY <1>2, <1>3, <1>4 DEF DisplayFields
<1>6. Linked(d)
  BY <1>2, <1>4 DEF Linked
<1>7. Sizes(d)
  BY <1>2 DEF Sizes
<1> QED
  BY <1>1, <1>5, <1>6, <1>7 DEF Displays

LEMMA InitKept == Init => DisplayInv
<1> SUFFICES ASSUME Init PROVE DisplayInv
  OBVIOUS
<1>1. PICK mons \in MonitorLists, c \in Configs : core = fresh_core(mons, c)
  BY DEF Init
<1>2. wm = backend /\ ds = display_state /\ left = {}
  BY DEF Init
<1>3. mons \in Seq(Outputs)
  BY TopologyAssumption
<1> DEFINE k == fresh_core(mons, c)
<1>4. k \in Cores(Surface) /\ k.effects = <<>> /\ DOMAIN k.window = {}
  BY <1>3, FreshCore
<1> HIDE DEF k
<1>5. Kept(k, backend, display_state)
  BY <1>4, ServerFirst, FreshManager
<1> QED
  BY <1>1, <1>2, <1>5 DEF DisplayInv, k

LEMMA TickStep ==
  ASSUME DisplayInv, NEW n \in 1 .. IF wm.conn = None THEN 0 ELSE Len(ds.chan[wm.conn].up), Tick(n)
  PROVE  DisplayInv'
<1> DEFINE up == ds.chan[wm.conn].up
           now == SubSeq(up, 1, n)
           later == SubSeq(up, n + 1, Len(up))
           s == render_frame(Drained(Heard(manager(core, wm), now), now))
<1>1. wm.pc = "run" /\ left' = left
  BY DEF Tick, started
<1>2. /\ core' = s.core /\ wm' = s.wm
      /\ ds' = [ds EXCEPT !.chan[wm.conn].up = later, !.chan[wm.conn].down = @ \o s.out]
  BY Zenon DEF Tick, Drained, Heard, manager, here
<1> HIDE DEF s
<1>3. ds' = exchanged(ds, wm.conn, later, s.out)
  BY <1>2, Zenon DEF exchanged
<1>4. Kept(core, wm, ds)
  BY DEF DisplayInv
<1>5. wm.conn # None /\ n \in 1 .. Len(up)
  <2>1. wm.conn \in DOMAIN ds.chan /\ ds \in Displays
    BY <1>1, <1>4, RunningTalk
  <2>2. wm.conn # None
    BY <2>1, DisplayParts
  <2> QED
    BY <2>2
<1> DEFINE u == up
<1>6. u = ds.chan[wm.conn].up /\ n \in 1 .. Len(u)
      /\ now = SubSeq(u, 1, n) /\ later = SubSeq(u, n + 1, Len(u))
  BY <1>5
<1>7. s = render_frame(Drained(Heard(manager(core, wm), now), now))
  BY DEF s
<1> HIDE DEF u, now, later, up
<1>8. Kept(s.core, s.wm, exchanged(ds, wm.conn, later, s.out))
  BY <1>1, <1>4, <1>6, <1>7, TickKeeps
<1>9. Kept(core', wm', ds')
  BY <1>2, <1>3, <1>8
<1> QED
  BY <1>1, <1>9 DEF DisplayInv

LEMMA StartStep ==
  ASSUME DisplayInv, Start
  PROVE  DisplayInv'
<1> DEFINE up == ds.chan[wm.conn].up
           n == CHOOSE i \in snapshot_end(up) : \A j \in snapshot_end(up) : i <= j
           now == SubSeq(up, 1, n)
           later == SubSeq(up, n + 1, Len(up))
           known == Heard(manager(core, wm), now)
           at_end(order) == render_frame(Taken_up(prepared(known), order))
<1>1. wm.pc = "boot" /\ snapshot_end(up) # {}
  BY DEF Start
<1>2. \E order \in SetToSeqs(DOMAIN known.wm.surfaces) :
        /\ core' = at_end(order).core /\ wm' = at_end(order).wm
        /\ ds' = [ds EXCEPT !.chan[wm.conn].up = later,
                            !.chan[wm.conn].down = @ \o at_end(order).out]
  BY Zenon DEF Start, Heard, Taken_up, manager, here, prepared, first_wishes, key_grabs
<1>3. left' \subseteq DOMAIN known.wm.surfaces
  <2>1. left' = {id \in DOMAIN known.wm.surfaces : has_surface(ds, id) /\ ds.surfaces[id].visible}
    BY Zenon DEF Start, Heard, manager, here
  <2> HIDE DEF known
  <2> QED
    BY <2>1
<1>4. PICK order \in SetToSeqs(DOMAIN known.wm.surfaces) :
        /\ core' = at_end(order).core /\ wm' = at_end(order).wm
        /\ ds' = [ds EXCEPT !.chan[wm.conn].up = later,
                            !.chan[wm.conn].down = @ \o at_end(order).out]
  BY <1>2
<1> DEFINE s == at_end(order)
<1>5. s = render_frame(Taken_up(prepared(known), order))
  OBVIOUS
<1>6. core' = s.core /\ wm' = s.wm /\ ds' = exchanged(ds, wm.conn, later, s.out)
  BY <1>4, Zenon DEF exchanged
<1>7. Kept(core, wm, ds)
  BY DEF DisplayInv
<1>8. n \in snapshot_end(up) /\ \A j \in snapshot_end(up) : n <= j
  <2>1. up \in Seq(Reports)
    BY <1>1, <1>7, RunningTalk
  <2>2. snapshot_end(up) \in SUBSET Nat
    <3> HIDE DEF up
    <3>1. DOMAIN up \subseteq Nat
      BY <2>1
    <3> QED
      BY <3>1 DEF snapshot_end
  <2> DEFINE E == snapshot_end(up)
  <2>3. E \in SUBSET Nat /\ E # {}
    BY <1>1, <2>2
  <2> HIDE DEF E
  <2>4. \E i \in E : \A j \in E : i <= j
    BY <2>3, LeastExists
  <2> QED
    BY <2>4 DEF E
<1> DEFINE m == n
<1>9. m \in snapshot_end(up) /\ (\A j \in snapshot_end(up) : m <= j)
      /\ now = SubSeq(up, 1, m) /\ later = SubSeq(up, m + 1, Len(up))
  BY <1>8
<1>10. known = Heard(manager(core, wm), now)
  OBVIOUS
<1>11. order \in SetToSeqs(DOMAIN known.wm.surfaces)
  BY <1>4
<1>12. up = ds.chan[wm.conn].up
  OBVIOUS
<1> HIDE DEF m, n, now, later, known, s, at_end, up
<1>13. PICK M : /\ Talk(ds, wm, M) /\ Agree(ds, wm, M)
                /\ ReadOn(manager(core, wm), known, up, m, later, M)
  <2>1. \E M : /\ Talk(ds, wm, M) /\ Agree(ds, wm, M)
               /\ ReadOn(manager(core, wm), Heard(manager(core, wm), SubSeq(up, 1, m)), up, m,
                         SubSeq(up, m + 1, Len(up)), M)
    BY <1>1, <1>7, <1>9, <1>12, SnapshotRead
  <2> QED
    BY <1>9, <1>10, <2>1
<1>14. /\ Kept(s.core, s.wm, exchanged(ds, wm.conn, later, s.out))
       /\ DOMAIN known.wm.surfaces \subseteq Surface
  BY <1>1, <1>5, <1>7, <1>9, <1>11, <1>12, <1>13, StartKeeps
<1>15. Kept(core', wm', ds')
  BY <1>6, <1>14
<1> QED
  BY <1>3, <1>14, <1>15 DEF DisplayInv

LEMMA ManagerStep ==
  ASSUME DisplayInv, Connect \/ Hello \/ RebuildBar
  PROVE  DisplayInv'
<1>1. Kept(core, wm, ds) /\ left' = left
  BY DEF DisplayInv, Connect, Hello, RebuildBar
<1>2. CASE Connect
  <2>1. wm.pc = "down" /\ core' = core
    BY <1>2 DEF Connect
  <2>2. /\ wm' = [wm EXCEPT !.pc = "hello", !.conn = Len(ds.chan) + 1]
        /\ ds' = [ds EXCEPT !.chan = Append(@, [up |-> <<>>, down |-> <<>>,
                                                wm |-> "open", ds |-> "backlog"])]
    BY <1>2, Zenon DEF Connect
  <2>3. Kept(core, [wm EXCEPT !.pc = "hello", !.conn = Len(ds.chan) + 1],
             [ds EXCEPT !.chan = Append(@, [up |-> <<>>, down |-> <<>>,
                                            wm |-> "open", ds |-> "backlog"])])
    BY <1>1, <2>1, ConnectKeeps
  <2>4. Kept(core', wm', ds')
    BY <2>1, <2>2, <2>3, Zenon
  <2> QED
    BY <1>1, <2>4 DEF DisplayInv
<1>3. CASE Hello
  <2> DEFINE a == [wm EXCEPT !.pc = "boot"]
             o == <<Hi, Ask>>
  <2>1. wm.pc = "hello" /\ core' = core /\ wm' = a
    BY <1>3 DEF Hello, Sends
  <2>2. [core |-> core, wm |-> a, out |-> o].out = o
    OBVIOUS
  <2>3. ds' = [ds EXCEPT !.chan[wm.conn].down = @ \o o]
    <3>1. ds' = [ds EXCEPT !.chan[wm.conn].down = @ \o [core |-> core, wm |-> a, out |-> o].out]
      BY <1>3, Zenon DEF Hello, Sends, Hi, Ask
    <3> HIDE DEF a, o
    <3> QED
      BY <2>2, <3>1, Zenon
  <2>4. Kept(core, a, delivered(ds, wm.conn, o))
    BY <1>1, <2>1, HelloKeeps
  <2>5. Kept(core', wm', ds')
    BY <2>1, <2>3, <2>4, Zenon DEF delivered
  <2> QED
    BY <1>1, <2>5 DEF DisplayInv
<1>4. CASE RebuildBar
  <2> DEFINE a == [wm EXCEPT !.overlay = wm.next_overlay, !.next_overlay = wm.next_overlay + 1]
             o == <<set("drop", wm.overlay, TRUE), set("overlay", wm.next_overlay, TRUE),
                    set("update", wm.next_overlay, TRUE)>>
             s == [core |-> core, wm |-> a, out |-> o]
  <2>1. wm.pc = "run" /\ wm.next_overlay <= MaxOverlays
    BY <1>4 DEF RebuildBar, started
  <2>2. core' = s.core /\ wm' = s.wm /\ ds' = [ds EXCEPT !.chan[wm.conn].down = @ \o s.out]
    BY <1>4, Zenon DEF RebuildBar, Sends
  <2>3. /\ a = [wm EXCEPT !.overlay = wm.next_overlay, !.next_overlay = wm.next_overlay + 1]
        /\ o = <<set("drop", wm.overlay, TRUE), set("overlay", wm.next_overlay, TRUE),
                 set("update", wm.next_overlay, TRUE)>>
        /\ s = [core |-> core, wm |-> a, out |-> o]
    OBVIOUS
  <2> HIDE DEF a, o, s
  <2>4. Kept(s.core, s.wm, delivered(ds, wm.conn, s.out))
    BY <1>1, <2>1, <2>3, BarKeeps
  <2>5. Kept(core', wm', ds')
    BY <2>2, <2>4, Zenon DEF delivered
  <2> QED
    BY <1>1, <2>5 DEF DisplayInv
<1> QED
  BY <1>2, <1>3, <1>4

LEMMA DownStep ==
  ASSUME DisplayInv, BootTimeout \/ Lost \/ Kill
  PROVE  DisplayInv'
<1>1. wm.pc # "down" /\ Down
  BY DEF BootTimeout, Lost, Kill
<1>2. /\ wm' = backend /\ core' = fresh_core(core.wsman.monitors, core.settings)
      /\ ds' = [ds EXCEPT !.chan[wm.conn] = close_manager_end(@)] /\ left' = left
  BY <1>1, Zenon DEF Down
<1>3. Kept(fresh_core(core.wsman.monitors, core.settings), backend,
           [ds EXCEPT !.chan[wm.conn] = close_manager_end(@)])
  BY <1>1, DownKeeps DEF DisplayInv
<1>4. Kept(core', wm', ds')
  BY <1>2, <1>3, Zenon
<1> QED
  BY <1>2, <1>4 DEF DisplayInv

\* The server becomes d; the window manager does not move.
LEMMA ServerActs ==
  ASSUME DisplayInv, core' = core, wm' = wm, left' \subseteq left, NEW d, ds' = d,
         Fine(ds, wm) => Fine(d, wm)
  PROVE  DisplayInv'
<1>1. Kept(core, wm, d)
  BY ServerKeeps DEF DisplayInv
<1>2. Kept(core', wm', ds')
  BY <1>1
<1> QED
  BY <1>2 DEF DisplayInv

LEMMA ServeStep ==
  ASSUME DisplayInv, Serve
  PROVE  DisplayInv'
<1> DEFINE e == IF ready.accept THEN accept_pending(ds) ELSE ds
           d == dispatch_pending(e, reads(e))
<1>1. core' = core /\ wm' = wm /\ ds' = d
  BY Zenon DEF Serve
<1>2. left' \subseteq left
  BY DEF Serve
<1>3. wm.pc \in {"down", "hello", "boot", "run"}
  <2>1. manager(core, wm) \in Managers /\ manager(core, wm).wm = wm
    BY DEF DisplayInv, Kept, manager
  <2>2. wm \in Backends
    BY <2>1, ManagerParts
  <2> QED
    BY <2>2 DEF Backends
<1>4. Fine(ds, wm) => Fine(d, wm)
  BY <1>3, Serves
<1> HIDE DEF d
<1> QED
  BY <1>1, <1>2, <1>4, ServerActs

LEMMA ReportStep ==
  ASSUME DisplayInv, NEW m \in Reports, m.type \in {"enter", "key", "button"},
         Acts(send_event(ds, m))
  PROVE  DisplayInv'
<1> DEFINE d == send_event(ds, m)
<1>1. core' = core /\ wm' = wm /\ ds' = d /\ left' \subseteq left
  BY DEF Acts
<1>2. Fine(ds, wm) => Fine(d, wm)
  BY NeutralReport
<1> HIDE DEF d
<1> QED
  BY <1>1, <1>2, ServerActs

LEMMA ClientStep ==
  ASSUME DisplayInv, Outside
  PROVE  DisplayInv'
<1>1. Fine(ds, wm) /\ ds \in Displays
  BY DEF DisplayInv, Kept, Fine
<1>2. DOMAIN ds.surfaces \in SUBSET Surface
  BY <1>1, DisplayParts
<1>3. CASE ClientCreates
  <2> DEFINE d == add_surface(ds, None)
  <2>1. core' = core /\ wm' = wm /\ ds' = d /\ left' \subseteq left /\ ds.next_id <= MaxSurfaces
    BY <1>3 DEF ClientCreates, Acts
  <2>2. Fine(d, wm)
    BY <1>1, <2>1, AddsSurface
  <2> HIDE DEF d
  <2> QED
    BY <2>1, <2>2, ServerActs
<1>4. ASSUME NEW id \in DOMAIN ds.surfaces, ClientMaps(id) PROVE DisplayInv'
  <2> DEFINE d == surface_committed(surface_mapped(ds, id), id, TRUE)
  <2>1. core' = core /\ wm' = wm /\ ds' = d /\ left' \subseteq left
    BY <1>4 DEF ClientMaps, Acts
  <2>2. Fine(d, wm)
    BY <1>1, MapsSurface
  <2> HIDE DEF d
  <2> QED
    BY <2>1, <2>2, ServerActs
<1>5. ASSUME NEW id \in DOMAIN ds.surfaces, ClientDestroys(id) PROVE DisplayInv'
  <2> DEFINE d == [surface_destroyed(ds, id) EXCEPT !.seat = IF @ = id THEN None ELSE @]
  <2>1. core' = core /\ wm' = wm /\ ds' = d /\ left' = left
    BY <1>5, Zenon DEF ClientDestroys, Acts
  <2>2. Fine(d, wm)
    BY <1>1, RemovesSurface
  <2> HIDE DEF d
  <2> QED
    BY <2>1, <2>2, ServerActs
<1>6. ASSUME NEW id \in DOMAIN ds.surfaces, Enter(id) PROVE DisplayInv'
  <2> DEFINE m == [type |-> "enter", id |-> id]
  <2>1. m \in Reports /\ m.type = "enter"
    BY <1>2 DEF Reports
  <2>2. Acts(send_event(ds, m))
    BY <1>6 DEF Enter
  <2> HIDE DEF m
  <2> QED
    BY <2>1, <2>2, ReportStep
<1>7. ASSUME NEW id \in DOMAIN ds.surfaces, NEW how \in {"drag", "release"}, Button(id, how)
      PROVE  DisplayInv'
  <2> DEFINE m == set("button", id, how)
  <2>1. m \in Reports /\ m.type = "button"
    BY <1>2 DEF Reports, set
  <2>2. Acts(send_event(ds, m))
    BY <1>7 DEF Button
  <2> HIDE DEF m
  <2> QED
    BY <2>1, <2>2, ReportStep
<1>8. ASSUME NEW key \in Range(Bindings), Key(key) PROVE DisplayInv'
  <2> DEFINE m == [type |-> "key", id |-> key]
  <2>1. m \in Reports /\ m.type = "key"
    BY DEF Reports, Keys
  <2>2. Acts(send_event(ds, m))
    BY <1>8 DEF Key
  <2> HIDE DEF m
  <2> QED
    BY <2>1, <2>2, ReportStep
<1>9. CASE RebuildBar
  BY <1>9, ManagerStep
<1> QED
  BY <1>3, <1>4, <1>5, <1>6, <1>7, <1>8, <1>9 DEF Outside

LEMMA NextKept == DisplayInv /\ [Next]_vars => DisplayInv'
<1> SUFFICES ASSUME DisplayInv, [Next]_vars PROVE DisplayInv'
  OBVIOUS
<1>1. CASE UNCHANGED vars
  BY <1>1 DEF vars, DisplayInv
<1>2. CASE Outside
  BY <1>2, ClientStep
<1>3. CASE Connect \/ Hello
  BY <1>3, ManagerStep
<1>4. CASE Start
  BY <1>4, StartStep
<1>5. CASE BootTimeout \/ Lost \/ Kill
  BY <1>5, DownStep
<1>6. CASE Poll
  <2>1. core' = core /\ wm' = wm /\ ds' = ds /\ left' = left
    BY <1>6 DEF Poll
  <2> QED
    BY <2>1 DEF DisplayInv
<1>7. CASE Serve
  BY <1>7, ServeStep
<1>8. ASSUME NEW n \in 1 .. IF wm.conn = None THEN 0 ELSE Len(ds.chan[wm.conn].up), Tick(n)
      PROVE  DisplayInv'
  BY <1>8, TickStep
<1> QED
  BY <1>1, <1>2, <1>3, <1>4, <1>5, <1>6, <1>7, <1>8 DEF Next, Inside
-----------------------------------------------------------------------------
(* What follows.                                                           *)

LEMMA ReportIs ==
  ASSUME NEW m \in Reports
  PROVE  is_event(m)
<1>1. CASE m \in [type : {"hello", "begin", "end"}]
  <2>1. m.type \in {"hello", "begin", "end"}
    BY <1>1
  <2> QED
    BY <2>1 DEF is_event, event_messages, session_messages
<1>2. CASE m \in [type : {"created", "mapped", "destroyed", "enter"}, id : Surface]
  <2>1. m.type \in {"created", "mapped", "destroyed", "enter"} /\ m.id \in Surface
    BY <1>2
  <2> QED
    BY <2>1 DEF is_event, event_messages
<1>3. CASE m \in [type : {"committed"}, id : Surface, sized : {TRUE}]
  <2>1. m.type = "committed" /\ m.id \in Surface
    BY <1>3
  <2> QED
    BY <2>1 DEF is_event, event_messages
<1>4. CASE m \in [type : {"key"}, id : Keys]
  <2>1. m.type = "key" /\ m.id \in Range(Bindings)
    BY <1>4 DEF Keys
  <2> QED
    BY <2>1 DEF is_event, event_messages
<1>5. CASE m \in [type : {"button"}, id : Surface, value : {"drag", "release"}]
  <2>1. m.type = "button" /\ m.id \in Surface
    BY <1>5
  <2> QED
    BY <2>1 DEF is_event, event_messages
<1>6. CASE m \in [type : {"expose"}, id : Overlay]
  <2>1. m.type = "expose" /\ m.id \in Overlay
    BY <1>6
  <2> QED
    BY <2>1 DEF is_event, event_messages
<1> QED
  BY <1>1, <1>2, <1>3, <1>4, <1>5, <1>6 DEF Reports

LEMMA OrderIs ==
  ASSUME NEW m \in Orders
  PROVE  is_command(m)
<1>1. CASE m \in [type : {"hello", "request"}]
  <2>1. m.type \in {"hello", "request"}
    BY <1>1
  <2> QED
    BY <2>1 DEF is_command, command_messages, session_messages
<1>2. CASE m \in Wishes
  <2>1. Places = Place
    BY DEF Places, Place
  <2>2. /\ m.type \in {"configure", "visible", "activated", "stacking", "grab", "border",
                       "intercepts", "overlay", "update", "drop"}
        /\ m.type = "configure" => m.value \in Place
        /\ m.type \in {"visible", "activated", "stacking", "grab"} => m.value \in BOOLEAN
        /\ m.type = "border" => m.value \in {"focused", "unfocused"}
        /\ m.type = "intercepts" => m.value \in SUBSET Range(Bindings)
    BY <1>2, <2>1, WishParts DEF Keys
  <2>3. m.type \in {"overlay", "update", "drop"} => m.value \in {TRUE}
    BY <1>2 DEF Wishes
  <2>4. CASE m.type = "configure"
    BY <2>2, <2>4 DEF is_command, command_messages
  <2>5. CASE m.type \in {"visible", "activated", "stacking", "grab"}
    BY <2>2, <2>5 DEF is_command, command_messages
  <2>6. CASE m.type \in {"border", "intercepts"}
    BY <2>2, <2>6 DEF is_command, command_messages
  <2>7. CASE m.type \in {"overlay", "update", "drop"}
    <3>1. m.value \in {TRUE}
      BY <2>3, <2>7
    <3>2. /\ m.type \in DOMAIN command_messages
          /\ command_messages[m.type] = {TRUE}
      <4>1. m.type \in DOMAIN command_messages
        BY <2>7 DEF command_messages
      <4>2. /\ command_messages["overlay"] = {TRUE} /\ command_messages["update"] = {TRUE}
            /\ command_messages["drop"] = {TRUE}
        BY Zenon DEF command_messages
      <4> QED
        BY <2>7, <4>1, <4>2, Zenon
    <3> QED
      BY <3>1, <3>2, Zenon DEF is_command
  <2> QED
    BY <2>2, <2>4, <2>5, <2>6, <2>7
<1> QED
  BY <1>1, <1>2 DEF Orders

LEMMA TypeImplied == DisplayInv => TypeOK
<1> SUFFICES ASSUME DisplayInv PROVE TypeOK
  OBVIOUS
<1>1. /\ manager(core, wm) \in Managers /\ core.effects = <<>> /\ Exact(manager(core, wm))
      /\ wm.pc = "down" => wm = backend
      /\ Fine(ds, wm) /\ ds \in Displays /\ left \subseteq Surface
  BY DEF DisplayInv, Kept, Fine
<1>2. manager(core, wm).core = core /\ manager(core, wm).wm = wm
  BY DEF manager
<1>3. wm \in Backends
  BY <1>1, <1>2, ManagerParts
<1>4. wm.pc \in {"down", "hello", "boot", "run"}
  BY <1>3 DEF Backends
<1>5. DOMAIN core.window \subseteq DOMAIN wm.surfaces
  BY <1>1, <1>2 DEF Exact, Managed
<1>6. wm.conn \in DOMAIN ds.chan \cup {None}
  <2>1. CASE wm.pc = "down"
    BY <1>1, <2>1, FreshBackend
  <2>2. CASE wm.pc # "down"
    BY <1>4, <2>2, RunningTalk DEF DisplayInv
  <2> QED
    BY <2>1, <2>2
<1>7. /\ ds.client \in DOMAIN ds.chan \cup {None} /\ ds.seat \in DOMAIN ds.surfaces \cup {None}
      /\ ds.intercepts \subseteq Range(Bindings) /\ ds.chan \in Seq(Channels)
  BY <1>1, DisplayParts DEF Linked, Keys
<1>8. ASSUME NEW c \in DOMAIN ds.chan
      PROVE  /\ \A i \in DOMAIN ds.chan[c].up : is_event(ds.chan[c].up[i])
             /\ \A i \in DOMAIN ds.chan[c].down : is_command(ds.chan[c].down[i])
  <2>1. ds.chan[c] \in Channels
    BY <1>7
  <2> DEFINE u == ds.chan[c].up
             w == ds.chan[c].down
  <2>2. u \in Seq(Reports) /\ w \in Seq(Orders)
    BY <2>1 DEF Channels
  <2> HIDE DEF u, w
  <2>3. \A i \in DOMAIN u : u[i] \in Reports
    BY <2>2
  <2>4. \A i \in DOMAIN w : w[i] \in Orders
    BY <2>2
  <2>5. \A i \in DOMAIN u : is_event(u[i])
    BY <2>3, ReportIs
  <2>6. \A i \in DOMAIN w : is_command(w[i])
    BY <2>4, OrderIs
  <2> QED
    BY <2>5, <2>6 DEF u, w
<1> QED
  BY <1>1, <1>4, <1>5, <1>6, <1>7, <1>8 DEF TypeOK

LEMMA MirrorImplied == DisplayInv => MirrorMatches
<1> SUFFICES ASSUME DisplayInv, AtRest
             PROVE  /\ DOMAIN wm.surfaces = DOMAIN ds.surfaces
                    /\ DOMAIN core.window = {id \in DOMAIN ds.surfaces : ds.surfaces[id].mapped}
                    /\ \A id \in DOMAIN core.window : wm.surfaces[id].managed
  BY DEF MirrorMatches
<1>1. /\ wm.pc = "run" /\ ds.client = wm.conn
      /\ ds.chan[wm.conn].up = <<>> /\ ds.chan[wm.conn].down = <<>>
  BY DEF AtRest, started
<1>2. Kept(core, wm, ds)
  BY DEF DisplayInv
<1>3. PICK M : Talk(ds, wm, M) /\ Agree(ds, wm, M)
  BY <1>1, <1>2, RunningTalk
<1>4. Exact(manager(core, wm)) /\ manager(core, wm).core = core /\ manager(core, wm).wm = wm
  BY <1>1, <1>2, RunningTalk
<1>5. M = Mirror(wm.surfaces)
  <2>1. Traced(wm.surfaces, <<>>, M) /\ Len(<<>>) = 0
    BY <1>1, <1>3 DEF Talk
  <2> QED
    BY <2>1 DEF Traced, Follows
<1>6. Served(ds, wm)
  <2>1. DOMAIN ds.chan[wm.conn].down = {}
    BY <1>1
  <2> QED
    BY <1>1, <2>1 DEF Served
<1>7. Agrees(M, ds.surfaces)
  BY <1>3, <1>6 DEF Agree
<1>8. /\ M.known = DOMAIN wm.surfaces
      /\ M.mapped = {id \in DOMAIN wm.surfaces : wm.surfaces[id].mapped}
      /\ M.sized = {id \in DOMAIN wm.surfaces : wm.surfaces[id].sized}
  BY <1>5 DEF Mirror
<1>9. /\ DOMAIN core.window = {id \in DOMAIN wm.surfaces : wm.surfaces[id].managed}
      /\ DOMAIN core.window
           = {id \in DOMAIN wm.surfaces : wm.surfaces[id].mapped /\ wm.surfaces[id].sized}
  BY <1>1, <1>4 DEF Exact, Managed, Ripe
<1>10. DOMAIN wm.surfaces = DOMAIN ds.surfaces
  BY <1>7, <1>8 DEF Agrees
<1>11. DOMAIN core.window = M.mapped
  BY <1>7, <1>8, <1>9 DEF Agrees
<1>12. M.mapped = {id \in DOMAIN ds.surfaces : ds.surfaces[id].mapped}
  BY <1>7 DEF Agrees
<1> QED
  BY <1>9, <1>10, <1>11, <1>12

LEMMA GrabsImplied == DisplayInv => GrabsMatch
<1> SUFFICES ASSUME DisplayInv PROVE GrabsMatch
  OBVIOUS
<1>1. Kept(core, wm, ds) /\ ds \in Displays
  BY DEF DisplayInv, Kept, Fine
<1>2. ds.client = None => ds.intercepts = {} /\ ~ ds.grabbed
  BY <1>1 DEF Displays, Linked
<1>3. ASSUME AtRest PROVE ds.intercepts = KeysHeld /\ ds.grabbed = (wm.dragging # NoWindow)
  <2>1. /\ wm.pc = "run" /\ ds.client = wm.conn
        /\ ds.chan[wm.conn].up = <<>> /\ ds.chan[wm.conn].down = <<>>
    BY <1>3 DEF AtRest, started
  <2>2. PICK M : Talk(ds, wm, M)
    BY <1>1, <2>1, RunningTalk
  <2>3. wm.conn \in DOMAIN ds.chan /\ Owed(ds, wm)
    BY <2>2 DEF Talk
  <2>4. ds.chan[wm.conn].ds # "closed"
    BY <1>1, <2>1, <2>3 DEF Displays, Linked
  <2> DEFINE g == wm.dragging # NoWindow
  <2>5. /\ Leaves("intercepts", <<>>, ds.intercepts, KeysHeld)
        /\ Leaves("grab", <<>>, ds.grabbed, g)
    <3>1. keys_of(ds, wm.conn) = ds.intercepts /\ grab_of(ds, wm.conn) = ds.grabbed
      BY <2>1 DEF keys_of, grab_of
    <3>2. (IF wm.pc = "run" THEN KeysHeld ELSE {}) = KeysHeld
      BY <2>1
    <3> QED
      BY <2>1, <2>3, <2>4, <3>1, <3>2 DEF Owed
  <2> HIDE DEF g
  <2>6. ds.intercepts = KeysHeld /\ ds.grabbed = g
    BY <2>5, LeavesNone
  <2> QED
    BY <2>6 DEF g
<1> QED
  BY <1>2, <1>3 DEF GrabsMatch, KeysHeld

\* Whenever everything that was sent has been read, the window manager's
\* surfaces are the display server's and Core has a window for each mapped one
\* and no other, through any kill and reconnection (dispatch_control_message,
\* send_snapshot, bootstrap_snapshot); and only messages of the protocol are on
\* the channel, each in its direction, in every state.
THEOREM AlwaysMirrored == Spec => []MirrorSound
BY InitKept, NextKept, TypeImplied, MirrorImplied, PTL DEF Spec, MirrorSound

\* The keys and the pointer are never held for a window manager that is gone
\* (disconnect_client), and are the attached one's whenever it has been heard:
\* of the keys it bound, the first that fit (set_keyboard_intercepts).
THEOREM AlwaysGrabbed == Spec => []GrabsMatch
BY InitKept, NextKept, GrabsImplied, PTL DEF Spec
=============================================================================
