-------------------------- MODULE X11BackendProofs ---------------------------
(***************************************************************************)
(* For any windows, outputs and configurations, and whatever clients, user *)
(* and server do in which order: the lists, the index, the cursors and the *)
(* server's books stay sound, and no window that is gone stays managed     *)
(* once nothing is pending.                                                *)
(*                                                                         *)
(* The handlers are operators on a record [core, x, queue].  The lemmas    *)
(* show that each stays in the set Desktops and only adds map and unmap    *)
(* events to the queue; the actions follow.                                *)
(***************************************************************************)
EXTENDS X11Backend, CoreDispatchProofs

Servers ==
  [alive : SUBSET Windows, mapped : SUBSET Windows, selected : SUBSET Windows,
   fs_state : SUBSET Windows, input : Windows \cup {NoWindow}, stack : Seq(Windows)]

Events == [type : {"request", "map", "unmap", "destroy"}, window : Windows]

\* The server keeps no books about windows that are gone.
Books(v) == v.mapped \cup v.selected \cup v.fs_state \subseteq v.alive

\* Every window is in the stack, once.
Stacked(q) == Range(q) = Windows /\ \A i, j \in DOMAIN q : q[i] = q[j] => i = j

SoundServers == {v \in Servers : Books(v) /\ Stacked(v.stack)}

Desktops == [core : Cores(Windows), x : SoundServers, queue : Seq(Events)]

\* p is q, followed by map and unmap events only.
Extended(q, p) ==
  /\ Len(q) <= Len(p)
  /\ \A i \in 1 .. Len(q) : p[i] = q[i]
  /\ \A i \in 1 .. Len(p) : i > Len(q) => p[i].type \in {"map", "unmap"}

\* What a handler that manages no other window leaves.
Follows(s, r) ==
  Alike(s.core, r.core) /\ r.x.alive = s.x.alive /\ Extended(s.queue, r.queue)
-----------------------------------------------------------------------------
(* The X server.                                                           *)

LEMMA DesktopParts ==
  ASSUME NEW s \in Desktops
  PROVE  /\ s.core \in Cores(Windows) /\ s.x \in SoundServers /\ s.x \in Servers
         /\ Books(s.x) /\ Stacked(s.x.stack) /\ s.queue \in Seq(Events)
         /\ Len(s.queue) \in Nat /\ DOMAIN s.queue = 1 .. Len(s.queue)
         /\ s.x.mapped \in SUBSET s.x.alive /\ s.x.alive \in SUBSET Windows
         /\ DOMAIN s.core.window \in SUBSET Windows
<1>1. s.core \in Cores(Windows) /\ s.x \in SoundServers /\ s.queue \in Seq(Events)
  BY DEF Desktops
<1>2. s.x \in Servers /\ Books(s.x) /\ Stacked(s.x.stack)
  BY <1>1 DEF SoundServers
<1>3. s.x.mapped \in SUBSET s.x.alive /\ s.x.alive \in SUBSET Windows
  BY <1>2 DEF Servers, Books
<1> QED
  BY <1>1, <1>2, <1>3, CoreParts

LEMMA ExtendedSelf ==
  ASSUME NEW q \in Seq(Events)
  PROVE  Extended(q, q)
BY DEF Extended

LEMMA ExtendedTwice ==
  ASSUME NEW p \in Seq(Events), NEW q \in Seq(Events), NEW r \in Seq(Events),
         Extended(p, q), Extended(q, r)
  PROVE  Extended(p, r)
<1>1. Len(p) \in Nat /\ Len(q) \in Nat /\ Len(r) \in Nat
  OBVIOUS
<1>2. Len(p) <= Len(r)
  BY <1>1 DEF Extended
<1>3. ASSUME NEW i \in 1 .. Len(p) PROVE r[i] = p[i]
  <2>1. i \in 1 .. Len(q)
    BY <1>1 DEF Extended
  <2> QED
    BY <2>1 DEF Extended
<1>4. ASSUME NEW i \in 1 .. Len(r), i > Len(p) PROVE r[i].type \in {"map", "unmap"}
  <2>1. CASE i > Len(q)
    BY <2>1 DEF Extended
  <2>2. CASE ~ i > Len(q)
    <3>1. i \in 1 .. Len(q)
      BY <1>1, <2>2
    <3> QED
      BY <1>4, <3>1 DEF Extended
  <2> QED
    BY <2>1, <2>2
<1> QED
  BY <1>2, <1>3, <1>4 DEF Extended

LEMMA FollowsSelf ==
  ASSUME NEW s \in Desktops
  PROVE  Follows(s, s)
BY DesktopParts, ExtendedSelf DEF Follows, Alike

LEMMA FollowsTwice ==
  ASSUME NEW s \in Desktops, NEW r \in Desktops, NEW t \in Desktops,
         Follows(s, r), Follows(r, t)
  PROVE  Follows(s, t)
<1>1. Extended(s.queue, t.queue)
  BY DesktopParts, ExtendedTwice DEF Follows
<1> QED
  BY <1>1 DEF Follows, Alike

\* Core is replaced.
LEMMA NewCore ==
  ASSUME NEW s \in Desktops, NEW k \in Cores(Windows)
  PROVE  LET r == [s EXCEPT !.core = k]
         IN  /\ r \in Desktops /\ r.core = k /\ r.x = s.x /\ r.queue = s.queue
             /\ Alike(s.core, k) => Follows(s, r)
<1> DEFINE r == [s EXCEPT !.core = k]
<1>1. r \in Desktops /\ r.core = k /\ r.x = s.x /\ r.queue = s.queue
  BY DEF Desktops
<1>2. Extended(s.queue, s.queue)
  BY DesktopParts, ExtendedSelf
<1> HIDE DEF r
<1>3. Alike(s.core, k) => Follows(s, r)
  BY <1>1, <1>2 DEF Follows
<1> QED
  BY <1>1, <1>3 DEF r

\* The server is replaced, and reports follow in the queue.
LEMMA NewServer ==
  ASSUME NEW s \in Desktops, NEW v \in SoundServers, v.alive = s.x.alive
  PROVE  LET r == [s EXCEPT !.x = v]
         IN  /\ r \in Desktops /\ Follows(s, r)
             /\ r.core = s.core /\ r.x = v /\ r.queue = s.queue
<1> DEFINE r == [s EXCEPT !.x = v]
<1>1. r \in Desktops /\ r.core = s.core /\ r.x = v /\ r.queue = s.queue
  BY DEF Desktops
<1>2. Extended(s.queue, s.queue)
  BY DesktopParts, ExtendedSelf
<1> HIDE DEF r
<1>3. Follows(s, r)
  BY <1>1, <1>2 DEF Follows, Alike
<1> QED
  BY <1>1, <1>3 DEF r

LEMMA NewReports ==
  ASSUME NEW s \in Desktops, NEW w \in Windows, NEW type \in {"map", "unmap"},
         NEW n \in Nat
  PROVE  LET r == [s EXCEPT !.queue = @ \o [i \in 1 .. n |-> [type |-> type, window |-> w]]]
         IN  /\ r \in Desktops /\ Follows(s, r) /\ r.core = s.core /\ r.x = s.x
<1> DEFINE e == [i \in 1 .. n |-> [type |-> type, window |-> w]]
           p == s.queue \o e
           r == [s EXCEPT !.queue = @ \o e]
<1>1. s.queue \in Seq(Events) /\ Len(s.queue) \in Nat
  BY DesktopParts
<1>2. e \in Seq(Events) /\ Len(e) = n /\ \A i \in 1 .. n : e[i].type = type
  <2>1. [type |-> type, window |-> w] \in Events
    BY DEF Events
  <2> QED
    BY <2>1
<1> HIDE DEF e
<1>3. p \in Seq(Events) /\ Len(p) = Len(s.queue) + n
      /\ \A i \in 1 .. Len(s.queue) + n :
           p[i] = IF i <= Len(s.queue) THEN s.queue[i] ELSE e[i - Len(s.queue)]
  BY <1>1, <1>2, ConcatProperties
<1>4. Extended(s.queue, p)
  <2>1. Len(s.queue) <= Len(p)
    BY <1>1, <1>3
  <2>2. \A i \in 1 .. Len(s.queue) : p[i] = s.queue[i]
    BY <1>1, <1>3
  <2>3. ASSUME NEW i \in 1 .. Len(p), i > Len(s.queue) PROVE p[i].type \in {"map", "unmap"}
    <3>1. i \in 1 .. Len(s.queue) + n /\ ~ i <= Len(s.queue) /\ i - Len(s.queue) \in 1 .. n
      BY <1>1, <1>3, <2>3
    <3>2. p[i] = e[i - Len(s.queue)]
      BY <1>3, <3>1
    <3> QED
      BY <1>2, <3>1, <3>2
  <2> QED
    BY <2>1, <2>2, <2>3 DEF Extended
<1>5. r = [s EXCEPT !.queue = p]
  OBVIOUS
<1> HIDE DEF p
<1>6. r \in Desktops /\ r.core = s.core /\ r.x = s.x /\ r.queue = p
  BY <1>3, <1>5 DEF Desktops
<1> HIDE DEF r
<1>7. Follows(s, r)
  BY <1>4, <1>6 DEF Follows, Alike
<1> QED
  BY <1>6, <1>7 DEF r, e

LEMMA MapsWindow ==
  ASSUME NEW s \in Desktops, NEW w
  PROVE  LET r == x_map(s, w) IN r \in Desktops /\ Follows(s, r) /\ r.core = s.core
<1>1. CASE w \notin s.x.alive \/ w \in s.x.mapped
  BY <1>1, FollowsSelf DEF x_map
<1>2. CASE w \in s.x.alive /\ w \notin s.x.mapped
  <2> DEFINE v == [s.x EXCEPT !.mapped = @ \cup {w}]
             h == [s EXCEPT !.x = v]
             n == IF w \in s.x.selected THEN 2 ELSE 1
             r == [h EXCEPT !.queue = @ \o [i \in 1 .. n |-> [type |-> "map", window |-> w]]]
  <2>1. /\ s.x \in Servers /\ Books(s.x) /\ Stacked(s.x.stack) /\ w \in Windows /\ n \in Nat
        /\ s.x.alive \in SUBSET Windows /\ s.x.mapped \in SUBSET s.x.alive
    BY <1>2, DesktopParts
  <2>2. /\ v \in Servers /\ v.alive = s.x.alive /\ v.stack = s.x.stack
        /\ v.mapped = s.x.mapped \cup {w} /\ v.selected = s.x.selected
        /\ v.fs_state = s.x.fs_state
    BY <2>1 DEF Servers
  <2>3. x_map(s, w) = r
    BY <1>2 DEF x_map, copies, Desktops
  <2> HIDE DEF v, n
  <2>4. v \in SoundServers
    BY <1>2, <2>1, <2>2 DEF SoundServers, Books
  <2>5. h \in Desktops /\ Follows(s, h) /\ h.core = s.core
    BY <2>2, <2>4, NewServer
  <2> HIDE DEF h
  <2>6. r \in Desktops /\ Follows(h, r) /\ r.core = h.core
    BY <2>1, <2>5, NewReports
  <2> HIDE DEF r
  <2> QED
    BY <2>3, <2>5, <2>6, FollowsTwice
<1> QED
  BY <1>1, <1>2

LEMMA UnmapsWindow ==
  ASSUME NEW s \in Desktops, NEW w
  PROVE  LET r == x_unmap(s, w)
         IN  /\ r \in Desktops /\ Follows(s, r) /\ r.core = s.core
             /\ r.x.mapped = s.x.mapped \ {w}
<1>1. CASE w \notin s.x.mapped
  BY <1>1, FollowsSelf DEF x_unmap
<1>2. CASE w \in s.x.mapped
  <2> DEFINE i0 == IF s.x.input = w THEN NoWindow ELSE s.x.input
             v == [s.x EXCEPT !.mapped = @ \ {w}, !.input = i0]
             h == [s EXCEPT !.x = v]
             n == IF w \in s.x.selected THEN 2 ELSE 1
             r == [h EXCEPT !.queue = @ \o [i \in 1 .. n |-> [type |-> "unmap", window |-> w]]]
  <2>1. /\ s.x \in Servers /\ Books(s.x) /\ Stacked(s.x.stack) /\ w \in Windows /\ n \in Nat
        /\ s.x.alive \in SUBSET Windows /\ s.x.mapped \in SUBSET s.x.alive
        /\ s.x.input \in Windows \cup {NoWindow}
    BY <1>2, DesktopParts DEF Servers
  <2>2. /\ v \in Servers /\ v.alive = s.x.alive /\ v.stack = s.x.stack
        /\ v.mapped = s.x.mapped \ {w} /\ v.selected = s.x.selected
        /\ v.fs_state = s.x.fs_state
    BY <2>1 DEF Servers
  <2>3. x_unmap(s, w) = r
    BY <1>2, <2>1 DEF x_unmap, copies, Desktops, Servers
  <2> HIDE DEF v, n
  <2>4. v \in SoundServers
    BY <1>2, <2>1, <2>2 DEF SoundServers, Books
  <2>5. h \in Desktops /\ Follows(s, h) /\ h.core = s.core /\ h.x = v
    BY <2>2, <2>4, NewServer
  <2> HIDE DEF h
  <2>6. r \in Desktops /\ Follows(h, r) /\ r.core = h.core /\ r.x = h.x
    BY <2>1, <2>5, NewReports
  <2> HIDE DEF r
  <2> QED
    BY <2>2, <2>3, <2>5, <2>6, FollowsTwice
<1> QED
  BY <1>1, <1>2

\* Requests that change the server's books and cause no event.
LEMMA SelectsInput ==
  ASSUME NEW s \in Desktops, NEW w
  PROVE  LET r == x_select(s, w) IN r \in Desktops /\ Follows(s, r) /\ r.core = s.core
<1> DEFINE v == [s.x EXCEPT !.selected = @ \cup ({w} \cap s.x.alive)]
<1>1. /\ s.x \in Servers /\ Books(s.x) /\ Stacked(s.x.stack)
      /\ s.x.alive \in SUBSET Windows
  BY DesktopParts
<1>2. /\ v \in Servers /\ v.alive = s.x.alive /\ v.stack = s.x.stack
      /\ v.mapped = s.x.mapped /\ v.selected = s.x.selected \cup ({w} \cap s.x.alive)
      /\ v.fs_state = s.x.fs_state
  BY <1>1 DEF Servers
<1>3. x_select(s, w) = [s EXCEPT !.x = v]
  BY DEF x_select
<1> HIDE DEF v
<1>4. v \in SoundServers
  BY <1>1, <1>2 DEF SoundServers, Books
<1> QED
  BY <1>2, <1>3, <1>4, NewServer

LEMMA FocusesInput ==
  ASSUME NEW s \in Desktops, NEW u \in Windows \cup {NoWindow}
  PROVE  LET r == [s EXCEPT !.x.input = u]
         IN  r \in Desktops /\ Follows(s, r) /\ r.core = s.core
<1> DEFINE v == [s.x EXCEPT !.input = u]
<1>1. s.x \in Servers /\ Books(s.x) /\ Stacked(s.x.stack)
  BY DesktopParts
<1>2. /\ v \in Servers /\ v.alive = s.x.alive /\ v.stack = s.x.stack
      /\ v.mapped = s.x.mapped /\ v.selected = s.x.selected /\ v.fs_state = s.x.fs_state
  BY <1>1 DEF Servers
<1>3. [s EXCEPT !.x.input = u] = [s EXCEPT !.x = v]
  OBVIOUS
<1> HIDE DEF v
<1>4. v \in SoundServers
  BY <1>1, <1>2 DEF SoundServers, Books
<1> QED
  BY <1>2, <1>3, <1>4, NewServer

LEMMA SetsFullscreen ==
  ASSUME NEW s \in Desktops, NEW w, NEW enabled \in BOOLEAN
  PROVE  LET r == x_fullscreen(s, w, enabled)
         IN  r \in Desktops /\ Follows(s, r) /\ r.core = s.core
<1> DEFINE f == IF enabled THEN s.x.fs_state \cup ({w} \cap s.x.alive) ELSE s.x.fs_state \ {w}
           v == [s.x EXCEPT !.fs_state = f]
<1>1. /\ s.x \in Servers /\ Books(s.x) /\ Stacked(s.x.stack)
      /\ s.x.alive \in SUBSET Windows
  BY DesktopParts
<1>2. f \in SUBSET s.x.alive /\ f \in SUBSET Windows
  BY <1>1 DEF Servers, Books
<1>3. x_fullscreen(s, w, enabled) = [s EXCEPT !.x = v]
  BY DEF x_fullscreen
<1> HIDE DEF f
<1>4. /\ v \in Servers /\ v.alive = s.x.alive /\ v.stack = s.x.stack
      /\ v.mapped = s.x.mapped /\ v.selected = s.x.selected /\ v.fs_state = f
  BY <1>1, <1>2 DEF Servers
<1> HIDE DEF v
<1>5. v \in SoundServers
  BY <1>1, <1>2, <1>4 DEF SoundServers, Books
<1> QED
  BY <1>3, <1>4, <1>5, NewServer

\* A window goes to an end of the stack.
LEMMA Restacked ==
  ASSUME NEW q \in Seq(Windows), Stacked(q), NEW w \in Windows
  PROVE  LET rest == Keep(q, Range(q) \ {w})
         IN  /\ Append(rest, w) \in Seq(Windows) /\ Stacked(Append(rest, w))
             /\ <<w>> \o rest \in Seq(Windows) /\ Stacked(<<w>> \o rest)
<1> DEFINE S == Range(q) \ {w}
           rest == Keep(q, S)
           n == Len(rest)
           a == Append(rest, w)
           b == <<w>> \o rest
<1>0. S = Windows \ {w} /\ Range(q) \cap S = Windows \ {w}
  BY DEF Stacked
<1> HIDE DEF S
<1>1. /\ rest \in Seq(Windows \cap S) /\ Range(rest) = Windows \ {w}
      /\ \A i, j \in DOMAIN rest : rest[i] = rest[j] => i = j
  BY <1>0, KeepLists, ZenonT(60)
<1> HIDE DEF rest
<1>2. rest \in Seq(Windows) /\ n \in Nat /\ DOMAIN rest = 1 .. n
  BY <1>1
<1>3. \A i \in 1 .. n : rest[i] # w
  BY <1>1, <1>2 DEF Range
<1>4. /\ a \in Seq(Windows) /\ DOMAIN a = 1 .. n + 1 /\ a[n + 1] = w
      /\ \A i \in 1 .. n : a[i] = rest[i]
  BY <1>2
<1>5. /\ b \in Seq(Windows) /\ DOMAIN b = 1 .. n + 1 /\ b[1] = w
      /\ \A i \in 2 .. n + 1 : b[i] = rest[i - 1]
  BY <1>2
<1> HIDE DEF a, b
<1>6. Range(a) = Windows
  <2>1. ASSUME NEW u \in Windows PROVE \E i \in DOMAIN a : a[i] = u
    <3>1. CASE u = w
      BY <1>2, <1>4, <3>1
    <3>2. CASE u # w
      <4>1. PICK i \in 1 .. n : rest[i] = u
        BY <1>1, <1>2, <3>2 DEF Range
      <4> QED
        BY <1>2, <1>4, <4>1
    <3> QED
      BY <3>1, <3>2
  <2>2. \A i \in DOMAIN a : a[i] \in Windows
    BY <1>4
  <2> QED
    BY <2>1, <2>2 DEF Range
<1>7. \A i, j \in DOMAIN a : a[i] = a[j] => i = j
  <2>1. \A i \in DOMAIN a : i = n + 1 \/ i \in 1 .. n
    BY <1>2, <1>4
  <2> QED
    BY <1>1, <1>2, <1>3, <1>4, <2>1
<1>8. Range(b) = Windows
  <2>1. ASSUME NEW u \in Windows PROVE \E i \in DOMAIN b : b[i] = u
    <3>1. CASE u = w
      BY <1>2, <1>5, <3>1, SMTT(60)
    <3>2. CASE u # w
      <4>1. PICK i \in 1 .. n : rest[i] = u
        BY <1>1, <1>2, <3>2 DEF Range
      <4> DEFINE l == i + 1
      <4>2. l \in 2 .. n + 1 /\ l \in DOMAIN b /\ l - 1 = i
        BY <1>2, <1>5
      <4> HIDE DEF l
      <4>3. b[l] = u
        BY <1>5, <4>1, <4>2
      <4> QED
        BY <4>2, <4>3
    <3> QED
      BY <3>1, <3>2
  <2>2. \A i \in DOMAIN b : b[i] \in Windows
    BY <1>5
  <2> QED
    BY <2>1, <2>2 DEF Range
<1>9. ASSUME NEW i \in DOMAIN b, NEW j \in DOMAIN b, b[i] = b[j] PROVE i = j
  <2>1. /\ i = 1 \/ (i \in 2 .. n + 1 /\ i - 1 \in 1 .. n)
        /\ j = 1 \/ (j \in 2 .. n + 1 /\ j - 1 \in 1 .. n)
    BY <1>2, <1>5
  <2>2. CASE i = 1 \/ j = 1
    BY <1>3, <1>5, <1>9, <2>1, <2>2
  <2>3. CASE i # 1 /\ j # 1
    <3>1. rest[i - 1] = rest[j - 1]
      BY <1>5, <1>9, <2>1, <2>3
    <3>2. i - 1 = j - 1
      BY <1>1, <1>2, <2>1, <2>3, <3>1
    <3> QED
      BY <1>2, <1>5, <3>2
  <2> QED
    BY <2>2, <2>3
<1> QED
  BY <1>4, <1>5, <1>6, <1>7, <1>8, <1>9 DEF Stacked, a, b, rest, S

LEMMA NewStack ==
  ASSUME NEW s \in Desktops, NEW q \in Seq(Windows), Stacked(q)
  PROVE  LET r == [s EXCEPT !.x.stack = q]
         IN  r \in Desktops /\ Follows(s, r) /\ r.core = s.core
<1> DEFINE v == [s.x EXCEPT !.stack = q]
<1>1. s.x \in Servers /\ Books(s.x)
  BY DesktopParts
<1>2. /\ v \in Servers /\ v.alive = s.x.alive /\ v.stack = q
      /\ v.mapped = s.x.mapped /\ v.selected = s.x.selected /\ v.fs_state = s.x.fs_state
  BY <1>1 DEF Servers
<1>3. [s EXCEPT !.x.stack = q] = [s EXCEPT !.x = v]
  OBVIOUS
<1> HIDE DEF v
<1>4. v \in SoundServers
  BY <1>1, <1>2 DEF SoundServers, Books
<1> QED
  BY <1>2, <1>3, <1>4, NewServer
-----------------------------------------------------------------------------
(* EWMH.                                                                   *)

LEMMA AppliesFullscreen ==
  ASSUME NEW s \in Desktops, NEW w, NEW enabled \in BOOLEAN
  PROVE  LET r == ewmh_apply_fullscreen(s, w, enabled) IN r \in Desktops /\ Follows(s, r)
<1> DEFINE k == SetWindowFullscreen(s.core, w, enabled)
           h == [s EXCEPT !.core = k]
           r == x_fullscreen(h, w, enabled)
<1>1. s.core \in Cores(Windows)
  BY DesktopParts
<1>2. k \in Cores(Windows) /\ Alike(s.core, k)
  BY <1>1, FullscreenKeeps
<1>3. ewmh_apply_fullscreen(s, w, enabled) = r
  BY DEF ewmh_apply_fullscreen
<1> HIDE DEF k
<1>4. h \in Desktops /\ Follows(s, h)
  BY <1>2, NewCore
<1> HIDE DEF h
<1>5. r \in Desktops /\ Follows(h, r)
  BY <1>4, SetsFullscreen
<1> HIDE DEF r
<1> QED
  BY <1>3, <1>4, <1>5, FollowsTwice

LEMMA WindowMapped ==
  ASSUME NEW s \in Desktops, NEW w
  PROVE  LET r == ewmh_on_window_mapped(s, w) IN r \in Desktops /\ Follows(s, r)
BY AppliesFullscreen, FollowsSelf DEF ewmh_on_window_mapped

LEMMA HandlesFullscreen ==
  ASSUME NEW s \in Desktops, NEW w, NEW enabled \in BOOLEAN
  PROVE  LET r == handle_fullscreen_message(s, w, enabled) IN r \in Desktops /\ Follows(s, r)
BY AppliesFullscreen, SetsFullscreen, FollowsSelf DEF handle_fullscreen_message

\* The desktops the window manager comes to from s by itself.
After(s) == {r \in Desktops : Follows(s, r)}

LEMMA FullscreenFold ==
  ASSUME NEW s \in Desktops, NEW T, NEW list \in Seq(T)
  PROVE  FoldLeft(LAMBDA acc, w : ewmh_apply_fullscreen(acc, w, TRUE), s, list) \in After(s)
<1> DEFINE Q  == After(s)
           N  == Len(list)
           F  == [p \in Q \X (1 .. N) |-> ewmh_apply_fullscreen(p[1], list[p[2]], TRUE)]
           it == CHOOSE it : it = [S \in SUBSET DOMAIN list |->
                   IF S = {} THEN s
                   ELSE ewmh_apply_fullscreen(it[S \ {Max(S)}], list[Max(S)], TRUE)]
<1>1. FoldLeft(LAMBDA acc, w : ewmh_apply_fullscreen(acc, w, TRUE), s, list) = it[DOMAIN list]
  BY DEF FoldLeft, MapThenFoldSet
<1>2. N \in Nat /\ DOMAIN list = 1 .. N
  OBVIOUS
<1>3. s \in Q
  BY FollowsSelf DEF After
<1>4. ASSUME NEW q \in Q, NEW w PROVE ewmh_apply_fullscreen(q, w, TRUE) \in Q
  <2>1. q \in Desktops /\ Follows(s, q)
    BY DEF After
  <2>2. /\ ewmh_apply_fullscreen(q, w, TRUE) \in Desktops
        /\ Follows(q, ewmh_apply_fullscreen(q, w, TRUE))
    BY <2>1, AppliesFullscreen
  <2> QED
    BY <2>1, <2>2, FollowsTwice DEF After
<1> HIDE DEF Q
<1>5. IsStep(F, Q, N)
  BY <1>2, <1>4 DEF IsStep
<1>6. it = [S \in SUBSET DOMAIN list |->
              IF S = {} THEN s
              ELSE ewmh_apply_fullscreen(it[S \ {Max(S)}], list[Max(S)], TRUE)]
  <2>1. PICK g : IsFold(g, s, F, Q, N)
    <3> HIDE DEF F
    <3> QED
      BY <1>2, <1>3, <1>5, FoldExists
  <2>2. /\ g \in [SUBSET (1 .. N) -> Q]
        /\ \A S \in SUBSET (1 .. N) :
             g[S] = IF S = {} THEN s ELSE F[<<g[S \ {Max(S)}], Max(S)>>]
    BY <2>1 DEF IsFold
  <2>3. \A S \in SUBSET (1 .. N) : S # {} => Max(S) \in 1 .. N
    BY <1>2, MaxIn
  <2>4. g = [S \in SUBSET DOMAIN list |->
               IF S = {} THEN s
               ELSE ewmh_apply_fullscreen(g[S \ {Max(S)}], list[Max(S)], TRUE)]
    BY <1>2, <2>2, <2>3
  <2> QED
    BY <2>4
<1> HIDE DEF it
<1>7. it[{}] \in Q
  BY <1>3, <1>6
<1>8. ASSUME NEW i \in 1 .. N, it[1 .. (i - 1)] \in Q PROVE it[1 .. i] \in Q
  <2>1. Max(1 .. i) = i /\ (1 .. i) \ {i} = 1 .. (i - 1) /\ 1 .. i # {}
    BY <1>2, Prefix
  <2>2. 1 .. i \in SUBSET DOMAIN list
    BY <1>2
  <2>3. it[1 .. i] = ewmh_apply_fullscreen(it[1 .. (i - 1)], list[i], TRUE)
    BY <1>6, <2>1, <2>2
  <2> QED
    BY <1>2, <1>4, <1>8, <2>3
<1>9. it[1 .. N] \in Q
  BY <1>2, <1>7, <1>8, FoldStays
<1> QED
  BY <1>1, <1>2, <1>9 DEF Q

LEMMA SwitchedFullscreen ==
  ASSUME NEW s \in Desktops, NEW ws \in DOMAIN s.core.workspaces
  PROVE  LET r == ewmh_on_workspace_switched(s, ws) IN r \in Desktops /\ Follows(s, r)
<1> DEFINE S == {w \in DOMAIN s.core.window \cap s.x.fs_state :
                   ~ s.core.window[w].hidden_by_workspace /\ ~ covers(s.core, w)}
           waiting == Keep(s.core.workspaces[ws].windows, S)
           r == FoldLeft(LAMBDA acc, w : ewmh_apply_fullscreen(acc, w, TRUE), s, waiting)
<1>1. ewmh_on_workspace_switched(s, ws) = r
  BY DEF ewmh_on_workspace_switched
<1>2. s.core.workspaces[ws].windows \in Seq(Windows)
  <2>1. s.core.workspaces[ws] \in WorkspaceStates(Windows)
    BY DesktopParts, Current
  <2> QED
    BY <2>1 DEF WorkspaceStates
<1> HIDE DEF S
<1>3. waiting \in Seq(Windows \cap S)
  BY <1>2, KeepLists
<1> HIDE DEF waiting
<1>4. r \in After(s)
  BY <1>3, FullscreenFold
<1> HIDE DEF r
<1> QED
  BY <1>1, <1>4 DEF After

LEMMA SwitchedFold ==
  ASSUME NEW s \in Desktops, NEW list \in Seq(DOMAIN s.core.workspaces)
  PROVE  FoldLeft(ewmh_on_workspace_switched, s, list) \in After(s)
<1> DEFINE Q  == After(s)
           N  == Len(list)
           F  == [p \in Q \X (1 .. N) |-> ewmh_on_workspace_switched(p[1], list[p[2]])]
           it == CHOOSE it : it = [S \in SUBSET DOMAIN list |->
                   IF S = {} THEN s
                   ELSE ewmh_on_workspace_switched(it[S \ {Max(S)}], list[Max(S)])]
<1>1. FoldLeft(ewmh_on_workspace_switched, s, list) = it[DOMAIN list]
  BY DEF FoldLeft, MapThenFoldSet
<1>2. N \in Nat /\ DOMAIN list = 1 .. N
  OBVIOUS
<1>3. s \in Q
  BY FollowsSelf DEF After
<1>4. ASSUME NEW q \in Q, NEW i \in 1 .. N PROVE ewmh_on_workspace_switched(q, list[i]) \in Q
  <2>1. q \in Desktops /\ Follows(s, q)
    BY DEF After
  <2>2. DOMAIN q.core.workspaces = DOMAIN s.core.workspaces
    <3>1. s.core \in Cores(Windows) /\ q.core \in Cores(Windows)
      BY <2>1, DesktopParts
    <3>2. Alike(s.core, q.core)
      BY <2>1 DEF Follows
    <3> QED
      BY <3>1, <3>2, AlikeParts
  <2>3. list[i] \in DOMAIN q.core.workspaces
    BY <1>2, <2>2
  <2>4. /\ ewmh_on_workspace_switched(q, list[i]) \in Desktops
        /\ Follows(q, ewmh_on_workspace_switched(q, list[i]))
    BY <2>1, <2>3, SwitchedFullscreen
  <2> QED
    BY <2>1, <2>4, FollowsTwice DEF After
<1> HIDE DEF Q
<1>5. IsStep(F, Q, N)
  BY <1>2, <1>4 DEF IsStep
<1>6. it = [S \in SUBSET DOMAIN list |->
              IF S = {} THEN s
              ELSE ewmh_on_workspace_switched(it[S \ {Max(S)}], list[Max(S)])]
  <2>1. PICK g : IsFold(g, s, F, Q, N)
    <3> HIDE DEF F
    <3> QED
      BY <1>2, <1>3, <1>5, FoldExists
  <2>2. /\ g \in [SUBSET (1 .. N) -> Q]
        /\ \A S \in SUBSET (1 .. N) :
             g[S] = IF S = {} THEN s ELSE F[<<g[S \ {Max(S)}], Max(S)>>]
    BY <2>1 DEF IsFold
  <2>3. \A S \in SUBSET (1 .. N) : S # {} => Max(S) \in 1 .. N
    BY <1>2, MaxIn
  <2>4. g = [S \in SUBSET DOMAIN list |->
               IF S = {} THEN s
               ELSE ewmh_on_workspace_switched(g[S \ {Max(S)}], list[Max(S)])]
    BY <1>2, <2>2, <2>3
  <2> QED
    BY <2>4
<1> HIDE DEF it
<1>7. it[{}] \in Q
  BY <1>3, <1>6
<1>8. ASSUME NEW i \in 1 .. N, it[1 .. (i - 1)] \in Q PROVE it[1 .. i] \in Q
  <2>1. Max(1 .. i) = i /\ (1 .. i) \ {i} = 1 .. (i - 1) /\ 1 .. i # {}
    BY <1>2, Prefix
  <2>2. 1 .. i \in SUBSET DOMAIN list
    BY <1>2
  <2>3. it[1 .. i] = ewmh_on_workspace_switched(it[1 .. (i - 1)], list[i])
    BY <1>6, <2>1, <2>2
  <2> QED
    BY <1>2, <1>4, <1>8, <2>3
<1>9. it[1 .. N] \in Q
  BY <1>2, <1>7, <1>8, FoldStays
<1> QED
  BY <1>1, <1>2, <1>9 DEF Q
-----------------------------------------------------------------------------
(* The effects of a frame.                                                 *)

LEMMA NotesUnmap ==
  ASSUME NEW k \in Cores(Windows), NEW w \in DOMAIN k.window
  PROVE  LET j == note_wm_unmap(k, w) IN j \in Cores(Windows) /\ Alike(k, j)
<1> DEFINE v == [k.window[w] EXCEPT !.pending_wm_unmaps = @ + 2]
<1>1. k.window[w] \in WindowStates
  BY WindowParts
<1>2. v \in WindowStates
  BY <1>1 DEF WindowStates
<1>3. note_wm_unmap(k, w) = [k EXCEPT !.window[w] = v]
  BY DEF note_wm_unmap
<1> HIDE DEF v
<1> QED
  BY <1>2, <1>3, NewWindowState

LEMMA ConsumesUnmap ==
  ASSUME NEW k \in Cores(Windows), NEW w \in DOMAIN k.window,
         k.window[w].pending_wm_unmaps > 0
  PROVE  LET j == consume_wm_unmap(k, w) IN j \in Cores(Windows) /\ Alike(k, j)
<1> DEFINE v == [k.window[w] EXCEPT !.pending_wm_unmaps = @ - 1]
<1>1. k.window[w] \in WindowStates /\ k.window[w].pending_wm_unmaps - 1 \in Nat
  <2>1. k.window[w] \in WindowStates
    BY WindowParts
  <2>2. k.window[w].pending_wm_unmaps \in Nat
    BY <2>1 DEF WindowStates
  <2> QED
    BY <2>1, <2>2
<1>2. v \in WindowStates
  BY <1>1 DEF WindowStates
<1>3. consume_wm_unmap(k, w) = [k EXCEPT !.window[w] = v]
  BY DEF consume_wm_unmap
<1> HIDE DEF v
<1> QED
  BY <1>2, <1>3, NewWindowState

LEMMA AppliesEffect ==
  ASSUME NEW s \in Desktops, NEW e \in Effects(Windows)
  PROVE  LET r == apply_effect(s, e) IN r \in Desktops /\ Follows(s, r)
<1> DEFINE w == e.window
           r == apply_effect(s, e)
<1>1. /\ e.kind \in {"map", "unmap", "focus", "root", "raise", "lower"}
      /\ w \in Windows \cup {NoWindow}
  BY DEF Effects
<1>2. s.core \in Cores(Windows) /\ s.x \in Servers /\ Stacked(s.x.stack)
  BY DesktopParts
<1>3. CASE ~ find_window_in_all(s.core, w) /\ e.kind # "root"
  <2>1. r = s
    BY <1>1, <1>3 DEF apply_effect
  <2> QED
    BY <2>1, FollowsSelf
<1>4. CASE e.kind = "root"
  <2>1. r = [s EXCEPT !.x.input = NoWindow]
    BY <1>4 DEF apply_effect
  <2> QED
    BY <2>1, FocusesInput
<1>5. CASE find_window_in_all(s.core, w) /\ e.kind # "root"
  <2>1. w \in DOMAIN s.core.window
    BY <1>5 DEF find_window_in_all
  <2>2. w \in Windows
    BY <2>1, DesktopParts
  <2>3. CASE e.kind = "map"
    <3> DEFINE c == pin_fullscreen_to_monitor(s.core, w, s.core.window_workspace[w])
               p == IF s.core.window[w].borderless THEN [s EXCEPT !.core = c] ELSE s
               g == x_select(p, w)
               h == x_map(g, w)
               l == ewmh_on_window_mapped(h, w)
    <3>1. r = l
      BY <1>5, <2>3 DEF apply_effect
    <3>2. c \in Cores(Windows) /\ Alike(s.core, c)
      BY <1>2, <2>1, Pins
    <3> HIDE DEF c, w
    <3>3. p \in Desktops /\ Follows(s, p)
      BY <3>2, NewCore, FollowsSelf
    <3> HIDE DEF p
    <3>4. g \in Desktops /\ Follows(p, g)
      BY <3>3, SelectsInput
    <3> HIDE DEF g
    <3>5. h \in Desktops /\ Follows(g, h)
      BY <3>4, MapsWindow
    <3> HIDE DEF h
    <3>6. l \in Desktops /\ Follows(h, l)
      BY <3>5, WindowMapped
    <3> HIDE DEF l, r
    <3>7. Follows(s, g)
      BY <3>3, <3>4, FollowsTwice
    <3>8. Follows(s, h)
      BY <3>4, <3>5, <3>7, FollowsTwice
    <3> QED
      BY <3>1, <3>5, <3>6, <3>8, FollowsTwice DEF r
  <2>4. CASE e.kind = "unmap"
    <3> DEFINE c == note_wm_unmap(s.core, w)
               g == [s EXCEPT !.core = c]
               h == x_unmap(g, w)
    <3>1. r = h
      BY <1>5, <2>4 DEF apply_effect
    <3>2. c \in Cores(Windows) /\ Alike(s.core, c)
      BY <1>2, <2>1, NotesUnmap
    <3> HIDE DEF c, w
    <3>3. g \in Desktops /\ Follows(s, g)
      BY <3>2, NewCore
    <3> HIDE DEF g
    <3>4. h \in Desktops /\ Follows(g, h)
      BY <3>3, UnmapsWindow
    <3> HIDE DEF h, r
    <3> QED
      BY <3>1, <3>3, <3>4, FollowsTwice DEF r
  <2>5. CASE e.kind = "focus"
    <3> DEFINE u == IF w \in s.x.mapped THEN w ELSE s.x.input
    <3>1. r = [s EXCEPT !.x.input = u]
      BY <1>5, <2>5 DEF apply_effect, x_focus
    <3>2. u \in Windows \cup {NoWindow}
      BY <1>2, <2>2 DEF Servers
    <3> HIDE DEF u
    <3> QED
      BY <3>1, <3>2, FocusesInput
  <2>6. CASE e.kind \in {"raise", "lower"}
    <3> DEFINE rest == Keep(s.x.stack, Range(s.x.stack) \ {w})
               a == Append(rest, w)
               b == <<w>> \o rest
    <3>1. s.x.stack \in Seq(Windows)
      BY <1>2 DEF Servers
    <3>2. a \in Seq(Windows) /\ Stacked(a) /\ b \in Seq(Windows) /\ Stacked(b)
      BY <1>2, <2>2, <3>1, Restacked
    <3>3. r = [s EXCEPT !.x.stack = a] \/ r = [s EXCEPT !.x.stack = b]
      BY <1>5, <2>6 DEF apply_effect
    <3> HIDE DEF a, b
    <3> QED
      BY <3>2, <3>3, NewStack
  <2> QED
    BY <1>1, <1>5, <2>3, <2>4, <2>5, <2>6
<1> QED
  BY <1>3, <1>4, <1>5

LEMMA EffectsFold ==
  ASSUME NEW s \in Desktops, NEW list \in Seq(Effects(Windows))
  PROVE  FoldLeft(apply_effect, s, list) \in After(s)
<1> DEFINE Q  == After(s)
           N  == Len(list)
           F  == [p \in Q \X (1 .. N) |-> apply_effect(p[1], list[p[2]])]
           it == CHOOSE it : it = [S \in SUBSET DOMAIN list |->
                   IF S = {} THEN s
                   ELSE apply_effect(it[S \ {Max(S)}], list[Max(S)])]
<1>1. FoldLeft(apply_effect, s, list) = it[DOMAIN list]
  BY DEF FoldLeft, MapThenFoldSet
<1>2. N \in Nat /\ DOMAIN list = 1 .. N
  OBVIOUS
<1>3. s \in Q
  BY FollowsSelf DEF After
<1>4. ASSUME NEW q \in Q, NEW i \in 1 .. N PROVE apply_effect(q, list[i]) \in Q
  <2>1. q \in Desktops /\ Follows(s, q)
    BY DEF After
  <2>2. list[i] \in Effects(Windows)
    BY <1>2
  <2>3. apply_effect(q, list[i]) \in Desktops /\ Follows(q, apply_effect(q, list[i]))
    BY <2>1, <2>2, AppliesEffect
  <2> QED
    BY <2>1, <2>3, FollowsTwice DEF After
<1> HIDE DEF Q
<1>5. IsStep(F, Q, N)
  BY <1>2, <1>4 DEF IsStep
<1>6. it = [S \in SUBSET DOMAIN list |->
              IF S = {} THEN s
              ELSE apply_effect(it[S \ {Max(S)}], list[Max(S)])]
  <2>1. PICK g : IsFold(g, s, F, Q, N)
    <3> HIDE DEF F
    <3> QED
      BY <1>2, <1>3, <1>5, FoldExists
  <2>2. /\ g \in [SUBSET (1 .. N) -> Q]
        /\ \A S \in SUBSET (1 .. N) :
             g[S] = IF S = {} THEN s ELSE F[<<g[S \ {Max(S)}], Max(S)>>]
    BY <2>1 DEF IsFold
  <2>3. \A S \in SUBSET (1 .. N) : S # {} => Max(S) \in 1 .. N
    BY <1>2, MaxIn
  <2>4. g = [S \in SUBSET DOMAIN list |->
               IF S = {} THEN s
               ELSE apply_effect(g[S \ {Max(S)}], list[Max(S)])]
    BY <1>2, <2>2, <2>3
  <2> QED
    BY <2>4
<1> HIDE DEF it
<1>7. it[{}] \in Q
  BY <1>3, <1>6
<1>8. ASSUME NEW i \in 1 .. N, it[1 .. (i - 1)] \in Q PROVE it[1 .. i] \in Q
  <2>1. Max(1 .. i) = i /\ (1 .. i) \ {i} = 1 .. (i - 1) /\ 1 .. i # {}
    BY <1>2, Prefix
  <2>2. 1 .. i \in SUBSET DOMAIN list
    BY <1>2
  <2>3. it[1 .. i] = apply_effect(it[1 .. (i - 1)], list[i])
    BY <1>6, <2>1, <2>2
  <2> QED
    BY <1>2, <1>4, <1>8, <2>3
<1>9. it[1 .. N] \in Q
  BY <1>2, <1>7, <1>8, FoldStays
<1> QED
  BY <1>1, <1>2, <1>9 DEF Q

LEMMA FrameKeeps ==
  ASSUME NEW s \in Desktops
  PROVE  LET r == apply_core_backend_effects(s) IN r \in Desktops /\ Follows(s, r)
<1> DEFINE k == [s.core EXCEPT !.effects = <<>>]
           h == [s EXCEPT !.core = k]
           r == FoldLeft(apply_effect, h, s.core.effects)
<1>1. s.core \in Cores(Windows) /\ s.core.effects \in Seq(Effects(Windows))
  BY DesktopParts, CoreParts
<1>2. apply_core_backend_effects(s) = r
  BY DEF apply_core_backend_effects
<1>3. <<>> \in Seq(Effects(Windows))
  OBVIOUS
<1>4. k \in Cores(Windows) /\ Alike(s.core, k)
  BY <1>1, <1>3, NewEffects
<1> HIDE DEF k
<1>5. h \in Desktops /\ Follows(s, h)
  BY <1>4, NewCore
<1> HIDE DEF h
<1>6. r \in After(h)
  BY <1>1, <1>5, EffectsFold
<1> HIDE DEF r
<1> QED
  BY <1>2, <1>5, <1>6, FollowsTwice DEF After
-----------------------------------------------------------------------------
(* Event handlers.                                                         *)

LEMMA RulesKeep ==
  ASSUME NEW k \in Cores(Windows), NEW w \in DOMAIN k.window, NEW rule
  PROVE  LET j == invoke_window_rules(k, w, rule) IN j \in Cores(Windows) /\ Alike(k, j)
<1> DEFINE v == [k.window[w] EXCEPT !.suppress_focus_once = TRUE]
           h == [k EXCEPT !.window[w] = v]
           j == MoveWindowToWorkspace(h, w, rule)
<1>0. k.window[w] \in WindowStates
  BY WindowParts
<1>1. v \in WindowStates
  BY <1>0 DEF WindowStates
<1>2. invoke_window_rules(k, w, rule) = IF rule = 0 THEN k ELSE j
  BY DEF invoke_window_rules
<1> HIDE DEF v
<1>3. h \in Cores(Windows) /\ Alike(k, h)
  BY <1>1, NewWindowState
<1> HIDE DEF h
<1>4. j \in Cores(Windows) /\ Alike(h, j)
  BY <1>3, MoveKeeps
<1> QED
  BY <1>2, <1>3, <1>4 DEF Alike

LEMMA PromoteKeeps ==
  ASSUME NEW k \in Cores(Windows), NEW w \in DOMAIN k.window
  PROVE  LET j == promote_to_borderless(k, w) IN j \in Cores(Windows) /\ Alike(k, j)
<1> DEFINE ws == k.window_workspace[w]
           p == pin_fullscreen_to_monitor(k, w, ws)
           h == SetWindowBorderless(k, w)
           j == pin_fullscreen_to_monitor(h, w, ws)
<1>1. promote_to_borderless(k, w) \in {k, p, j}
  BY DEF promote_to_borderless
<1>2. p \in Cores(Windows) /\ Alike(k, p)
  BY Pins
<1>3. h \in Cores(Windows) /\ Alike(k, h)
  BY BorderlessKeeps
<1> HIDE DEF h, p
<1>4. w \in DOMAIN h.window
  BY <1>3 DEF Alike
<1>5. j \in Cores(Windows) /\ Alike(h, j)
  BY <1>3, <1>4, Pins
<1> HIDE DEF j
<1> QED
  BY <1>1, <1>2, <1>3, <1>5 DEF Alike

LEMMA ShowOrFlash ==
  ASSUME NEW s \in Desktops, NEW w \in DOMAIN s.core.window
  PROVE  LET r == show_or_flash(s, w) IN r \in Desktops /\ Follows(s, r)
<1>0. s.core \in Cores(Windows)
  BY DesktopParts
<1>1. CASE is_workspace_visible(s.core, s.core.window_workspace[w])
  <2> DEFINE c == SetWindowHiddenByWorkspace(s.core, w, FALSE)
             d == MapWindow(c, w)
  <2>1. show_or_flash(s, w) = [s EXCEPT !.core = d]
    BY <1>1 DEF show_or_flash
  <2>2. c \in Cores(Windows) /\ Alike(s.core, c)
    BY <1>0, HiddenKeeps
  <2> HIDE DEF c
  <2>3. w \in DOMAIN c.window
    BY <2>2 DEF Alike
  <2>4. d \in Cores(Windows) /\ Alike(c, d)
    BY <2>2, <2>3, MapKeeps
  <2> HIDE DEF d
  <2>5. Alike(s.core, d)
    BY <2>2, <2>4 DEF Alike
  <2> QED
    BY <2>1, <2>4, <2>5, NewCore
<1>2. CASE ~ is_workspace_visible(s.core, s.core.window_workspace[w])
  <2> DEFINE f == x_map(s, w)
             c == note_wm_unmap(f.core, w)
             g == [f EXCEPT !.core = c]
             h == x_unmap(g, w)
             d == SetWindowHiddenByWorkspace(h.core, w, TRUE)
             e == SetWindowMapped(d, w, FALSE)
             r == [h EXCEPT !.core = e]
  <2>1. show_or_flash(s, w) = r
    BY <1>2 DEF show_or_flash
  <2>2. f \in Desktops /\ Follows(s, f)
    BY MapsWindow
  <2> HIDE DEF f
  <2>3. w \in DOMAIN f.core.window /\ f.core \in Cores(Windows)
    BY <2>2, DesktopParts DEF Follows, Alike
  <2>4. c \in Cores(Windows) /\ Alike(f.core, c)
    BY <2>3, NotesUnmap
  <2> HIDE DEF c
  <2>5. g \in Desktops /\ Follows(f, g)
    BY <2>2, <2>4, NewCore
  <2> HIDE DEF g
  <2>6. h \in Desktops /\ Follows(g, h)
    BY <2>5, UnmapsWindow
  <2> HIDE DEF h
  <2>7. d \in Cores(Windows) /\ Alike(h.core, d)
    BY <2>6, DesktopParts, HiddenKeeps
  <2> HIDE DEF d
  <2>8. e \in Cores(Windows) /\ Alike(d, e)
    BY <2>7, MappedKeeps
  <2> HIDE DEF e
  <2>9. Alike(h.core, e)
    BY <2>7, <2>8 DEF Alike
  <2>10. r \in Desktops /\ Follows(h, r)
    BY <2>6, <2>8, <2>9, NewCore
  <2> HIDE DEF r
  <2>11. Follows(s, g)
    BY <2>2, <2>5, FollowsTwice
  <2>12. Follows(s, h)
    BY <2>5, <2>6, <2>11, FollowsTwice
  <2> QED
    BY <2>1, <2>6, <2>10, <2>12, FollowsTwice
<1> QED
  BY <1>1, <1>2

LEMMA FocusNew ==
  ASSUME NEW k \in Cores(Windows), NEW w \in DOMAIN k.window
  PROVE  LET j == focus_new_window(k, w) IN j \in Cores(Windows) /\ Alike(k, j)
<1> DEFINE h == consume_window_suppress_focus_once(k, w)
           u == IF /\ is_workspace_visible(k, k.window_workspace[w]) /\ is_visible(k, w)
                   /\ ~ k.window[w].suppress_focus_once
                THEN w ELSE NoWindow
           j == focus(h, u)
<1>1. focus_new_window(k, w) = j
  BY DEF focus_new_window
<1>2. h \in Cores(Windows) /\ Alike(k, h)
  BY ConsumeKeeps
<1> HIDE DEF h, u
<1>3. j \in Cores(Windows) /\ Alike(h, j)
  BY <1>2, Focuses
<1> QED
  BY <1>1, <1>2, <1>3 DEF Alike

\* A map request makes the window a managed one.
LEMMA HandlesRequest ==
  ASSUME NEW s \in Desktops, NEW w \in Windows, NEW rule, NEW hint
  PROVE  LET r == handle_map_request(s, w, rule, hint)
         IN  /\ r \in Desktops /\ DOMAIN r.core.window = DOMAIN s.core.window \cup {w}
             /\ r.x.alive = s.x.alive /\ Extended(s.queue, r.queue)
<1> DEFINE a == EnsureWindow(s.core, w, hint)
           b == invoke_window_rules(a, w, rule)
           c == promote_to_borderless(b, w)
           f == [s EXCEPT !.core = c]
           g == x_select(f, w)
           h == show_or_flash(g, w)
           i == ewmh_on_window_mapped(h, w)
           d == arrange(i.core)
           e == focus_new_window(d, w)
           r == [i EXCEPT !.core = e]
<1>1. handle_map_request(s, w, rule, hint) = r
  BY DEF handle_map_request
<1>2. /\ a \in Cores(Windows) /\ DOMAIN a.window = DOMAIN s.core.window \cup {w}
  <2>1. s.core \in Cores(Windows)
    BY DesktopParts
  <2> QED
    BY <2>1, EnsureKeeps
<1> HIDE DEF a
<1>3. b \in Cores(Windows) /\ Alike(a, b)
  <2>1. w \in DOMAIN a.window
    BY <1>2
  <2> QED
    BY <1>2, <2>1, RulesKeep
<1> HIDE DEF b
<1>4. c \in Cores(Windows) /\ Alike(b, c)
  <2>1. w \in DOMAIN b.window
    BY <1>2, <1>3 DEF Alike
  <2> QED
    BY <1>3, <2>1, PromoteKeeps
<1> HIDE DEF c
<1>5. /\ f \in Desktops /\ f.x = s.x /\ f.queue = s.queue
      /\ DOMAIN f.core.window = DOMAIN s.core.window \cup {w}
  <2>1. f \in Desktops /\ f.core = c /\ f.x = s.x /\ f.queue = s.queue
    BY <1>4, NewCore
  <2> QED
    BY <1>2, <1>3, <1>4, <2>1 DEF Alike
<1> HIDE DEF f
<1>6. g \in Desktops /\ Follows(f, g)
  BY <1>5, SelectsInput
<1> HIDE DEF g
<1>7. h \in Desktops /\ Follows(g, h)
  <2>1. w \in DOMAIN g.core.window
    BY <1>5, <1>6 DEF Follows, Alike
  <2> QED
    BY <1>6, <2>1, ShowOrFlash
<1> HIDE DEF h
<1>8. i \in Desktops /\ Follows(h, i)
  BY <1>7, WindowMapped
<1> HIDE DEF i
<1>9. Follows(f, h)
  BY <1>5, <1>6, <1>7, FollowsTwice
<1>10. Follows(f, i)
  BY <1>5, <1>7, <1>8, <1>9, FollowsTwice
<1>11. d \in Cores(Windows) /\ Alike(i.core, d)
  BY <1>8, DesktopParts, Arranges
<1> HIDE DEF d
<1>12. e \in Cores(Windows) /\ Alike(d, e)
  <2>1. w \in DOMAIN d.window
    BY <1>5, <1>10, <1>11 DEF Follows, Alike
  <2> QED
    BY <1>11, <2>1, FocusNew
<1> HIDE DEF e
<1>13. Alike(i.core, e)
  BY <1>11, <1>12 DEF Alike
<1>14. r \in Desktops /\ Follows(i, r)
  BY <1>8, <1>12, <1>13, NewCore
<1> HIDE DEF r
<1>15. Follows(f, r)
  BY <1>5, <1>8, <1>10, <1>14, FollowsTwice
<1> QED
  BY <1>1, <1>5, <1>14, <1>15 DEF Follows, Alike

LEMMA HandlesMap ==
  ASSUME NEW s \in Desktops, NEW w
  PROVE  LET r == handle_map_notify(s, w) IN r \in Desktops /\ Follows(s, r)
<1> DEFINE pending == find_window_in_all(s.core, w) /\ s.core.window[w].pending_wm_unmaps > 0
           b == ~ pending
           k == SetWindowMapped(s.core, w, b)
           j == SetWindowHiddenByWorkspace(k, w, FALSE)
           active == is_workspace_visible(k, workspace_of_window(k, w))
           l == IF ~ pending /\ active THEN j ELSE k
<1>1. handle_map_notify(s, w) = [s EXCEPT !.core = l]
  BY DEF handle_map_notify
<1>2. b \in BOOLEAN
  OBVIOUS
<1> HIDE DEF b
<1>3. k \in Cores(Windows) /\ Alike(s.core, k)
  BY <1>2, DesktopParts, MappedKeeps
<1> HIDE DEF k
<1>4. j \in Cores(Windows) /\ Alike(k, j)
  BY <1>3, HiddenKeeps
<1> HIDE DEF j, pending, active
<1>5. l \in Cores(Windows) /\ Alike(s.core, l)
  BY <1>3, <1>4 DEF Alike
<1> HIDE DEF l
<1> QED
  BY <1>1, <1>5, NewCore

LEMMA Unmanages ==
  ASSUME NEW k \in Cores(Windows), NEW w \in DOMAIN k.window
  PROVE  LET j == unmanage(k, w)
         IN  j \in Cores(Windows) /\ DOMAIN j.window = DOMAIN k.window \ {w}
<1> DEFINE h == RemoveWindowFromAllWorkspaces(k, w)
           j == arrange(h)
<1>1. unmanage(k, w) \in {h, j}
  BY DEF unmanage
<1>2. h \in Cores(Windows) /\ DOMAIN h.window = DOMAIN k.window \ {w}
  BY RemoveKeeps
<1> HIDE DEF h
<1>3. j \in Cores(Windows) /\ Alike(h, j)
  BY <1>2, Arranges
<1> QED
  BY <1>1, <1>2, <1>3 DEF Alike

\* The others stay managed.
LEMMA HandlesUnmap ==
  ASSUME NEW s \in Desktops, NEW w
  PROVE  LET r == handle_unmap_notify(s, w)
         IN  /\ r \in Desktops /\ r.x = s.x /\ r.queue = s.queue
             /\ DOMAIN r.core.window \in SUBSET DOMAIN s.core.window
<1> DEFINE k == s.core
           c == consume_wm_unmap(k, w)
           d == SetWindowMapped(k, w, FALSE)
           e == unmanage(d, w)
           r == handle_unmap_notify(s, w)
<1>1. k \in Cores(Windows)
  BY DesktopParts
<1>2. CASE ~ find_window_in_all(k, w)
  BY <1>2 DEF handle_unmap_notify
<1>3. CASE find_window_in_all(k, w)
  <2>1. w \in DOMAIN k.window
    BY <1>3 DEF find_window_in_all
  <2>2. d \in Cores(Windows) /\ DOMAIN d.window = DOMAIN k.window
    BY <1>1, MappedKeeps DEF Alike
  <2>3. e \in Cores(Windows) /\ DOMAIN e.window \in SUBSET DOMAIN k.window
    <3> HIDE DEF d
    <3>1. e \in Cores(Windows) /\ DOMAIN e.window = DOMAIN d.window \ {w}
      BY <2>1, <2>2, Unmanages
    <3> QED
      BY <2>2, <3>1
  <2>4. k.window[w].pending_wm_unmaps > 0 =>
          c \in Cores(Windows) /\ DOMAIN c.window = DOMAIN k.window
    BY <1>1, <2>1, ConsumesUnmap DEF Alike
  <2>5. \E j \in {c, d, e} : /\ r = [s EXCEPT !.core = j]
                             /\ j = c => k.window[w].pending_wm_unmaps > 0 \/ c \in {d, e}
    BY <1>3 DEF handle_unmap_notify
  <2> HIDE DEF c, d, e, r
  <2>6. PICK j : /\ r = [s EXCEPT !.core = j] /\ j \in Cores(Windows)
                 /\ DOMAIN j.window \in SUBSET DOMAIN k.window
    BY <2>2, <2>3, <2>4, <2>5
  <2> QED
    BY <2>6, NewCore DEF r
<1> QED
  BY <1>2, <1>3

LEMMA HandlesDestroy ==
  ASSUME NEW s \in Desktops, NEW w
  PROVE  LET r == handle_destroy_notify(s, w)
         IN  /\ r \in Desktops /\ r.x = s.x /\ r.queue = s.queue
             /\ DOMAIN r.core.window = DOMAIN s.core.window \ {w}
<1> DEFINE k == unmanage(s.core, w)
           r == handle_destroy_notify(s, w)
<1>1. CASE w \notin DOMAIN s.core.window
  <2>1. DOMAIN s.core.window = DOMAIN s.core.window \ {w}
    BY <1>1
  <2>2. r = s
    BY <1>1 DEF handle_destroy_notify, find_window_in_all
  <2> QED
    BY <2>1, <2>2
<1>2. CASE w \in DOMAIN s.core.window
  <2>1. r = [s EXCEPT !.core = k]
    BY <1>2 DEF handle_destroy_notify, find_window_in_all
  <2>2. k \in Cores(Windows) /\ DOMAIN k.window = DOMAIN s.core.window \ {w}
    BY <1>2, DesktopParts, Unmanages
  <2> HIDE DEF k
  <2> QED
    BY <2>1, <2>2, NewCore
<1> QED
  BY <1>1, <1>2

LEMMA EnterKeepsCore ==
  ASSUME NEW k \in Cores(Windows), NEW w
  PROVE  LET j == handle_enter_notify(k, w) IN j \in Cores(Windows) /\ Alike(k, j)
<1>1. Alike(k, k)
  BY DEF Alike
<1> QED
  BY <1>1, FocusWindowKeeps DEF handle_enter_notify
-----------------------------------------------------------------------------
(* Windows that are gone.  WindowsReal is not inductive: a window may be   *)
(* destroyed while it is managed, and while a request to map it is still   *)
(* queued.  What is kept is that its DestroyNotify comes after all that.   *)

\* D the managed windows, A those that exist, q the queue: every managed window
\* that is gone will be reported, and requests for it come before the report.
Doomed(D, A, q) ==
  /\ \A w \in D \ A : \E i \in 1 .. Len(q) : q[i].type = "destroy" /\ q[i].window = w
  /\ \A i \in 1 .. Len(q) :
       q[i].type = "request" /\ q[i].window \notin A =>
         \E j \in 1 .. Len(q) :
           j > i /\ q[j].type = "destroy" /\ q[j].window = q[i].window

LEMMA ExtendedDoom ==
  ASSUME NEW D, NEW A, NEW q \in Seq(Events), NEW p \in Seq(Events),
         Doomed(D, A, q), Extended(q, p), NEW E \in SUBSET D
  PROVE  Doomed(E, A, p)
<1>1. /\ Len(q) \in Nat /\ Len(p) \in Nat /\ Len(q) <= Len(p)
      /\ \A i \in 1 .. Len(q) : i \in 1 .. Len(p) /\ p[i] = q[i]
  BY DEF Extended
<1>2. ASSUME NEW w \in E \ A
      PROVE  \E i \in 1 .. Len(p) : p[i].type = "destroy" /\ p[i].window = w
  <2>1. PICK i \in 1 .. Len(q) : q[i].type = "destroy" /\ q[i].window = w
    BY <1>2 DEF Doomed
  <2> QED
    BY <1>1, <2>1
<1>3. ASSUME NEW i \in 1 .. Len(p), p[i].type = "request", p[i].window \notin A
      PROVE  \E j \in 1 .. Len(p) :
               j > i /\ p[j].type = "destroy" /\ p[j].window = p[i].window
  <2>1. i \in 1 .. Len(q)
    <3>1. ~ i > Len(q)
      BY <1>3 DEF Extended
    <3> QED
      BY <1>1, <3>1
  <2>2. PICK j \in 1 .. Len(q) :
               j > i /\ q[j].type = "destroy" /\ q[j].window = q[i].window
    BY <1>1, <1>3, <2>1 DEF Doomed
  <2> QED
    BY <1>1, <2>1, <2>2
<1> QED
  BY <1>2, <1>3 DEF Doomed

\* The oldest event is handled: a request manages its window, a destroy event
\* forgets it.
LEMMA HandledDoom ==
  ASSUME NEW D, NEW A, NEW q \in Seq(Events), q # <<>>, Doomed(D, A, q),
         NEW E \in SUBSET (D \cup {Head(q).window}),
         Head(q).type # "request" => E \in SUBSET D,
         Head(q).type = "destroy" => Head(q).window \notin E
  PROVE  Doomed(E, A, Tail(q))
<1> DEFINE p == Tail(q)
           n == Len(q)
<1>1. /\ n \in Nat /\ n > 0 /\ Head(q) = q[1] /\ Len(p) = n - 1
      /\ \A i \in 1 .. n - 1 : p[i] = q[i + 1]
  BY EmptySeq
<1>2. \A i \in 2 .. n : i - 1 \in 1 .. n - 1 /\ p[i - 1] = q[i]
  <2>1. ASSUME NEW i \in 2 .. n PROVE i - 1 \in 1 .. n - 1 /\ p[i - 1] = q[i]
    <3>1. i - 1 \in 1 .. n - 1 /\ (i - 1) + 1 = i
      BY <1>1
    <3> QED
      BY <1>1, <3>1
  <2> QED
    BY <2>1
<1> HIDE DEF p
<1>3. ASSUME NEW w \in E \ A
      PROVE  \E i \in 1 .. Len(p) : p[i].type = "destroy" /\ p[i].window = w
  <2>1. PICK i \in 2 .. n : q[i].type = "destroy" /\ q[i].window = w
    <3>1. CASE w \in D
      <4>1. PICK i \in 1 .. n : q[i].type = "destroy" /\ q[i].window = w
        BY <1>3, <3>1 DEF Doomed
      <4>2. i # 1
        BY <1>1, <1>3, <4>1
      <4>3. i \in 2 .. n
        BY <1>1, <4>2
      <4> QED
        BY <4>1, <4>3
    <3>2. CASE w \notin D
      <4>1. w = q[1].window /\ q[1].type = "request" /\ 1 \in 1 .. n
        BY <1>1, <1>3, <3>2
      <4>2. PICK i \in 1 .. n : i > 1 /\ q[i].type = "destroy" /\ q[i].window = q[1].window
        BY <1>3, <4>1 DEF Doomed
      <4>3. i \in 2 .. n
        BY <1>1, <4>2
      <4> QED
        BY <4>1, <4>2, <4>3
    <3> QED
      BY <3>1, <3>2
  <2> QED
    BY <1>1, <1>2, <2>1
<1>4. ASSUME NEW i \in 1 .. Len(p), p[i].type = "request", p[i].window \notin A
      PROVE  \E j \in 1 .. Len(p) :
               j > i /\ p[j].type = "destroy" /\ p[j].window = p[i].window
  <2>1. i \in 1 .. n - 1 /\ i + 1 \in 1 .. n /\ p[i] = q[i + 1]
    BY <1>1
  <2>2. PICK j \in 1 .. n :
               j > i + 1 /\ q[j].type = "destroy" /\ q[j].window = q[i + 1].window
    BY <1>4, <2>1 DEF Doomed
  <2>3. j \in 2 .. n /\ j - 1 > i
    BY <1>1, <2>1, <2>2
  <2> QED
    BY <1>1, <1>2, <2>1, <2>2, <2>3
<1> QED
  BY <1>3, <1>4 DEF Doomed, p

\* A client asks for a window of its own to be mapped, or unmaps it.
LEMMA AskedDoom ==
  ASSUME NEW D, NEW A, NEW q \in Seq(Events), Doomed(D, A, q), NEW e \in Events,
         e.type = "request" => e.window \in A
  PROVE  Doomed(D, A, Append(q, e))
<1> DEFINE p == Append(q, e)
           n == Len(q)
<1>1. /\ n \in Nat /\ Len(p) = n + 1 /\ p[n + 1] = e
      /\ \A i \in 1 .. n : i \in 1 .. n + 1 /\ p[i] = q[i]
  OBVIOUS
<1> HIDE DEF p
<1>2. ASSUME NEW w \in D \ A
      PROVE  \E i \in 1 .. Len(p) : p[i].type = "destroy" /\ p[i].window = w
  <2>1. PICK i \in 1 .. n : q[i].type = "destroy" /\ q[i].window = w
    BY <1>2 DEF Doomed
  <2> QED
    BY <1>1, <2>1
<1>3. ASSUME NEW i \in 1 .. Len(p), p[i].type = "request", p[i].window \notin A
      PROVE  \E j \in 1 .. Len(p) :
               j > i /\ p[j].type = "destroy" /\ p[j].window = p[i].window
  <2>1. i \in 1 .. n
    <3>1. i # n + 1
      BY <1>1, <1>3
    <3> QED
      BY <1>1, <3>1
  <2>2. PICK j \in 1 .. n :
               j > i /\ q[j].type = "destroy" /\ q[j].window = q[i].window
    BY <1>1, <1>3, <2>1 DEF Doomed
  <2> QED
    BY <1>1, <2>1, <2>2
<1> QED
  BY <1>2, <1>3 DEF Doomed, p

\* A client destroys its window.
LEMMA DestroyedDoom ==
  ASSUME NEW D, NEW A, NEW q \in Seq(Events), Doomed(D, A, q), NEW w,
         NEW e \in Seq(Events), Len(e) > 0,
         \A i \in 1 .. Len(e) : e[i].type = "destroy" /\ e[i].window = w
  PROVE  q \o e \in Seq(Events) /\ Doomed(D, A \ {w}, q \o e)
<1> DEFINE p == q \o e
           m == Len(q)
           n == Len(e)
<1>1. \A i \in 1 .. n : e[i].type = "destroy" /\ e[i].window = w
  OBVIOUS
<1>0. q \in Seq(Events) /\ m \in Nat /\ n \in Nat /\ n > 0
  OBVIOUS
<1>2. /\ m \in Nat /\ p \in Seq(Events) /\ Len(p) = m + n
      /\ \A i \in 1 .. m + n : p[i] = IF i <= m THEN q[i] ELSE e[i - m]
  BY <1>0, <1>1, ConcatProperties
<1>3. /\ m + 1 \in 1 .. m + n /\ p[m + 1].type = "destroy" /\ p[m + 1].window = w
  <2>1. m + 1 \in 1 .. m + n /\ ~ m + 1 <= m /\ (m + 1) - m = 1 /\ 1 \in 1 .. n
    BY <1>0
  <2>2. p[m + 1] = e[1]
    BY <1>2, <2>1
  <2> QED
    BY <1>1, <2>1, <2>2
<1>4. \A i \in 1 .. m : i \in 1 .. m + n /\ p[i] = q[i]
  BY <1>2
<1> HIDE DEF p
<1>5. ASSUME NEW v \in D \ (A \ {w})
      PROVE  \E i \in 1 .. Len(p) : p[i].type = "destroy" /\ p[i].window = v
  <2>1. CASE v = w
    BY <1>2, <1>3, <2>1
  <2>2. CASE v # w
    <3>1. PICK i \in 1 .. m : q[i].type = "destroy" /\ q[i].window = v
      BY <1>5, <2>2 DEF Doomed
    <3> QED
      BY <1>2, <1>4, <3>1
  <2> QED
    BY <2>1, <2>2
<1>6. ASSUME NEW i \in 1 .. Len(p), p[i].type = "request", p[i].window \notin A \ {w}
      PROVE  \E j \in 1 .. Len(p) :
               j > i /\ p[j].type = "destroy" /\ p[j].window = p[i].window
  <2>1. i \in 1 .. m
    <3>1. CASE ~ i <= m
      <4>1. i \in 1 .. m + n /\ i - m \in 1 .. n
        BY <1>2, <3>1
      <4>2. p[i] = e[i - m]
        BY <1>2, <3>1, <4>1
      <4> QED
        BY <1>1, <1>6, <4>1, <4>2
    <3>2. CASE i <= m
      BY <1>2, <3>2
    <3> QED
      BY <3>1, <3>2
  <2>2. CASE p[i].window = w
    <3>1. m + 1 > i
      BY <1>2, <2>1
    <3> QED
      BY <1>2, <1>3, <2>2, <3>1
  <2>3. CASE p[i].window # w
    <3>1. PICK j \in 1 .. m :
                 j > i /\ q[j].type = "destroy" /\ q[j].window = q[i].window
      BY <1>4, <1>6, <2>1, <2>3 DEF Doomed
    <3> QED
      BY <1>2, <1>4, <2>1, <3>1
  <2> QED
    BY <2>2, <2>3
<1>7. Doomed(D, A \ {w}, p)
  BY <1>5, <1>6 DEF Doomed
<1> QED
  BY <1>2, <1>7 DEF p
-----------------------------------------------------------------------------
(* The actions.                                                            *)

\* The inductive invariant, of a desktop.
Fine(s) == s \in Desktops /\ Doomed(DOMAIN s.core.window, s.x.alive, s.queue)

IndInv == Fine(here)

\* What the window manager does by itself.
LEMMA FineFollows ==
  ASSUME NEW s, Fine(s), NEW r \in Desktops, Follows(s, r)
  PROVE  Fine(r)
<1>1. s \in Desktops /\ s.queue \in Seq(Events) /\ r.queue \in Seq(Events)
  BY DesktopParts DEF Fine
<1>2. Doomed(DOMAIN s.core.window, s.x.alive, s.queue)
  BY DEF Fine
<1>3. /\ DOMAIN r.core.window = DOMAIN s.core.window /\ r.x.alive = s.x.alive
      /\ Extended(s.queue, r.queue)
  BY DEF Follows, Alike
<1>4. DOMAIN s.core.window \in SUBSET DOMAIN s.core.window
  OBVIOUS
<1>5. Doomed(DOMAIN s.core.window, s.x.alive, r.queue)
  BY <1>1, <1>2, <1>3, <1>4, ExtendedDoom
<1> QED
  BY <1>3, <1>5 DEF Fine

LEMMA HereIs ==
  ASSUME Fine(here)
  PROVE  /\ here \in Desktops /\ here.core = core /\ here.x = x /\ here.queue = queue
         /\ core \in Cores(Windows) /\ x \in SoundServers /\ queue \in Seq(Events)
<1>1. here \in Desktops
  BY DEF Fine
<1>2. here.core = core /\ here.x = x /\ here.queue = queue
  BY DEF here
<1> QED
  BY <1>1, <1>2, DesktopParts

LEMMA Become ==
  ASSUME NEW r, Fine(r), core' = r.core, x' = r.x, queue' = r.queue
  PROVE  IndInv'
<1>1. r \in Desktops
  BY DEF Fine
<1>2. r = [core |-> core', x |-> x', queue |-> queue']
  BY <1>1 DEF Desktops
<1>3. Fine([core |-> core', x |-> x', queue |-> queue'])
  BY <1>2
<1> QED
  BY <1>3 DEF IndInv, here, Fine

LEMMA PumpKeeps == IndInv /\ PumpEvent => IndInv'
<1> SUFFICES ASSUME IndInv, PumpEvent PROVE IndInv'
  OBVIOUS
<1> DEFINE e == Head(queue)
           s == [here EXCEPT !.queue = Tail(@)]
           D == DOMAIN core.window
<1>0. Fine(here) /\ queue # <<>>
  BY DEF IndInv, PumpEvent
<1>1. /\ here \in Desktops /\ here.core = core /\ here.x = x /\ here.queue = queue
      /\ core \in Cores(Windows) /\ x \in SoundServers /\ queue \in Seq(Events)
  BY <1>0, HereIs
<1>2. Doomed(D, x.alive, queue)
  BY <1>0, <1>1 DEF Fine
<1>3. e \in Events /\ Tail(queue) \in Seq(Events)
  BY <1>0, <1>1
<1>4. e.window \in Windows /\ e.type \in {"request", "map", "unmap", "destroy"}
  BY <1>3 DEF Events
<1>5. s \in Desktops /\ s.core = core /\ s.x = x /\ s.queue = Tail(queue)
  BY <1>1, <1>3 DEF Desktops
<1>6. ASSUME e.type = "request",
             NEW rule, NEW hint, Becomes(handle_map_request(s, e.window, rule, hint))
      PROVE  IndInv'
  <2> DEFINE r == handle_map_request(s, e.window, rule, hint)
  <2> HIDE DEF s, e
  <2>1. /\ r \in Desktops /\ DOMAIN r.core.window = D \cup {e.window}
        /\ r.x.alive = x.alive /\ Extended(Tail(queue), r.queue) /\ r.queue \in Seq(Events)
    <3>1. /\ r \in Desktops /\ DOMAIN r.core.window = DOMAIN s.core.window \cup {e.window}
          /\ r.x.alive = s.x.alive /\ Extended(s.queue, r.queue)
      BY <1>4, <1>5, HandlesRequest
    <3> HIDE DEF r
    <3>2. r.queue \in Seq(Events)
      BY <3>1, DesktopParts
    <3> QED
      BY <1>5, <3>1, <3>2
  <2>2. Doomed(D \cup {e.window}, x.alive, Tail(queue))
    BY <1>0, <1>1, <1>2, <1>6, HandledDoom DEF e
  <2> HIDE DEF r
  <2>3. Doomed(DOMAIN r.core.window, r.x.alive, r.queue)
    BY <1>3, <2>1, <2>2, ExtendedDoom
  <2>4. Fine(r)
    BY <2>1, <2>3 DEF Fine
  <2> QED
    BY <1>6, <2>4, Become DEF Becomes, r
<1>7. ASSUME e.type = "map", Becomes(handle_map_notify(s, e.window))
      PROVE  IndInv'
  <2> DEFINE r == handle_map_notify(s, e.window)
  <2>1. Doomed(D, x.alive, Tail(queue))
    BY <1>0, <1>1, <1>2, <1>7, HandledDoom
  <2> HIDE DEF s, e
  <2>2. Fine(s)
    BY <1>5, <2>1 DEF Fine
  <2>3. r \in Desktops /\ Follows(s, r)
    BY <1>5, HandlesMap
  <2> HIDE DEF r
  <2>4. Fine(r)
    BY <2>2, <2>3, FineFollows
  <2> QED
    BY <1>7, <2>4, Become DEF Becomes, r
<1>8. ASSUME e.type = "unmap", Becomes(handle_unmap_notify(s, e.window))
      PROVE  IndInv'
  <2> DEFINE r == handle_unmap_notify(s, e.window)
  <2> HIDE DEF s
  <2>1. /\ r \in Desktops /\ r.x = x /\ r.queue = Tail(queue)
        /\ DOMAIN r.core.window \in SUBSET D
    BY <1>5, HandlesUnmap
  <2> HIDE DEF r
  <2>2. Doomed(DOMAIN r.core.window, x.alive, Tail(queue))
    BY <1>0, <1>1, <1>2, <1>8, <2>1, HandledDoom
  <2>3. Fine(r)
    BY <2>1, <2>2 DEF Fine
  <2> QED
    BY <1>8, <2>3, Become DEF Becomes, r
<1>9. ASSUME e.type = "destroy", Becomes(handle_destroy_notify(s, e.window))
      PROVE  IndInv'
  <2> DEFINE r == handle_destroy_notify(s, e.window)
  <2> HIDE DEF s
  <2>1. /\ r \in Desktops /\ r.x = x /\ r.queue = Tail(queue)
        /\ DOMAIN r.core.window = D \ {e.window}
    BY <1>5, HandlesDestroy
  <2> HIDE DEF r
  <2>2. Doomed(D \ {e.window}, x.alive, Tail(queue))
    BY <1>0, <1>1, <1>2, <1>9, HandledDoom
  <2>3. Fine(r)
    BY <2>1, <2>2 DEF Fine
  <2> QED
    BY <1>9, <2>3, Become DEF Becomes, r
<1> QED
  BY <1>6, <1>7, <1>8, <1>9 DEF PumpEvent

LEMMA RenderKeeps == IndInv /\ RenderFrame => IndInv'
<1> SUFFICES ASSUME IndInv, RenderFrame PROVE IndInv'
  OBVIOUS
<1> DEFINE r == apply_core_backend_effects(here)
<1>1. Fine(here) /\ here \in Desktops /\ Becomes(r)
  BY HereIs DEF IndInv, RenderFrame
<1>2. r \in Desktops /\ Follows(here, r)
  BY <1>1, FrameKeeps
<1> HIDE DEF r
<1>3. Fine(r)
  BY <1>1, <1>2, FineFollows
<1> QED
  BY <1>1, <1>3, Become DEF Becomes

LEMMA ClientMapKeeps ==
  ASSUME IndInv, NEW w \in Windows, ClientMap(w)
  PROVE  IndInv'
<1> DEFINE e == [type |-> "request", window |-> w]
           r == [here EXCEPT !.queue = Append(queue, e)]
<1>0. Fine(here)
  BY DEF IndInv
<1>1. /\ here \in Desktops /\ here.core = core /\ here.x = x /\ here.queue = queue
      /\ queue \in Seq(Events) /\ Doomed(DOMAIN core.window, x.alive, queue)
  BY <1>0, HereIs DEF Fine
<1>2. e \in Events /\ e.window \in x.alive
  BY DEF ClientMap, Events
<1>3. core' = core /\ x' = x /\ queue' = Append(queue, e)
  BY DEF ClientMap
<1> HIDE DEF e
<1>4. Append(queue, e) \in Seq(Events) /\ Doomed(DOMAIN core.window, x.alive, Append(queue, e))
  BY <1>1, <1>2, AskedDoom
<1>5. r \in Desktops /\ r.core = core /\ r.x = x /\ r.queue = Append(queue, e)
  BY <1>1, <1>4 DEF Desktops
<1> HIDE DEF r
<1>6. Fine(r)
  BY <1>4, <1>5 DEF Fine
<1> QED
  BY <1>3, <1>5, <1>6, Become

LEMMA ClientUnmapKeeps ==
  ASSUME IndInv, NEW w \in Windows, NEW synthetic, ClientUnmap(w, synthetic)
  PROVE  IndInv'
<1> DEFINE s == x_unmap(here, w)
           e == [type |-> "unmap", window |-> w]
           q == IF synthetic THEN Append(s.queue, e) ELSE s.queue
           r == [s EXCEPT !.queue = q]
<1>0. Fine(here)
  BY DEF IndInv
<1>1. here \in Desktops
  BY <1>0, HereIs
<1>2. s \in Desktops /\ Follows(here, s)
  BY <1>1, UnmapsWindow
<1>20. Becomes(r)
  BY DEF ClientUnmap
<1> HIDE DEF s
<1>3. /\ Fine(s) /\ s.queue \in Seq(Events)
      /\ Doomed(DOMAIN s.core.window, s.x.alive, s.queue)
  <2>1. Fine(s)
    BY <1>0, <1>2, FineFollows
  <2> QED
    BY <1>2, <2>1, DesktopParts DEF Fine
<1>4. e \in Events /\ e.type # "request"
  BY DEF Events
<1> HIDE DEF e
<1>5. q \in Seq(Events) /\ Doomed(DOMAIN s.core.window, s.x.alive, q)
  BY <1>3, <1>4, AskedDoom
<1> HIDE DEF q
<1>6. r \in Desktops /\ r.core = s.core /\ r.x = s.x /\ r.queue = q
  BY <1>2, <1>5 DEF Desktops
<1> HIDE DEF r
<1>7. Fine(r)
  BY <1>5, <1>6 DEF Fine
<1> QED
  BY <1>20, <1>7, Become DEF Becomes

LEMMA ClientDestroyKeeps ==
  ASSUME IndInv, NEW w \in Windows, ClientDestroy(w)
  PROVE  IndInv'
<1> DEFINE s == x_unmap(here, w)
           n == IF w \in s.x.selected THEN 2 ELSE 1
           e == [i \in 1 .. n |-> [type |-> "destroy", window |-> w]]
           q == s.queue \o e
           v == [s.x EXCEPT !.alive = @ \ {w}, !.selected = @ \ {w}, !.fs_state = @ \ {w}]
           r == [s EXCEPT !.queue = q, !.x = v]
<1>0. Fine(here)
  BY DEF IndInv
<1>1. here \in Desktops /\ here.x = x
  BY <1>0, HereIs
<1>2. s \in Desktops /\ Follows(here, s) /\ s.x.mapped = x.mapped \ {w}
  BY <1>1, UnmapsWindow
<1>20. Becomes(r)
  <2>1. Becomes([s EXCEPT !.queue = @ \o copies(s, "destroy", w),
                          !.x.alive = @ \ {w}, !.x.selected = @ \ {w}, !.x.fs_state = @ \ {w}])
    BY DEF ClientDestroy
  <2>2. [s EXCEPT !.queue = @ \o copies(s, "destroy", w),
                  !.x.alive = @ \ {w}, !.x.selected = @ \ {w}, !.x.fs_state = @ \ {w}] = r
    <3> HIDE DEF s
    <3>1. s.x \in Servers
      BY <1>2, DesktopParts
    <3> QED
      BY <1>2, <3>1 DEF copies, Desktops, Servers
  <2> QED
    BY <2>1, <2>2
<1> HIDE DEF s
<1>3. /\ Fine(s) /\ s.queue \in Seq(Events)
      /\ Doomed(DOMAIN s.core.window, s.x.alive, s.queue)
  <2>1. Fine(s)
    BY <1>0, <1>2, FineFollows
  <2> QED
    BY <1>2, <2>1, DesktopParts DEF Fine
<1>4. /\ e \in Seq(Events) /\ Len(e) > 0
      /\ \A i \in 1 .. Len(e) : e[i].type = "destroy" /\ e[i].window = w
  <2>1. [type |-> "destroy", window |-> w] \in Events /\ n \in Nat /\ n > 0
    BY DEF Events
  <2> HIDE DEF n
  <2> QED
    BY <2>1
<1> HIDE DEF e
<1>5. q \in Seq(Events) /\ Doomed(DOMAIN s.core.window, s.x.alive \ {w}, q)
  BY <1>3, <1>4, DestroyedDoom
<1> HIDE DEF q
<1>6. s.x \in Servers /\ Books(s.x) /\ Stacked(s.x.stack)
  BY <1>2, DesktopParts
<1>7. /\ v \in Servers /\ v.alive = s.x.alive \ {w} /\ v.mapped = s.x.mapped
      /\ v.selected = s.x.selected \ {w} /\ v.fs_state = s.x.fs_state \ {w}
      /\ v.stack = s.x.stack
  BY <1>6 DEF Servers
<1> HIDE DEF v
<1>8. v \in SoundServers
  BY <1>2, <1>6, <1>7 DEF SoundServers, Books
<1>9. r \in Desktops /\ r.core = s.core /\ r.x = v /\ r.queue = q
  BY <1>2, <1>5, <1>8 DEF Desktops
<1> HIDE DEF r
<1>10. Fine(r)
  BY <1>5, <1>7, <1>9 DEF Fine
<1> QED
  BY <1>20, <1>10, Become DEF Becomes

LEMMA FullscreenActKeeps ==
  ASSUME IndInv, NEW w \in Windows, NEW enabled \in BOOLEAN, Fullscreen(w, enabled)
  PROVE  IndInv'
<1> DEFINE r == handle_fullscreen_message(here, w, enabled)
<1>1. Fine(here) /\ here \in Desktops /\ Becomes(r)
  BY HereIs DEF IndInv, Fullscreen
<1>2. r \in Desktops /\ Follows(here, r)
  BY <1>1, HandlesFullscreen
<1> HIDE DEF r
<1>3. Fine(r)
  BY <1>1, <1>2, FineFollows
<1> QED
  BY <1>1, <1>3, Become DEF Becomes

LEMMA SwitchToKeeps ==
  ASSUME IndInv, NEW ws \in DOMAIN core.workspaces, SwitchTo(ws)
  PROVE  IndInv'
<1> DEFINE k == SwitchWorkspace(core, ws, 0)
           s == [here EXCEPT !.core = k]
           r == ewmh_on_workspace_switched(s, ws)
<1>1. /\ Fine(here) /\ here \in Desktops /\ here.core = core /\ core \in Cores(Windows)
  BY HereIs DEF IndInv
<1>2. Becomes(r)
  BY <1>1 DEF SwitchTo
<1>3. k \in Cores(Windows) /\ Alike(core, k)
  BY <1>1, SwitchKeeps
<1> HIDE DEF k
<1>4. DOMAIN k.workspaces = DOMAIN core.workspaces
  BY <1>1, <1>3, AlikeParts
<1>5. s \in Desktops /\ Follows(here, s) /\ s.core = k
  BY <1>1, <1>3, NewCore
<1> HIDE DEF s
<1>6. ws \in DOMAIN s.core.workspaces
  BY <1>4, <1>5
<1>7. r \in Desktops /\ Follows(s, r)
  BY <1>5, <1>6, SwitchedFullscreen
<1> HIDE DEF r
<1>8. Fine(r)
  BY <1>1, <1>5, <1>7, FineFollows
<1> QED
  BY <1>2, <1>8, Become DEF Becomes

\* A command that leaves Core with the same windows.
LEMMA CommandKeeps ==
  ASSUME IndInv, NEW k \in Cores(Windows), DOMAIN k.window = DOMAIN core.window,
         core' = k, UNCHANGED <<x, queue>>
  PROVE  IndInv'
<1> DEFINE r == [here EXCEPT !.core = k]
<1>1. /\ Fine(here) /\ here \in Desktops /\ here.core = core /\ here.x = x
      /\ here.queue = queue
  BY HereIs DEF IndInv
<1>2. r \in Desktops /\ r.core = k /\ r.x = x /\ r.queue = queue
  BY <1>1, NewCore
<1> HIDE DEF r
<1>3. Doomed(DOMAIN core.window, x.alive, queue)
  BY <1>1 DEF Fine
<1>4. Fine(r)
  BY <1>2, <1>3 DEF Fine
<1> QED
  BY <1>2, <1>4, Become

LEMMA ReloadActKeeps ==
  ASSUME IndInv, NEW c \in Configs, NEW mons \in MonitorLists, Reload(c, mons)
  PROVE  IndInv'
<1> DEFINE l == reload(core, c, mons)
           s == [here EXCEPT !.core = l.core]
           r == FoldLeft(ewmh_on_workspace_switched, s, l.switched)
<1>1. /\ Fine(here) /\ here \in Desktops /\ here.core = core /\ core \in Cores(Windows)
      /\ here.x = x /\ here.queue = queue
  BY HereIs DEF IndInv
<1>2. Becomes(r)
  BY DEF Reload, drain_switched
<1>3. /\ l.core \in Cores(Windows) /\ DOMAIN l.core.window = DOMAIN core.window
      /\ l.switched \in Seq(DOMAIN l.core.workspaces)
  BY <1>1, ReloadKeeps
<1> HIDE DEF l
<1>4. s \in Desktops /\ s.core = l.core /\ s.x = x /\ s.queue = queue
  BY <1>1, <1>3, NewCore
<1> HIDE DEF s
<1>5. Fine(s)
  BY <1>1, <1>3, <1>4 DEF Fine
<1>6. r \in After(s)
  <2>1. l.switched \in Seq(DOMAIN s.core.workspaces)
    BY <1>3, <1>4
  <2> QED
    BY <1>4, <2>1, SwitchedFold
<1> HIDE DEF r
<1>7. Fine(r)
  BY <1>5, <1>6, FineFollows DEF After
<1> QED
  BY <1>2, <1>7, Become DEF Becomes

LEMMA Preserved == IndInv /\ [Next]_vars => IndInv'
<1> SUFFICES ASSUME IndInv, [Next]_vars PROVE IndInv'
  OBVIOUS
<1>0. core \in Cores(Windows) /\ NoWindow \notin Windows
  BY HereIs, X11Assumption DEF IndInv
<1>1. CASE UNCHANGED vars
  BY <1>0, <1>1, CommandKeeps DEF vars
<1>2. CASE PumpEvent
  BY <1>2, PumpKeeps
<1>3. CASE RenderFrame
  BY <1>3, RenderKeeps
<1>4. ASSUME NEW w \in Windows,
             \/ ClientMap(w)
             \/ \E synthetic \in Withdrawals : ClientUnmap(w, synthetic)
             \/ ClientDestroy(w)
             \/ \E enabled \in BOOLEAN : Fullscreen(w, enabled)
      PROVE  IndInv'
  BY <1>4, ClientMapKeeps, ClientUnmapKeeps, ClientDestroyKeeps, FullscreenActKeeps
<1>5. ASSUME NEW k \in Cores(Windows), Alike(core, k), NEW name, Command(name, k)
      PROVE  IndInv'
  BY <1>5, CommandKeeps DEF Command, Alike
<1>6. ASSUME NEW w \in Windows, Command("pointer", handle_enter_notify(core, w))
      PROVE  IndInv'
  <2>1. /\ handle_enter_notify(core, w) \in Cores(Windows)
        /\ Alike(core, handle_enter_notify(core, w))
    BY <1>0, EnterKeepsCore
  <2> QED
    BY <1>5, <1>6, <2>1
<1>7. ASSUME NEW w \in Windows, NEW ws, Command("move", MoveWindowToWorkspace(core, w, ws))
      PROVE  IndInv'
  <2>1. /\ MoveWindowToWorkspace(core, w, ws) \in Cores(Windows)
        /\ Alike(core, MoveWindowToWorkspace(core, w, ws))
    BY <1>0, MoveKeeps
  <2> QED
    BY <1>5, <1>7, <2>1
<1>8. ASSUME NEW ws \in DOMAIN core.workspaces, SwitchTo(ws) PROVE IndInv'
  BY <1>8, SwitchToKeeps
<1>9. ASSUME NEW dir \in {1, -1}, Command("step", FocusStep(core, dir)) PROVE IndInv'
  <2>1. FocusStep(core, dir) \in Cores(Windows) /\ Alike(core, FocusStep(core, dir))
    BY <1>0, StepKeeps
  <2> QED
    BY <1>5, <1>9, <2>1
<1>10. ASSUME NEW m \in DOMAIN core.wsman.monitors,
              \/ Command("monitor", FocusMonitor(core, m))
              \/ Command("pointer", focus_monitor_at_point(core, m))
       PROVE  IndInv'
  <2>1. /\ FocusMonitor(core, m) \in Cores(Windows) /\ Alike(core, FocusMonitor(core, m))
        /\ focus_monitor_at_point(core, m) \in Cores(Windows)
        /\ Alike(core, focus_monitor_at_point(core, m))
    BY <1>0, MonitorKeeps
  <2> QED
    BY <1>5, <1>10, <2>1
<1>11. ASSUME Command("zoom", Zoom(core)) PROVE IndInv'
  <2>1. Zoom(core) \in Cores(Windows) /\ Alike(core, Zoom(core))
    BY <1>0, ZoomKeeps
  <2> QED
    BY <1>5, <1>11, <2>1
<1>12. ASSUME Command("float", ToggleFocusedWindowFloating(core)) PROVE IndInv'
  <2>1. /\ ToggleFocusedWindowFloating(core) \in Cores(Windows)
        /\ Alike(core, ToggleFocusedWindowFloating(core))
    BY <1>0, FloatKeeps
  <2> QED
    BY <1>5, <1>12, <2>1
<1>13. ASSUME NEW mons \in MonitorLists, Command("plug", ApplyMonitorTopology(core, mons))
       PROVE  IndInv'
  <2>1. /\ ApplyMonitorTopology(core, mons) \in Cores(Windows)
        /\ Alike(core, ApplyMonitorTopology(core, mons))
    BY <1>0, PlugKeeps
  <2> QED
    BY <1>5, <1>13, <2>1
<1>14. ASSUME NEW c \in Configs, NEW mons \in MonitorLists, Reload(c, mons) PROVE IndInv'
  BY <1>14, ReloadActKeeps
<1> QED
  BY <1>1, <1>2, <1>3, <1>4, <1>6, <1>7, <1>8, <1>9, <1>10, <1>11, <1>12, <1>13, <1>14
  DEF Next

\* A stack of all windows exists, and SetToSeq gives one.
LEMMA StackExists == SetToSeq(Windows) \in Seq(Windows) /\ Stacked(SetToSeq(Windows))
<1> DEFINE n == Cardinality(Windows)
           q == SetToSeq(Windows)
<1>1. IsFiniteSet(Windows) /\ n \in Nat /\ ExistsBijection(1 .. n, Windows)
  BY X11Assumption, FS_CardinalityType
<1>2. IsFiniteSet(1 .. n) /\ Cardinality(1 .. n) = n
  <2> HIDE DEF n
  <2>1. n \in Int /\ 1 \in Int /\ (1 > n => n = 0)
    BY <1>1
  <2>2. IsFiniteSet(1 .. n) /\ Cardinality(1 .. n) = IF 1 > n THEN 0 ELSE n - 1 + 1
    BY <2>1, FS_Interval
  <2> QED
    BY <2>1, <2>2
<1>3. \E f \in [1 .. n -> Windows] : IsInjective(f)
  BY <1>1 DEF ExistsBijection, Bijection, Injection
<1>4. q \in [1 .. n -> Windows] /\ IsInjective(q)
  BY <1>3 DEF SetToSeq
<1> HIDE DEF q, n
<1>5. q \in Injection(1 .. n, Windows)
  BY <1>4 DEF Injection
<1>6. q \in Surjection(1 .. n, Windows)
  BY <1>1, <1>2, <1>5, FS_Injection DEF n
<1>7. Range(q) = Windows
  <2>1. \A w \in Windows : \E i \in 1 .. n : q[i] = w
    BY <1>6 DEF Surjection
  <2>2. Range(q) = {q[i] : i \in 1 .. n}
    BY <1>4 DEF Range
  <2> QED
    BY <1>4, <2>1, <2>2
<1>8. q \in Seq(Windows)
  BY <1>1, <1>4
<1>9. \A i, j \in DOMAIN q : q[i] = q[j] => i = j
  BY <1>4 DEF IsInjective
<1>10. Stacked(q)
  BY <1>7, <1>9 DEF Stacked
<1> QED
  BY <1>8, <1>10 DEF q

LEMMA Initially == Init => IndInv
<1> SUFFICES ASSUME Init PROVE IndInv
  OBVIOUS
<1>1. core \in Cores(Windows) /\ DOMAIN core.window = {}
  <2>1. PICK mons \in MonitorLists, c \in Configs :
               core = [wsman |-> init_from_defs(mons, c), settings |-> c,
                       workspaces |-> [ws \in DOMAIN c.pins |-> empty_workspace],
                       window |-> [w \in {} |-> new_window],
                       window_workspace |-> [w \in {} |-> 0], effects |-> <<>>]
    BY DEF Init
  <2>2. core \in Cores(Windows)
    <3>1. mons \in Seq(Outputs)
      BY TopologyAssumption
    <3> QED
      BY <2>1, <3>1, FirstCore
  <2>3. core.window = [w \in {} |-> new_window]
    BY <2>1
  <2> QED
    BY <2>2, <2>3
<1>2. x \in SoundServers
  <2>1. x = [alive |-> Windows, mapped |-> {}, selected |-> {}, fs_state |-> {},
             input |-> NoWindow, stack |-> SetToSeq(Windows)]
    BY DEF Init
  <2> DEFINE q == SetToSeq(Windows)
  <2>2. q \in Seq(Windows) /\ Stacked(q)
    BY StackExists
  <2> HIDE DEF q
  <2>3. x \in Servers
    BY <2>1, <2>2 DEF Servers, q
  <2>4. Books(x) /\ Stacked(x.stack)
    BY <2>1, <2>2 DEF Books, q
  <2> QED
    BY <2>3, <2>4 DEF SoundServers
<1>3. queue = <<>>
  BY DEF Init
<1>4. here \in Desktops /\ here.core = core /\ here.x = x /\ here.queue = <<>>
  BY <1>1, <1>2, <1>3 DEF here, Desktops
<1>5. Doomed({}, x.alive, <<>>)
  BY DEF Doomed
<1> QED
  BY <1>1, <1>4, <1>5 DEF IndInv, Fine
-----------------------------------------------------------------------------
(* What the runs check.                                                    *)

LEMMA BooksImplied == IndInv => TypeOK
<1> SUFFICES ASSUME IndInv PROVE TypeOK
  OBVIOUS
<1>1. core \in Cores(Windows) /\ x \in SoundServers /\ queue \in Seq(Events)
  BY HereIs DEF IndInv
<1>2. x \in Servers /\ Books(x) /\ Stacked(x.stack)
  BY <1>1 DEF SoundServers
<1>3. /\ core.settings \in Configs /\ DOMAIN core.window \in SUBSET Windows
      /\ core.window \in [DOMAIN core.window -> WindowStates]
  BY <1>1, CoreParts
<1>4. \A w \in DOMAIN core.window : core.window[w].pending_wm_unmaps \in Nat
  BY <1>3 DEF WindowStates
<1>5. Len(x.stack) = Cardinality(Windows)
  <2> DEFINE q == x.stack
             n == Len(q)
  <2>1. q \in Seq(Windows) /\ Stacked(q)
    BY <1>2 DEF Servers
  <2> HIDE DEF q
  <2>2. n \in Nat /\ DOMAIN q = 1 .. n /\ q \in [1 .. n -> Windows]
    BY <2>1
  <2> HIDE DEF n
  <2>3. q \in Injection(1 .. n, Windows)
    BY <2>1, <2>2 DEF Injection, IsInjective, Stacked
  <2>4. \A w \in Windows : \E i \in 1 .. n : q[i] = w
    BY <2>1, <2>2 DEF Stacked, Range
  <2>5. q \in Surjection(1 .. n, Windows)
    BY <2>2, <2>4 DEF Surjection
  <2>6. ExistsBijection(1 .. n, Windows)
    BY <2>3, <2>5 DEF ExistsBijection, Bijection
  <2> QED
    BY <2>2, <2>6, FS_CountingElements DEF n, q
<1>6. /\ x.mapped \cup x.selected \cup x.fs_state \subseteq x.alive
      /\ x.input \in Windows \cup {NoWindow} /\ Range(x.stack) = Windows
  BY <1>2 DEF Books, Servers, Stacked
<1>7. Range(queue) \subseteq Events
  <2>1. \A i \in DOMAIN queue : queue[i] \in Events
    BY <1>1
  <2> QED
    BY <2>1 DEF Range
<1> QED
  BY <1>3, <1>4, <1>5, <1>6, <1>7 DEF TypeOK, Events

LEMMA IndexImplied == IndInv => WindowsIndexed
<1> SUFFICES ASSUME IndInv PROVE WindowsIndexed
  OBVIOUS
<1>1. core \in Cores(Windows)
  BY HereIs DEF IndInv
<1>2. /\ Indexes(core) /\ ListsMatch(core)
      /\ DOMAIN core.wsman.ws_owner = DOMAIN core.workspaces
  BY <1>1, CoreParts DEF SoundCore
<1>3. Range(core.window_workspace) \subseteq DOMAIN core.workspaces
  BY <1>2 DEF Indexes, Range
<1>4. ASSUME NEW ws \in DOMAIN core.workspaces
      PROVE  LET s == core.workspaces[ws]
             IN  /\ Range(s.windows) =
                      {w \in DOMAIN core.window : core.window_workspace[w] = ws}
                 /\ \A i, j \in DOMAIN s.windows : s.windows[i] = s.windows[j] => i = j
                 /\ IF s.windows = <<>> THEN s.current = 0 ELSE s.current \in DOMAIN s.windows
  BY <1>2 DEF ListsMatch, Cursor
<1> QED
  BY <1>2, <1>3, <1>4 DEF WindowsIndexed, Indexes

\* Once nothing is queued, no report is on its way.
LEMMA RealImplied == IndInv => NoGhosts
<1> SUFFICES ASSUME IndInv, queue = <<>> PROVE DOMAIN core.window \subseteq x.alive
  BY DEF NoGhosts, Settled
<1>1. Doomed(DOMAIN core.window, x.alive, queue)
  BY HereIs DEF IndInv, Fine
<1>2. 1 .. Len(queue) = {}
  OBVIOUS
<1> QED
  BY <1>1, <1>2 DEF Doomed

\* The manager under Core, read by module WorkspaceTopology.
LEMMA TopologyImplied == IndInv => Topology!PoolsPartition /\ Topology!ShownConsistently
<1> SUFFICES ASSUME IndInv PROVE Topology!PoolsPartition /\ Topology!ShownConsistently
  OBVIOUS
<1>1. Sound(core.wsman, Len(core.workspaces)) /\ Len(core.workspaces) \in Nat
  BY HereIs, CoreParts DEF IndInv
<1>2. \A m, k \in DOMAIN core.wsman.monitors :
        core.wsman.active_ws[m] = core.wsman.active_ws[k] /\ core.wsman.active_ws[m] > 0 => m = k
  BY <1>1, ShownOnce
<1>3. ListsOwned(core.wsman) /\ AllOwned(core.wsman) /\ ActiveInPool(core.wsman)
      /\ Refreshed(core.wsman)
  BY <1>1 DEF Sound
<1>4. Topology!ListsOwned(core.wsman)
  BY <1>3 DEF ListsOwned, Range, Topology!ListsOwned, Topology!Range
<1>5. Topology!AllOwned(core.wsman)
  BY <1>3 DEF AllOwned, is_mon_valid, Topology!AllOwned, Topology!is_mon_valid
<1>6. Topology!ActiveInPool(core.wsman)
  BY <1>3 DEF ActiveInPool, Topology!ActiveInPool
<1>7. \A m \in DOMAIN core.wsman.monitors :
        core.wsman.active_ws[m] = Topology!active_ws_of_monitor(core.wsman, m)
  BY <1>3 DEF Refreshed, active_ws_of_monitor, Topology!active_ws_of_monitor
<1> QED
  BY <1>2, <1>4, <1>5, <1>6, <1>7 DEF Topology!PoolsPartition, Topology!ShownConsistently

\* Through every map, unmap, destroy, command, hot-plug and reload, in any
\* order and with any events and effects pending, every managed window is in
\* the list of one workspace, the one the index gives, and every cursor points
\* into its list (Core::dispatch, update_workspace_defs); counters of expected
\* unmaps never go below zero (consume_wm_unmap), and the window manager never
\* makes the server keep a destroyed window mapped, selected or stacked twice.
THEOREM AlwaysSound == Spec => []WindowsSound
BY Initially, Preserved, BooksImplied, IndexImplied, PTL DEF Spec, WindowsSound

\* No window a client destroyed stays managed once nothing is pending, even if
\* it was destroyed before its own MapRequest was handled
\* (handle_map_request, handle_destroy_notify).
THEOREM AlwaysReal == Spec => []WindowsReal
BY Initially, Preserved, BooksImplied, IndexImplied, RealImplied, PTL
DEF Spec, WindowsSound, WindowsReal

\* What WorkspaceTopology proves about pools and monitors holds in the window
\* manager as a whole: no event, effect or EWMH message breaks it.
THEOREM TopologyKept == Spec => [](Topology!PoolsPartition /\ Topology!ShownConsistently)
BY Initially, Preserved, TopologyImplied, PTL DEF Spec
=============================================================================
