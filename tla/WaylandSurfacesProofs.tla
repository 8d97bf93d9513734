------------------------ MODULE WaylandSurfacesProofs -------------------------
(***************************************************************************)
(* Proofs about WaylandSurfaces.  One inductive invariant relates          *)
(* wl_surfaces, surfaces, seat, output and X windows to one another and to *)
(* what Xwayland has sent and the display server has not read yet.         *)
(***************************************************************************)
EXTENDS WaylandSurfaces, FiniteSetTheorems, SequenceTheorems, WellFoundedInduction, TLAPS


\* What a wl_surface is.
SurfRec == [life : {"none", "alive", "dead"}, buffer : BOOLEAN,
            role : {"none", "xdg_surface", "toplevel"}, mapped : BOOLEAN]

\* What a surface of DisplayState is; wl is the wl_surface behind it.
SurfaceRec == [mapped : BOOLEAN, sized : BOOLEAN, visible : BOOLEAN, raised : BOOLEAN,
               border : {"none"}, place : {Unplaced}, wl : Wl]

Surfaces == UNION {[I -> SurfaceRec] : I \in SUBSET Nat}

\* DisplayState without a connection: it has surfaces by id.
Display == [surfaces : Surfaces, next_id : Nat \ {0},
            seat : {None}, intercepts : SUBSET {"key"}, grabbed : BOOLEAN,
            overlays : {[o \in {} |-> FALSE]}, client : {None}, chan : {<<>>}]

\* The display has the surfaces it had, backed as they were.
SameBacks(q, r) ==
  /\ r.next_id = q.next_id /\ DOMAIN r.surfaces = DOMAIN q.surfaces
  /\ \A i \in DOMAIN q.surfaces : r.surfaces[i].wl = q.surfaces[i].wl

\* One surface more, backed by n, has the next id.
Adds(q, r, n) ==
  /\ r.next_id = q.next_id + 1 /\ DOMAIN r.surfaces = DOMAIN q.surfaces \cup {q.next_id}
  /\ \A i \in DOMAIN r.surfaces : r.surfaces[i].wl = IF i = q.next_id THEN n ELSE q.surfaces[i].wl

\* The surface id is gone.
Drops(q, r, id) ==
  /\ r.next_id = q.next_id /\ DOMAIN r.surfaces = DOMAIN q.surfaces \ {id}
  /\ \A i \in DOMAIN r.surfaces : r.surfaces[i].wl = q.surfaces[i].wl

\* The surface id is backed by n from now on.
Moves(q, r, id, n) ==
  /\ r.next_id = q.next_id /\ DOMAIN r.surfaces = DOMAIN q.surfaces
  /\ \A i \in DOMAIN r.surfaces : r.surfaces[i].wl = IF i = id THEN n ELSE q.surfaces[i].wl

\* A display state has surfaces by id and is not connected.
LEMMA SurfacesMap ==
  ASSUME NEW I \in SUBSET Nat, NEW f \in [I -> SurfaceRec]
  PROVE  f \in Surfaces
BY DEF Surfaces

\* What a display state consists of.
LEMMA DisplayParts ==
  ASSUME NEW q \in Display
  PROVE  /\ q.surfaces \in [DOMAIN q.surfaces -> SurfaceRec] /\ DOMAIN q.surfaces \subseteq Nat
         /\ \A id \in DOMAIN q.surfaces : q.surfaces[id] \in SurfaceRec
         /\ q.next_id \in Nat \ {0} /\ q.client = None
BY DEF Display, Surfaces

\* Changes of DisplayState by the parts they touch.
with_surfaces(q, f, k) == [q EXCEPT !.surfaces = f, !.next_id = k]

\* Other surfaces make another display state.
LEMMA SetSurfaces ==
  ASSUME NEW q \in Display, NEW f \in Surfaces, NEW k \in Nat \ {0}
  PROVE  LET r == with_surfaces(q, f, k) IN r \in Display /\ r.surfaces = f /\ r.next_id = k
BY DEF Display, with_surfaces

with_surface(q, id, v) == [q EXCEPT !.surfaces[id] = v]

\* So does another record for one surface.
LEMMA SetSurface ==
  ASSUME NEW q \in Display, NEW id \in DOMAIN q.surfaces, NEW v \in SurfaceRec
  PROVE  LET r == with_surface(q, id, v)
         IN  r \in Display /\ r.next_id = q.next_id /\ r.client = None
             /\ DOMAIN r.surfaces = DOMAIN q.surfaces
             /\ \A i \in DOMAIN q.surfaces : r.surfaces[i] = IF i = id THEN v ELSE q.surfaces[i]
<1> DEFINE r == with_surfaces(q, [q.surfaces EXCEPT ![id] = v], q.next_id)
<1>1. with_surface(q, id, v) = r
  BY DEF Display, with_surface, with_surfaces
<1>2. r \in Display /\ r.surfaces = [q.surfaces EXCEPT ![id] = v] /\ r.next_id = q.next_id
  <2>1. [q.surfaces EXCEPT ![id] = v] \in [DOMAIN q.surfaces -> SurfaceRec]
    BY DisplayParts
  <2>2. [q.surfaces EXCEPT ![id] = v] \in Surfaces /\ q.next_id \in Nat \ {0}
    BY <2>1, SurfacesMap, DisplayParts
  <2> QED
    BY <2>2, SetSurfaces
<1> QED
  BY <1>1, <1>2, DisplayParts

\* surface_mapped does not touch what is behind the surfaces.
LEMMA SurfaceMapped ==
  ASSUME NEW q \in Display, NEW id
  PROVE  surface_mapped(q, id) \in Display /\ SameBacks(q, surface_mapped(q, id))
<1>1. CASE id \in DOMAIN q.surfaces
  <2> DEFINE v == [q.surfaces[id] EXCEPT !.mapped = TRUE]
             r == with_surface(q, id, v)
  <2>1. v \in SurfaceRec /\ v.wl = q.surfaces[id].wl
    <3>1. q.surfaces[id] \in SurfaceRec
      BY <1>1, DisplayParts
    <3> QED
      BY <3>1 DEF SurfaceRec
  <2>2. surface_mapped(q, id) = r
    BY <1>1, DisplayParts DEF surface_mapped, has_surface, send_event, Display, with_surface, with_surfaces
  <2> HIDE DEF v
  <2> QED
    BY <1>1, <2>1, <2>2, SetSurface DEF SameBacks
<1>2. CASE id \notin DOMAIN q.surfaces
  BY <1>2 DEF surface_mapped, has_surface, SameBacks
<1> QED
  BY <1>1, <1>2

\* Nor does surface_committed.
LEMMA SurfaceCommitted ==
  ASSUME NEW q \in Display, NEW id
  PROVE  surface_committed(q, id, TRUE) \in Display /\ SameBacks(q, surface_committed(q, id, TRUE))
<1>1. CASE id \in DOMAIN q.surfaces
  <2> DEFINE v == [q.surfaces[id] EXCEPT !.sized = TRUE]
             r == with_surface(q, id, v)
  <2>1. v \in SurfaceRec /\ v.wl = q.surfaces[id].wl
    <3>1. q.surfaces[id] \in SurfaceRec
      BY <1>1, DisplayParts
    <3> QED
      BY <3>1 DEF SurfaceRec
  <2>2. surface_committed(q, id, TRUE) = r
    BY <1>1, DisplayParts DEF surface_committed, has_surface, send_event, Display, with_surface, with_surfaces
  <2> HIDE DEF v
  <2>3. r \in Display /\ SameBacks(q, r)
    BY <1>1, <2>1, SetSurface DEF SameBacks
  <2> QED
    BY <2>2, <2>3
<1>2. CASE id \notin DOMAIN q.surfaces
  BY <1>2 DEF surface_committed, has_surface, SameBacks
<1> QED
  BY <1>1, <1>2

\* set_wl_surface_id changes what is behind one surface.
LEMMA SetWlSurfaceId ==
  ASSUME NEW q \in Display, NEW id \in DOMAIN q.surfaces, NEW n \in Wl
  PROVE  set_wl_surface_id(q, id, n) \in Display /\ Moves(q, set_wl_surface_id(q, id, n), id, n)
<1> DEFINE v == [q.surfaces[id] EXCEPT !.wl = n]
           r == with_surface(q, id, v)
<1>1. v \in SurfaceRec /\ v.wl = n
  <2>1. q.surfaces[id] \in SurfaceRec
    BY DisplayParts
  <2> QED
    BY <2>1 DEF SurfaceRec
<1>2. set_wl_surface_id(q, id, n) = r
  BY DisplayParts DEF set_wl_surface_id, has_surface, Display, with_surface
<1> HIDE DEF v
<1> QED
  BY <1>1, <1>2, SetSurface DEF Moves

\* add_surface gives the next id to one surface more.
LEMMA AddSurface ==
  ASSUME NEW q \in Display, NEW n \in Wl
  PROVE  add_surface(q, n) \in Display /\ Adds(q, add_surface(q, n), n)
<1> DEFINE f == put(q.surfaces, q.next_id, new_surface(n))
           k == q.next_id + 1
<1>1. new_surface(n) \in SurfaceRec /\ new_surface(n).wl = n
  BY DEF new_surface, SurfaceRec
<1>2. /\ f \in [DOMAIN q.surfaces \cup {q.next_id} -> SurfaceRec]
      /\ DOMAIN q.surfaces \cup {q.next_id} \in SUBSET Nat /\ k \in Nat \ {0}
  BY <1>1, DisplayParts DEF put
<1>3. add_surface(q, n) = with_surfaces(q, f, k)
  BY DisplayParts DEF add_surface, send_event, Display, with_surface, with_surfaces
<1>4. \A i \in DOMAIN f : f[i].wl = IF i = q.next_id THEN n ELSE q.surfaces[i].wl
  BY <1>1 DEF put
<1> HIDE DEF f, k
<1>5. add_surface(q, n) \in Display /\ add_surface(q, n).surfaces = f /\ add_surface(q, n).next_id = k
  <2>1. f \in Surfaces
    BY <1>2, SurfacesMap
  <2> QED
    BY <1>2, <1>3, <2>1, SetSurfaces
<1> QED
  BY <1>2, <1>4, <1>5 DEF Adds, k

\* So does an X window, whose wl_surface is set in a second call.
LEMMA AddWindow ==
  ASSUME NEW q \in Display, NEW n \in Wl
  PROVE  LET r == set_wl_surface_id(add_surface(q, None), q.next_id, n)
         IN  r \in Display /\ Adds(q, r, n)
<1> DEFINE g == put(q.surfaces, q.next_id, new_surface(None))
           v == [new_surface(None) EXCEPT !.wl = n]
           f == [g EXCEPT ![q.next_id] = v]
           k == q.next_id + 1
           r == set_wl_surface_id(add_surface(q, None), q.next_id, n)
<1>1. v \in SurfaceRec /\ v.wl = n
  BY DEF new_surface, SurfaceRec
<1>2. DOMAIN g = DOMAIN q.surfaces \cup {q.next_id} /\ g[q.next_id] = new_surface(None)
      /\ \A i \in DOMAIN g : i # q.next_id => g[i] = q.surfaces[i]
  BY DEF put
<1> HIDE DEF v, g
<1>3. /\ f \in [DOMAIN q.surfaces \cup {q.next_id} -> SurfaceRec]
      /\ DOMAIN q.surfaces \cup {q.next_id} \in SUBSET Nat /\ k \in Nat \ {0}
      /\ \A i \in DOMAIN f : f[i] = IF i = q.next_id THEN v ELSE q.surfaces[i]
  <2>1. DOMAIN q.surfaces \cup {q.next_id} \in SUBSET Nat /\ k \in Nat \ {0}
    BY DisplayParts
  <2>2. DOMAIN f = DOMAIN q.surfaces \cup {q.next_id}
    BY <1>2
  <2>3. \A i \in DOMAIN f : f[i] = IF i = q.next_id THEN v ELSE q.surfaces[i]
    BY <1>2
  <2>4. \A i \in DOMAIN f : f[i] \in SurfaceRec
    BY <1>1, <2>2, <2>3, DisplayParts
  <2>5. f = [i \in DOMAIN f |-> f[i]]
    OBVIOUS
  <2> HIDE DEF f, k
  <2> QED
    BY <2>1, <2>2, <2>3, <2>4, <2>5
<1>4. r = with_surfaces(q, f, k)
  <2>1. add_surface(q, None) = with_surfaces(q, g, k)
    BY DisplayParts DEF add_surface, send_event, Display, with_surfaces, g
  <2>2. add_surface(q, None).surfaces = g
    BY <2>1 DEF Display, with_surfaces
  <2>3. r = [add_surface(q, None) EXCEPT !.surfaces = [g EXCEPT ![q.next_id] = [new_surface(None) EXCEPT !.wl = n]]]
    BY <1>2, <2>1, <2>2 DEF set_wl_surface_id, has_surface, Display, with_surfaces
  <2> QED
    BY <2>1, <2>3 DEF Display, with_surfaces, v
<1> HIDE DEF f, k, r
<1>5. r \in Display /\ r.surfaces = f /\ r.next_id = k
  BY <1>3, <1>4, SurfacesMap, SetSurfaces
<1>6. r \in Display /\ Adds(q, r, n)
  BY <1>1, <1>3, <1>5 DEF Adds, k
<1> QED
  BY <1>6 DEF r

\* surface_destroyed takes one surface away.
LEMMA SurfaceDestroyed ==
  ASSUME NEW q \in Display, NEW id \in DOMAIN q.surfaces
  PROVE  surface_destroyed(q, id) \in Display /\ Drops(q, surface_destroyed(q, id), id)
<1> DEFINE f == Restrict(q.surfaces, DOMAIN q.surfaces \ {id})
<1>2. /\ f \in [DOMAIN q.surfaces \ {id} -> SurfaceRec] /\ DOMAIN q.surfaces \ {id} \in SUBSET Nat
      /\ \A i \in DOMAIN q.surfaces \ {id} : f[i] = q.surfaces[i]
  BY DisplayParts DEF Restrict
<1>3. surface_destroyed(q, id) = with_surfaces(q, f, q.next_id)
  BY DisplayParts DEF surface_destroyed, has_surface, send_event, Display, with_surface, with_surfaces
<1> HIDE DEF f
<1>4. surface_destroyed(q, id) \in Display /\ surface_destroyed(q, id).surfaces = f
      /\ surface_destroyed(q, id).next_id = q.next_id
  <2>1. f \in Surfaces
    BY <1>2, SurfacesMap
  <2> QED
    BY <1>3, <2>1, SetSurfaces, DisplayParts
<1> QED
  BY <1>2, <1>4 DEF Drops

\* The types of the other variables.
SeatRec == [keyboards : [Clients -> Nat], pointers : [Clients -> Nat], focused : Wl \cup {None},
            pointed : Wl \cup {None}, entered : SUBSET Wl, down : SUBSET Wl,
            mute : BOOLEAN, cut : SUBSET Wl, adrift : BOOLEAN]

OutRec == [uses : {"keyboard", "pointer"}, over : Nat \cup {None}, kept : BOOLEAN, key : BOOLEAN]

naming == {"serial", "id"}
XNames == Range(XSurfaces) \cup {None}
XEvent == [type : {"create", "map", "unmap", "destroy"}, window : XWindows]
          \cup [type : naming, window : XWindows, wl : Range(XSurfaces)]
WlRequest == [type : {"create", "destroy"}, wl : Range(XSurfaces)]
WinRec == [mapped : BOOLEAN, wl : XNames, sid : Nat \cup {None}]
XRec   == [st : {"none", "unmapped", "asked", "mapping", "mapped", "gone"}, wl : XNames]
Windows == UNION {[W -> WinRec] : W \in SUBSET XWindows}

XwlRec == [up : BOOLEAN, names : naming, x : [XWindows -> XRec], win : Windows,
           managed : SUBSET Nat, xq : Seq(XEvent), wq : Seq(WlRequest), made : Nat,
           early : SUBSET XWindows, again : SUBSET XWindows]

\* The inductive invariant, by the parts of the state it relates.
\* f: surf, t: seat, o: out, q: d, x: xwl.
alive(f, n) == n \in Wl /\ f[n].life = "alive"

\* The client of the surface has a keyboard; a pointer.
keyed(t, n)    == t.keyboards[client_of(n)] > 0
pointing(t, n) == t.pointers[client_of(n)] > 0

\* Only the surface in focus was told that it has the keyboard, and takes the
\* key for pressed, but for those that were cut off; a living one is in focus
\* only with a keyboard.
KeyboardInv(f, t) ==
  /\ (t.entered \cup t.down) \ t.cut \subseteq {t.focused} /\ t.focused \notin t.cut
  /\ \A n \in t.entered \cup t.down \cup t.cut : alive(f, n) /\ keyed(t, n)
  /\ alive(f, t.focused) => keyed(t, t.focused)
  /\ t.focused # None => f[t.focused].life # "none"
  /\ ~ t.mute /\ alive(f, t.focused) => t.focused \in t.entered

\* An intercepted key is down, and no surface takes it for pressed; nor one
\* that is not down.
KeyInv(t, o) ==
  /\ o.kept => o.key
  /\ ~ o.key \/ o.kept => t.down \subseteq t.cut

\* Surfaces have ids that were given out.
FreshInv(q) == DOMAIN q.surfaces \subseteq 1 .. (q.next_id - 1)

\* A living surface has the pointer only with a pointer; unless it was moved
\* away without a word, the output has the pointer over it.
PointerInv(q, f, t, o) ==
  /\ alive(f, t.pointed) => pointing(t, t.pointed)
  /\ t.pointed # None => f[t.pointed].life # "none"
  /\ o.over \in 1 .. (q.next_id - 1) \cup {None}
  /\ alive(f, t.pointed) /\ ~ t.adrift =>
       o.over \in DOMAIN q.surfaces /\ q.surfaces[o.over].wl = t.pointed

\* Every toplevel is the wl_surface of exactly one surface.
NativeInv(q, f) ==
  /\ \A id \in DOMAIN q.surfaces :
       q.surfaces[id].wl \in Native => f[q.surfaces[id].wl].role = "toplevel"
  /\ \A n \in Native : f[n].role = "toplevel" => \E id \in DOMAIN q.surfaces : q.surfaces[id].wl = n
  /\ \A i, j \in DOMAIN q.surfaces :
       q.surfaces[i].wl = q.surfaces[j].wl /\ q.surfaces[i].wl \in Native => i = j

\* Every X window that is mapped and has a wl_surface is one surface, backed by
\* that wl_surface, and no other surface is for X windows.
WindowInv(q, x) ==
  /\ x.managed = {x.win[w].sid : w \in DOMAIN x.win} \ {None}
  /\ x.managed = {id \in DOMAIN q.surfaces : q.surfaces[id].wl \notin Native}
  /\ \A w \in DOMAIN x.win :
       /\ x.win[w].sid # None <=> x.win[w].mapped /\ x.win[w].wl # None
       /\ x.win[w].sid # None =>
            x.win[w].sid \in DOMAIN q.surfaces /\ q.surfaces[x.win[w].sid].wl = x.win[w].wl
  /\ \A v, w \in DOMAIN x.win : x.win[v].sid = x.win[w].sid /\ x.win[v].sid # None => v = w

\* What is or becomes of a wl_surface that was not there: it is alive.
ages(f, g) ==
  \A n \in Wl : g[n].life = f[n].life \/ (f[n].life = "none" /\ g[n].life = "alive")

\* The seat has not changed in what concerns the keyboard; the pointer.
SameKeyboard(t, u) ==
  /\ u.keyboards = t.keyboards /\ u.focused = t.focused /\ u.entered = t.entered
  /\ u.down = t.down /\ u.mute = t.mute /\ u.cut = t.cut

SamePointer(t, u) ==
  u.pointers = t.pointers /\ u.pointed = t.pointed /\ u.adrift = t.adrift

\* None is neither a wl_surface nor an id.
LEMMA NoneApart == None \notin Wl /\ None \notin Nat
BY SurfaceAssumption

\* What a seat consists of.
LEMMA SeatParts ==
  ASSUME NEW t \in SeatRec
  PROVE  /\ t.keyboards \in [Clients -> Nat] /\ t.pointers \in [Clients -> Nat]
         /\ t.focused \in Wl \cup {None} /\ t.pointed \in Wl \cup {None}
         /\ t.entered \in SUBSET Wl /\ t.down \in SUBSET Wl
         /\ t.mute \in BOOLEAN /\ t.cut \in SUBSET Wl /\ t.adrift \in BOOLEAN
BY DEF SeatRec

\* What surfaces know of the keyboard survives new surfaces.
LEMMA KeyboardFrame ==
  ASSUME NEW f \in [Wl -> SurfRec], NEW g \in [Wl -> SurfRec], NEW t \in SeatRec, NEW u \in SeatRec,
         KeyboardInv(f, t), ages(f, g), SameKeyboard(t, u)
  PROVE  KeyboardInv(g, u)
<1>1. t.focused \in Wl \/ t.focused = None
  BY SeatParts
<1>2. \A n : alive(f, n) => alive(g, n)
  BY DEF alive, ages
<1>3. alive(g, t.focused) => alive(f, t.focused)
  BY <1>1, NoneApart DEF alive, ages, KeyboardInv
<1>4. t.focused # None => g[t.focused].life # "none"
  BY <1>1 DEF ages, KeyboardInv
<1> QED
  BY <1>1, <1>2, <1>3, <1>4 DEF KeyboardInv, SameKeyboard, keyed

\* So does what holds of the pointer, if the same surfaces are there.
LEMMA PointerFrame ==
  ASSUME NEW f \in [Wl -> SurfRec], NEW g \in [Wl -> SurfRec], NEW t \in SeatRec, NEW u \in SeatRec,
         NEW q, NEW r, NEW o, NEW p, 
         PointerInv(q, f, t, o), ages(f, g), SamePointer(t, u), SameBacks(q, r), p.over = o.over
  PROVE  PointerInv(r, g, u, p)
<1>1. t.pointed \in Wl \/ t.pointed = None
  BY SeatParts
<1>3. alive(g, t.pointed) => alive(f, t.pointed)
  BY <1>1, NoneApart DEF alive, ages, PointerInv
<1>4. t.pointed # None => g[t.pointed].life # "none"
  BY <1>1 DEF ages, PointerInv
<1> QED
  BY <1>1, <1>3, <1>4 DEF PointerInv, SamePointer, SameBacks, pointing

\* Toplevels and surfaces still match if neither changed.
LEMMA NativeFrame ==
  ASSUME NEW q, NEW r, NEW f, NEW g,
         NativeInv(q, f), SameBacks(q, r), 
         \A n \in Native : g[n].role = "toplevel" <=> f[n].role = "toplevel"
  PROVE  NativeInv(r, g)
BY DEF NativeInv, SameBacks

\* So do X windows and surfaces.
LEMMA WindowFrame ==
  ASSUME NEW q, NEW r, NEW x, NEW y,
         WindowInv(q, x), SameBacks(q, r), y.win = x.win, y.managed = x.managed
  PROVE  WindowInv(r, y)
<1>1. {id \in DOMAIN r.surfaces : r.surfaces[id].wl \notin Native}
      = {id \in DOMAIN q.surfaces : q.surfaces[id].wl \notin Native}
  BY DEF SameBacks
<1> QED
  BY <1>1 DEF WindowInv, SameBacks

\* Ids stay in range if none is new.
LEMMA FreshFrame ==
  ASSUME NEW q, NEW r, FreshInv(q), SameBacks(q, r)
  PROVE  FreshInv(r)
BY DEF FreshInv, SameBacks

\* To have the same surfaces is reflexive,
LEMMA SameBacksSame ==
  ASSUME NEW q
  PROVE  SameBacks(q, q)
BY DEF SameBacks

\* and transitive.
LEMMA SameBacksTwice ==
  ASSUME NEW q, NEW r, NEW p, SameBacks(q, r), SameBacks(r, p)
  PROVE  SameBacks(q, p)
BY DEF SameBacks

\* No surface takes the key for pressed if none did.
LEMMA KeyFrame ==
  ASSUME NEW t, NEW u, NEW o, NEW p, KeyInv(t, o), u.down \ u.cut \subseteq t.down \ t.cut,
         p.kept = o.kept, p.key = o.key
  PROVE  KeyInv(u, p)
BY DEF KeyInv

\* What is on its way from Xwayland, in the order it was sent.  Event a of a
\* window may be followed by event b of the same window.
follows(a, b) ==
  \/ a \in {"create", "unmap"} /\ b \in {"map", "destroy"}
  \/ a \in naming /\ b = "unmap"

\* The event that names the wl_surface of a window was not read: the window is
\* not known to have it, and may have the one of an earlier mapping.
unread(x, e) ==
  /\ e.type = x.names /\ e.window \notin x.early /\ x.win[e.window].wl # e.wl
  /\ e.window \in x.again <=> x.win[e.window].wl # None

\* It was read: the window has its wl_surface unless it was named in vain.
in_vain(x, w) == w \in x.early \/ (x.names = "serial" /\ w \in x.again)

read(x, w) ==
  /\ ~ in_vain(x, w) => x.win[w].wl = x.x[w].wl
  /\ in_vain(x, w) => x.win[w].wl # x.x[w].wl /\ (w \in x.again <=> x.win[w].wl # None)

\* The histories of window v are the same.
Told(x, y, v) == (v \in y.early <=> v \in x.early) /\ (v \in y.again <=> v \in x.again)

\* What XWindowManager knows of the window fits the event.
expected(x, e) ==
  IF e.type = "create" THEN e.window \notin DOMAIN x.win
  ELSE /\ e.window \in DOMAIN x.win
       /\ x.win[e.window].mapped <=> e.type \in naming \cup {"unmap"}
       /\ e.type \in naming => unread(x, e)

\* What the event leaves is what the window is for Xwayland.
leaves(x, e) ==
  LET v == x.x[e.window] IN
  /\ e.type \in {"create", "unmap"} => v.st = "unmapped"
  /\ e.type = "map" => v.st = "asked"
  /\ e.type = "destroy" => v.st = "gone"
  /\ e.type \in naming => v.st = "mapped" /\ v.wl = e.wl

\* No event of the window is on its way: XWindowManager knows it as it is.
rests(x, w) ==
  /\ x.x[w].st # "asked"
  /\ w \in DOMAIN x.win <=> x.x[w].st \in {"unmapped", "mapping", "mapped"}
  /\ w \in DOMAIN x.win => (x.win[w].mapped <=> x.x[w].st # "unmapped")
  /\ x.x[w].st = "mapped" => read(x, w)

\* The first and the last event of a window; two events in succession.
first(q, i) == \A k \in 1 .. (i - 1) : q[k].window # q[i].window
last(q, i)  == \A k \in (i + 1) .. Len(q) : q[k].window # q[i].window
next(q, i, j) == i < j /\ q[i].window = q[j].window
                 /\ \A k \in (i + 1) .. (j - 1) : q[k].window # q[i].window

\* The X events on their way lead from what XWindowManager knows of each
\* window to what the window is; only the first event of a window may name
\* its wl_surface.
EventInv(x) ==
  /\ x.up \/ x.xq = <<>>
  /\ x.up =>
    /\ \A i, j \in 1 .. Len(x.xq) :
         i < j /\ x.xq[i].window = x.xq[j].window => x.xq[j].type \notin naming
    /\ \A i, j \in 1 .. Len(x.xq) : next(x.xq, i, j) => follows(x.xq[i].type, x.xq[j].type)
    /\ \A i \in 1 .. Len(x.xq) : first(x.xq, i) => expected(x, x.xq[i])
    /\ \A i \in 1 .. Len(x.xq) : last(x.xq, i) => leaves(x, x.xq[i])
    /\ \A w \in XWindows : (\A k \in 1 .. Len(x.xq) : x.xq[k].window # w) => rests(x, w)

\* Requests on their way, and what they say of a wl_surface: it is or will be
\* destroyed; it was made by Xwayland; window w has it now.
pends(q, i, type, n) == i \in 1 .. Len(q) /\ q[i] = [type |-> type, wl |-> n]
retired(f, q, n) == f[n].life = "dead" \/ \E i \in 1 .. Len(q) : pends(q, i, "destroy", n)
made(x, n) == \E k \in 1 .. x.made : XSurfaces[k] = n
has_now(x, w, n) == x.x[w].st = "mapped" /\ x.x[w].wl = n

\* Xwayland made the wl_surfaces it speaks of, each of them once: one whose
\* creation is on its way is not there yet.
MadeInv(f, x) ==
  /\ x.made <= Len(XSurfaces)
  /\ \A i \in 1 .. Len(x.wq) : made(x, x.wq[i].wl)
  /\ \A n \in Range(XSurfaces) : made(x, n) \/ f[n].life = "none"
  /\ \A i \in 1 .. Len(x.wq) : x.wq[i].type = "create" =>
       /\ f[x.wq[i].wl].life = "none"
       /\ \A j \in 1 .. Len(x.wq) :
            x.wq[j].wl = x.wq[i].wl => i <= j /\ (i # j => x.wq[j].type = "destroy")
  /\ \A w \in XWindows : IF x.x[w].st = "mapped" THEN made(x, x.x[w].wl) ELSE x.x[w].wl = None

\* The old wl_surface is gone before the new one is there.
superseded(f, q, old, n) ==
  \/ f[old].life = "dead"
  \/ \E a, b \in 1 .. Len(q) : a < b /\ pends(q, a, "destroy", old) /\ pends(q, b, "create", n)

\* The wl_surface XWindowManager has for a window is its own or on its way out.
Held(f, x, w) ==
  x.win[w].wl # None => has_now(x, w, x.win[w].wl) \/ retired(f, x.wq, x.win[w].wl)

\* So is the one an event names; what the window had before is gone by then.
Named(f, x, e) ==
  /\ has_now(x, e.window, e.wl) \/ retired(f, x.wq, e.wl)
  /\ e.window \in DOMAIN x.win /\ x.win[e.window].wl \notin {None, e.wl} =>
       superseded(f, x.wq, x.win[e.window].wl, e.wl)

\* Both hold as long as Xwayland runs.
OldInv(f, x) ==
  x.up => /\ \A w \in DOMAIN x.win : Held(f, x, w)
          /\ \A i \in 1 .. Len(x.xq) : x.xq[i].type \in naming => Named(f, x, x.xq[i])

\* X events and Wayland requests are read in any order, and still agree.
OrderInv(f, x) == MadeInv(f, x) /\ OldInv(f, x)

\* The types of the variables.
Typed ==
  /\ d \in Display /\ surf \in [Wl -> SurfRec] /\ seat \in SeatRec
  /\ out \in OutRec /\ xwl \in XwlRec

\* What holds between the parts of the state.
Sound ==
  /\ KeyboardInv(surf, seat) /\ KeyInv(seat, out) /\ FreshInv(d)
  /\ PointerInv(d, surf, seat, out) /\ NativeInv(d, surf) /\ WindowInv(d, xwl)
  /\ EventInv(xwl) /\ OrderInv(surf, xwl)

\* The inductive invariant.
IInv == Typed /\ Sound

\* What a wl_surface consists of.
LEMMA SurfParts ==
  ASSUME NEW v \in SurfRec
  PROVE  v.life \in {"none", "alive", "dead"} /\ v.role \in {"none", "xdg_surface", "toplevel"}
         /\ v.buffer \in BOOLEAN /\ v.mapped \in BOOLEAN
BY DEF SurfRec

\* Wl_surfaces are of Xwayland or of another client, never of both.
LEMMA XApart ==
  /\ Wl = Native \cup Range(XSurfaces)
  /\ \A n \in Native : n \in Wl /\ n \notin Range(XSurfaces)
  /\ \A n \in Range(XSurfaces) : n \in Wl /\ n \notin Native /\ n # None
BY SurfaceAssumption DEF Wl

\* What is known of Xwayland.
LEMMA XwlParts ==
  ASSUME NEW x \in XwlRec
  PROVE  /\ x.up \in BOOLEAN /\ x.names \in naming /\ x.x \in [XWindows -> XRec]
         /\ x.win \in [DOMAIN x.win -> WinRec] /\ DOMAIN x.win \subseteq XWindows
         /\ x.managed \in SUBSET Nat /\ x.xq \in Seq(XEvent) /\ x.wq \in Seq(WlRequest)
         /\ x.made \in Nat /\ x.early \in SUBSET XWindows /\ x.again \in SUBSET XWindows
BY DEF XwlRec, Windows

\* The requests on their way are requests about wl_surfaces of Xwayland.
LEMMA WqParts ==
  ASSUME NEW x \in XwlRec
  PROVE  /\ Len(x.wq) \in Nat
         /\ \A i \in 1 .. Len(x.wq) : /\ x.wq[i] \in WlRequest /\ x.wq[i].wl \in Range(XSurfaces)
                                       /\ x.wq[i].type \in {"create", "destroy"}
<1>1. x.wq \in Seq(WlRequest)
  BY XwlParts
<1>2. Len(x.wq) \in Nat /\ \A i \in 1 .. Len(x.wq) : x.wq[i] \in WlRequest
  BY <1>1
<1> QED
  BY <1>2 DEF WlRequest

\* The events on their way are events of X windows.
LEMMA XqParts ==
  ASSUME NEW x \in XwlRec
  PROVE  /\ Len(x.xq) \in Nat
         /\ \A i \in 1 .. Len(x.xq) :
              /\ x.xq[i] \in XEvent /\ x.xq[i].window \in XWindows
              /\ x.xq[i].type \in {"create", "map", "unmap", "destroy"} \cup naming
              /\ x.xq[i].type \in naming => x.xq[i].wl \in Range(XSurfaces)
<1>1. x.xq \in Seq(XEvent)
  BY XwlParts
<1>2. Len(x.xq) \in Nat /\ \A i \in 1 .. Len(x.xq) : x.xq[i] \in XEvent
  BY <1>1
<1>3. \A e \in XEvent : e.window \in XWindows /\ e.type \in {"create", "map", "unmap", "destroy"} \cup naming
                        /\ (e.type \in naming => e.wl \in Range(XSurfaces))
  BY DEF XEvent, naming
<1> QED
  BY <1>2, <1>3

\* Nothing is out of order if the wl_surfaces of Xwayland live on as they do.
LEMMA OrderFrame ==
  ASSUME NEW f \in [Wl -> SurfRec], NEW g \in [Wl -> SurfRec], NEW x \in XwlRec, OrderInv(f, x),
         \A n \in Range(XSurfaces) : g[n].life = f[n].life
  PROVE  OrderInv(g, x)
<1>1. MadeInv(g, x)
  BY WqParts DEF OrderInv, MadeInv
<1>2. \A w \in DOMAIN x.win : x.win[w].wl = None \/ x.win[w].wl \in Range(XSurfaces)
  BY XwlParts DEF WinRec, XNames
<1>3. OldInv(g, x)
  BY <1>2, XqParts, XwlParts DEF OrderInv, OldInv, retired, Held, Named, superseded
<1> QED
  BY <1>1, <1>3 DEF OrderInv

\* A step that concerns only the wl_surface of a client other than Xwayland.
LEMMA NativeStep ==
  ASSUME NEW n \in Native, NEW v \in SurfRec, IInv, surf' = [surf EXCEPT ![n] = v]
  PROVE  /\ surf' \in [Wl -> SurfRec]
         /\ xwl' = xwl => OrderInv(surf', xwl') /\ EventInv(xwl') /\ xwl' \in XwlRec
         /\ v.life = surf[n].life \/ (surf[n].life = "none" /\ v.life = "alive") => ages(surf, surf')
         /\ (v.role = "toplevel" <=> surf[n].role = "toplevel") =>
              \A m \in Native : surf'[m].role = "toplevel" <=> surf[m].role = "toplevel"
<1>1. n \in Wl /\ surf \in [Wl -> SurfRec]
  BY XApart DEF IInv, Typed
<1>2. surf' \in [Wl -> SurfRec]
  BY <1>1
<1>3. \A m \in Range(XSurfaces) : surf'[m].life = surf[m].life
  BY <1>1, XApart
<1>4. xwl' = xwl => OrderInv(surf', xwl') /\ EventInv(xwl') /\ xwl' \in XwlRec
  BY <1>1, <1>2, <1>3, OrderFrame DEF IInv, Typed, Sound
<1> QED
  BY <1>1, <1>2, <1>4, XApart DEF ages

\* A request that changes neither toplevels nor surfaces keeps the invariant.
LEMMA NativeQuiet ==
  ASSUME NEW n \in Native, NEW v \in SurfRec, IInv, surf' = [surf EXCEPT ![n] = v],
         v.life = surf[n].life \/ (surf[n].life = "none" /\ v.life = "alive"),
         v.role = "toplevel" <=> surf[n].role = "toplevel",
         d' \in Display, SameBacks(d, d'), UNCHANGED <<seat, out, xwl>>
  PROVE  IInv'
<1>1. /\ surf' \in [Wl -> SurfRec] /\ OrderInv(surf', xwl') /\ EventInv(xwl') /\ ages(surf, surf')
      /\ \A m \in Native : surf'[m].role = "toplevel" <=> surf[m].role = "toplevel"
  BY NativeStep
<1>2. SamePointer(seat, seat') /\ SameKeyboard(seat, seat')
  BY DEF SamePointer, SameKeyboard
<1>3. Typed'
  BY <1>1 DEF IInv, Typed
<1>4. KeyboardInv(surf', seat') /\ PointerInv(d', surf', seat', out')
  BY <1>1, <1>2, <1>3, KeyboardFrame, PointerFrame DEF IInv, Typed, Sound
<1>5. NativeInv(d', surf') /\ FreshInv(d') /\ WindowInv(d', xwl')
  BY <1>1, NativeFrame, FreshFrame, WindowFrame, ZenonT(60) DEF IInv, Sound
<1> QED
  BY <1>1, <1>3, <1>4, <1>5 DEF IInv, Sound

\* A client of its own has its wl_surfaces.
LEMMA NativeSurf ==
  ASSUME NEW n \in Native, IInv
  PROVE  n \in Wl /\ n \notin Range(XSurfaces) /\ surf[n] \in SurfRec /\ d \in Display
BY XApart DEF IInv, Typed

\* wl_compositor.create_surface keeps the invariant.
LEMMA CreateSurface ==
  ASSUME NEW n \in Native, IInv, surf[n].life = "none", Becomes(create_surface(here, n))
  PROVE  IInv'
<1> DEFINE v == [surf[n] EXCEPT !.life = "alive"]
<1>1. surf' = [surf EXCEPT ![n] = v] /\ UNCHANGED <<d, seat, out, xwl>>
  BY DEF Becomes, create_surface, here
<1>2. v \in SurfRec /\ v.life = "alive" /\ v.role = surf[n].role
  BY NativeSurf DEF SurfRec
<1> HIDE DEF v
<1> QED
  BY <1>1, <1>2, NativeQuiet, NativeSurf, SameBacksSame

\* So does the end of a buffer,
LEMMA DropBuffer ==
  ASSUME NEW n \in Native, IInv, Becomes([here EXCEPT !.surf[n].buffer = FALSE])
  PROVE  IInv'
<1> DEFINE v == [surf[n] EXCEPT !.buffer = FALSE]
<1>1. surf' = [surf EXCEPT ![n] = v] /\ UNCHANGED <<d, seat, out, xwl>>
  BY DEF Becomes, here
<1>2. v \in SurfRec /\ v.life = surf[n].life /\ v.role = surf[n].role
  BY NativeSurf DEF SurfRec
<1> HIDE DEF v
<1> QED
  BY <1>1, <1>2, NativeQuiet, NativeSurf, SameBacksSame

\* xdg_wm_base.get_xdg_surface,
LEMMA GetXdgSurface ==
  ASSUME NEW n \in Native, IInv, surf[n].role = "none",
         Becomes([here EXCEPT !.surf[n].role = "xdg_surface"])
  PROVE  IInv'
<1> DEFINE v == [surf[n] EXCEPT !.role = "xdg_surface"]
<1>1. surf' = [surf EXCEPT ![n] = v] /\ UNCHANGED <<d, seat, out, xwl>>
  BY DEF Becomes, here
<1>2. v \in SurfRec /\ v.life = surf[n].life /\ v.role = "xdg_surface"
  BY NativeSurf DEF SurfRec
<1> HIDE DEF v
<1> QED
  BY <1>1, <1>2, NativeQuiet, NativeSurf, SameBacksSame

\* wl_surface.commit, which may map the toplevel,
LEMMA Commit ==
  ASSUME NEW n \in Native, NEW attach \in {"keep", "buffer", "null"}, IInv,
         Becomes(commit(here, n, attach))
  PROVE  IInv'
<1> DEFINE b  == IF attach = "keep" THEN surf[n].buffer ELSE attach = "buffer"
           v1 == [surf[n] EXCEPT !.buffer = b]
           s  == [here EXCEPT !.surf[n].buffer = b]
           id == surface_id_from_toplevel(s, n)
           m  == IF surf[n].mapped THEN d ELSE surface_mapped(d, id)
           v2 == [v1 EXCEPT !.mapped = TRUE]
<1>1. /\ v1 \in SurfRec /\ v1.life = surf[n].life /\ v1.role = surf[n].role
      /\ v1.mapped = surf[n].mapped /\ v1.buffer = b
  BY NativeSurf DEF SurfRec
<1>2. v2 \in SurfRec /\ v2.life = surf[n].life /\ v2.role = surf[n].role
  BY <1>1 DEF SurfRec
<1>3. s = [d |-> d, surf |-> [surf EXCEPT ![n] = v1], seat |-> seat, out |-> out, xwl |-> xwl]
      /\ commit(here, n, attach) = on_surface_commit(s, n)
  BY DEF here, commit
<1>4. [surf EXCEPT ![n] = v1][n] = v1 /\ [[surf EXCEPT ![n] = v1] EXCEPT ![n] = v2] = [surf EXCEPT ![n] = v2]
  BY NativeSurf DEF IInv, Typed
<1>5. CASE surf[n].role # "toplevel" \/ ~ b
  <2>1. Becomes(s)
    <3> HIDE DEF v1, b, s, id
    <3>1. s.surf[n] = v1 /\ s.d = d
      BY <1>3, <1>4
    <3> QED
      BY <1>1, <1>3, <1>5, <3>1 DEF on_surface_commit
  <2>2. surf' = [surf EXCEPT ![n] = v1] /\ UNCHANGED <<d, seat, out, xwl>>
    BY <1>3, <2>1 DEF Becomes
  <2> HIDE DEF v1
  <2> QED
    BY <1>1, <2>2, NativeQuiet, NativeSurf, SameBacksSame
<1>6. CASE surf[n].role = "toplevel" /\ b
  <2> HIDE DEF id
  <2>1. on_surface_commit(s, n) = [s EXCEPT !.surf[n].mapped = TRUE, !.d = surface_committed(m, id, TRUE)]
    <3> HIDE DEF v1, b, s
    <3>1. s.surf[n] = v1 /\ s.d = d
      BY <1>3, <1>4
    <3> QED
      BY <1>1, <1>6, <3>1 DEF on_surface_commit, id
  <2>2. /\ surf' = [surf EXCEPT ![n] = v2] /\ UNCHANGED <<seat, out, xwl>>
        /\ d' = surface_committed(m, id, TRUE)
    <3> HIDE DEF v1, v2, b, s, m
    <3>1. s.surf[n] = v1 /\ s.surf = [surf EXCEPT ![n] = v1]
      BY <1>3, <1>4
    <3>2. [s.surf EXCEPT ![n].mapped = TRUE] = [surf EXCEPT ![n] = v2]
      <4>1. [s.surf EXCEPT ![n].mapped = TRUE] = [s.surf EXCEPT ![n] = v2]
        BY <3>1 DEF v2
      <4> QED
        BY <1>4, <3>1, <4>1
    <3> DEFINE r == on_surface_commit(s, n)
    <3>3. r.surf = [s.surf EXCEPT ![n].mapped = TRUE] /\ r.d = surface_committed(m, id, TRUE)
      BY <1>3, <2>1
    <3>4. r.seat = seat /\ r.out = out /\ r.xwl = xwl
      BY <1>3, <2>1
    <3>5. Becomes(r)
      BY <1>3
    <3> HIDE DEF r
    <3> QED
      BY <3>2, <3>3, <3>4, <3>5 DEF Becomes
  <2>3. m \in Display /\ SameBacks(d, m)
    BY NativeSurf, SurfaceMapped, SameBacksSame
  <2> HIDE DEF m
  <2>4. d' \in Display /\ SameBacks(d, d')
    BY <2>2, <2>3, SurfaceCommitted, SameBacksTwice
  <2> HIDE DEF v2
  <2> QED
    BY <1>2, <2>2, <2>4, NativeQuiet
<1> QED
  BY <1>5, <1>6

\* wl_surface.destroy, whatever refers to the wl_surface,
LEMMA DestroySurface ==
  ASSUME NEW n \in Native, IInv, Becomes(destroy_surface(here, n))
  PROVE  IInv'
<1> DEFINE v == [surf[n] EXCEPT !.life = "dead", !.buffer = FALSE]
           u == [seat EXCEPT !.entered = @ \ {n}, !.down = @ \ {n}, !.cut = @ \ {n}]
<1>1. surf' = [surf EXCEPT ![n] = v] /\ seat' = u /\ UNCHANGED <<d, out, xwl>>
  BY DEF Becomes, destroy_surface, here
<1>2. v \in SurfRec /\ v.life = "dead" /\ v.role = surf[n].role
  BY NativeSurf DEF SurfRec
<1>3. /\ u \in SeatRec /\ SamePointer(seat, u) /\ u.entered = seat.entered \ {n}
      /\ u.down = seat.down \ {n} /\ u.cut = seat.cut \ {n} /\ u.keyboards = seat.keyboards /\ u.focused = seat.focused
      /\ u.mute = seat.mute
  <2>1. seat \in SeatRec
    BY DEF IInv, Typed
  <2> QED
    BY <2>1 DEF SeatRec, SamePointer
<1> HIDE DEF u, v
<1>4. /\ surf' \in [Wl -> SurfRec] /\ OrderInv(surf', xwl') /\ EventInv(xwl')
      /\ \A m \in Native : surf'[m].role = "toplevel" <=> surf[m].role = "toplevel"
  BY <1>1, <1>2, NativeStep
<1>5. Typed'
  BY <1>1, <1>3, <1>4 DEF IInv, Typed
<1>6. /\ \A m \in Wl : surf'[m].life = IF m = n THEN "dead" ELSE surf[m].life
      /\ \A m : alive(surf', m) <=> m # n /\ alive(surf, m)
  BY <1>1, <1>2, NativeSurf DEF alive, IInv, Typed
<1>7. KeyboardInv(surf', seat')
  <2>1. KeyboardInv(surf, seat) /\ seat \in SeatRec
    BY DEF IInv, Sound, Typed
  <2>2. /\ \A m \in seat'.entered \cup seat'.down \cup seat'.cut :
            m # n /\ m \in seat.entered \cup seat.down \cup seat.cut
        /\ (seat'.entered \cup seat'.down) \ seat'.cut \subseteq {seat'.focused}
        /\ seat'.focused \notin seat'.cut
    BY <1>1, <1>3, <2>1 DEF KeyboardInv
  <2>3. seat'.focused # None => surf'[seat'.focused].life # "none"
    BY <1>1, <1>3, <1>6, <2>1, SeatParts DEF KeyboardInv
  <2>4. ~ seat'.mute /\ alive(surf', seat'.focused) => seat'.focused \in seat'.entered
    BY <1>1, <1>3, <1>6, <2>1 DEF KeyboardInv
  <2> QED
    BY <1>1, <1>3, <1>6, <2>1, <2>2, <2>3, <2>4 DEF KeyboardInv, keyed
<1>8. PointerInv(d', surf', seat', out')
  BY <1>1, <1>3, <1>5, <1>6, SeatParts DEF PointerInv, SamePointer, IInv, Sound, Typed, pointing
<1>9. NativeInv(d', surf') /\ KeyInv(seat', out')
  <2>1. seat'.down \ seat'.cut \subseteq seat.down \ seat.cut
    BY <1>1, <1>3
  <2>2. KeyInv(seat', out')
    BY <1>1, <2>1, KeyFrame DEF IInv, Sound
  <2>3. NativeInv(d', surf')
    <3>1. SameBacks(d, d') /\ NativeInv(d, surf)
      BY <1>1, SameBacksSame DEF IInv, Sound
    <3> QED
      BY <1>4, <3>1, NativeFrame
  <2> QED
    BY <2>2, <2>3
<1> QED
  BY <1>1, <1>4, <1>5, <1>7, <1>8, <1>9 DEF IInv, Sound

\* xdg_surface.get_toplevel, which adds a surface,
LEMMA GetToplevel ==
  ASSUME NEW n \in Native, IInv, surf[n].role = "xdg_surface", Becomes(get_toplevel(here, n))
  PROVE  IInv'
<1> DEFINE v == [surf[n] EXCEPT !.role = "toplevel", !.mapped = FALSE]
<1>1. surf' = [surf EXCEPT ![n] = v] /\ d' = add_surface(d, n) /\ UNCHANGED <<seat, out, xwl>>
  BY DEF Becomes, get_toplevel, here
<1>2. v \in SurfRec /\ v.life = surf[n].life /\ v.role = "toplevel"
  BY NativeSurf DEF SurfRec
<1>3. d' \in Display /\ Adds(d, d', n)
  BY <1>1, NativeSurf, AddSurface
<1> HIDE DEF v
<1>4. /\ surf' \in [Wl -> SurfRec] /\ OrderInv(surf', xwl') /\ EventInv(xwl') /\ ages(surf, surf')
  BY <1>1, <1>2, NativeStep
<1>5. Typed'
  BY <1>1, <1>3, <1>4 DEF IInv, Typed
<1>6. \A m \in Native : surf'[m].role = IF m = n THEN "toplevel" ELSE surf[m].role
  BY <1>1, <1>2, NativeSurf, XApart DEF IInv, Typed
<1>7. SamePointer(seat, seat') /\ SameKeyboard(seat, seat')
  BY <1>1 DEF SamePointer, SameKeyboard
<1>8. KeyboardInv(surf', seat') /\ PointerInv(d, surf', seat', out')
  BY <1>1, <1>4, <1>5, <1>7, SameBacksSame, KeyboardFrame, PointerFrame DEF IInv, Typed, Sound
<1>9. d.next_id \in Nat \ {0} /\ DOMAIN d.surfaces \subseteq 1 .. (d.next_id - 1) /\ d.next_id \notin DOMAIN d.surfaces
  BY DisplayParts DEF FreshInv, IInv, Sound, Typed
<1>10. PointerInv(d', surf', seat', out') /\ FreshInv(d')
  <2>1. d'.next_id = d.next_id + 1 /\ DOMAIN d'.surfaces = DOMAIN d.surfaces \cup {d.next_id}
        /\ \A i \in DOMAIN d.surfaces : d'.surfaces[i].wl = d.surfaces[i].wl
    BY <1>3, <1>9 DEF Adds
  <2>2. \A k \in 1 .. (d.next_id - 1) : k \in 1 .. (d'.next_id - 1)
    BY <1>9, <2>1
  <2>3. FreshInv(d')
    BY <1>9, <2>1, <2>2 DEF FreshInv
  <2>4. PointerInv(d', surf', seat', out')
    BY <1>8, <2>1, <2>2 DEF PointerInv
  <2> QED
    BY <2>3, <2>4
<1>11. NativeInv(d', surf')
  BY <1>3, <1>6, <1>9 DEF NativeInv, Adds, IInv, Sound
<1>12. WindowInv(d', xwl')
  <2>1. {id \in DOMAIN d'.surfaces : d'.surfaces[id].wl \notin Native}
        = {id \in DOMAIN d.surfaces : d.surfaces[id].wl \notin Native}
    BY <1>3, <1>9 DEF Adds
  <2> QED
    BY <1>1, <1>3, <1>9, <2>1 DEF WindowInv, Adds, IInv, Sound
<1> QED
  BY <1>1, <1>4, <1>5, <1>8, <1>10, <1>11, <1>12 DEF IInv, Sound

\* The surface of a toplevel is found.
LEMMA IdFromToplevel ==
  ASSUME NEW n \in Native, IInv, surf[n].role = "toplevel"
  PROVE  LET id == surface_id_from_toplevel(here, n)
         IN  id \in DOMAIN d.surfaces /\ d.surfaces[id].wl = n
<1>1. \E id \in DOMAIN d.surfaces : d.surfaces[id].wl = n
  BY DEF IInv, Sound, NativeInv
<1> QED
  BY <1>1 DEF surface_id_from_toplevel, here

\* xdg_toplevel.destroy, which takes the surface away,
LEMMA ToplevelDestroyed ==
  ASSUME NEW n \in Native, NEW role \in {"none", "xdg_surface"}, IInv, surf[n].role = "toplevel",
         Becomes(toplevel_destroyed(here, n, role))
  PROVE  IInv'
<1> DEFINE v  == [surf[n] EXCEPT !.role = role, !.mapped = FALSE]
           id == surface_id_from_toplevel(here, n)
           u  == [seat EXCEPT !.adrift = @ \/ seat.pointed = n]
<1>1. /\ surf' = [surf EXCEPT ![n] = v] /\ d' = surface_destroyed(d, id)
      /\ seat' = u /\ UNCHANGED <<out, xwl>>
  <2> HIDE DEF id
  <2> QED
    BY DEF Becomes, toplevel_destroyed, here, id
<1>2. v \in SurfRec /\ v.life = surf[n].life /\ v.role = role
  BY NativeSurf DEF SurfRec
<1>3. u \in SeatRec /\ SameKeyboard(seat, u) /\ u.adrift = (seat.adrift \/ seat.pointed = n)
      /\ u.pointers = seat.pointers /\ u.pointed = seat.pointed
  <2>1. seat \in SeatRec
    BY DEF IInv, Typed
  <2> QED
    BY <2>1 DEF SeatRec, SameKeyboard
<1>4. id \in DOMAIN d.surfaces /\ d.surfaces[id].wl = n
  BY IdFromToplevel
<1> HIDE DEF v, u, id
<1>5. d' \in Display /\ Drops(d, d', id)
  BY <1>1, <1>4, NativeSurf, SurfaceDestroyed
<1>6. /\ surf' \in [Wl -> SurfRec] /\ OrderInv(surf', xwl') /\ EventInv(xwl') /\ ages(surf, surf')
  BY <1>1, <1>2, NativeStep
<1>7. Typed'
  BY <1>1, <1>3, <1>5, <1>6 DEF IInv, Typed
<1>8. \A m \in Native : surf'[m].role = IF m = n THEN role ELSE surf[m].role
  BY <1>1, <1>2, NativeSurf, XApart DEF IInv, Typed
<1>9. KeyboardInv(surf', seat') /\ PointerInv(d, surf', seat, out')
  BY <1>1, <1>3, <1>6, <1>7, SameBacksSame, KeyboardFrame, PointerFrame DEF IInv, Typed, Sound, SamePointer
<1>10. PointerInv(d', surf', seat', out')
  BY <1>1, <1>3, <1>4, <1>5, <1>9 DEF PointerInv, Drops, pointing
<1>11. FreshInv(d') /\ KeyInv(seat', out')
  BY <1>1, <1>3, <1>5 DEF FreshInv, Drops, KeyInv, SameKeyboard, IInv, Sound
<1>12. NativeInv(d', surf')
  BY <1>4, <1>5, <1>8 DEF NativeInv, Drops, IInv, Sound
<1>13. WindowInv(d', xwl')
  <2>1. {i \in DOMAIN d'.surfaces : d'.surfaces[i].wl \notin Native}
        = {i \in DOMAIN d.surfaces : d.surfaces[i].wl \notin Native}
    BY <1>4, <1>5 DEF Drops
  <2>2. xwl'.managed = {i \in DOMAIN d'.surfaces : d'.surfaces[i].wl \notin Native}
    BY <1>1, <2>1 DEF WindowInv, IInv, Sound
  <2>3. \A w \in DOMAIN xwl.win : xwl.win[w].sid # None => xwl.win[w].sid # id
    BY <1>4 DEF WindowInv, IInv, Sound
  <2> QED
    BY <1>1, <1>5, <2>2, <2>3 DEF WindowInv, Drops, IInv, Sound
<1> QED
  BY <1>1, <1>6, <1>7, <1>9, <1>10, <1>11, <1>12, <1>13 DEF IInv, Sound

\* and xdg_surface.destroy, with or without a toplevel.
LEMMA GiveUpRole ==
  ASSUME NEW n \in Native, IInv, surf[n].role # "none", Becomes(xdg_surface_destroyed(here, n))
  PROVE  IInv'
<1>1. CASE surf[n].role = "toplevel"
  BY <1>1, ToplevelDestroyed DEF xdg_surface_destroyed, here
<1>2. CASE surf[n].role # "toplevel"
  <2> DEFINE v == [surf[n] EXCEPT !.role = "none"]
  <2>1. surf' = [surf EXCEPT ![n] = v] /\ UNCHANGED <<d, seat, out, xwl>>
    BY <1>2 DEF Becomes, here, xdg_surface_destroyed
  <2>2. v \in SurfRec /\ v.life = surf[n].life /\ v.role = "none"
    BY NativeSurf DEF SurfRec
  <2> HIDE DEF v
  <2> QED
    BY <1>2, <2>1, <2>2, NativeQuiet, NativeSurf, SameBacksSame
<1> QED
  BY <1>1, <1>2

\* Requests of Wayland clients keep the invariant.
LEMMA NativeRequests ==
  ASSUME NEW n \in Native, IInv, SurfaceRequest(n) \/ XdgSurfaceRequest(n) \/ ToplevelRequest(n)
  PROVE  IInv'
<1>1. CASE SurfaceRequest(n)
  BY <1>1, CreateSurface, Commit, DestroySurface, DropBuffer DEF SurfaceRequest
<1>2. CASE XdgSurfaceRequest(n)
  BY <1>2, GetXdgSurface, GetToplevel, GiveUpRole DEF XdgSurfaceRequest
<1>3. CASE ToplevelRequest(n)
  BY <1>3, ToplevelDestroyed DEF ToplevelRequest
<1> QED
  BY <1>1, <1>2, <1>3

\* A state that an operator of the module takes and gives.
State == [d : Display, surf : [Wl -> SurfRec], seat : SeatRec, out : OutRec, xwl : XwlRec]

\* States that differ in the seat only.
with_seat(s, t) == [s EXCEPT !.seat = t]

SeatOnly(s, r) == r \in State /\ r.d = s.d /\ r.surf = s.surf /\ r.out = s.out /\ r.xwl = s.xwl

\* Another seat makes another state.
LEMMA SetSeat ==
  ASSUME NEW s \in State, NEW t \in SeatRec
  PROVE  SeatOnly(s, with_seat(s, t)) /\ with_seat(s, t).seat = t
BY DEF State, SeatOnly, with_seat

\* What a state consists of.
LEMMA StateParts ==
  ASSUME NEW s \in State
  PROVE  s.d \in Display /\ s.surf \in [Wl -> SurfRec] /\ s.seat \in SeatRec /\ s.out \in OutRec /\ s.xwl \in XwlRec
BY DEF State

\* The variables are a state.
LEMMA HereState ==
  ASSUME Typed
  PROVE  /\ here \in State /\ here.d = d /\ here.surf = surf /\ here.seat = seat /\ here.out = out
         /\ here.xwl = xwl
BY DEF Typed, here, State

\* A step of the devices keeps the invariant if it keeps what holds of them.
LEMMA SeatStep ==
  ASSUME IInv, NEW s \in State, Becomes(s), s.surf = surf, s.xwl = xwl, SameBacks(d, s.d),
         KeyboardInv(surf, s.seat), KeyInv(s.seat, s.out), PointerInv(d, surf, s.seat, s.out)
  PROVE  IInv'
<1>1. d' = s.d /\ surf' = surf /\ seat' = s.seat /\ out' = s.out /\ xwl' = xwl
  BY DEF Becomes
<1>2. Typed'
  BY <1>1, StateParts DEF Typed, IInv
<1>3. NativeInv(d', surf') /\ WindowInv(d', xwl') /\ FreshInv(d')
  BY <1>1, NativeFrame, WindowFrame, FreshFrame DEF IInv, Sound
<1>4. PointerInv(d', surf', seat', out')
  BY <1>1 DEF PointerInv, SameBacks
<1> QED
  BY <1>1, <1>2, <1>3, <1>4 DEF IInv, Sound

\* What a motion or button does to the seat.
LEMMA SendPointer ==
  ASSUME NEW s \in State, PointerInv(s.d, s.surf, s.seat, s.out)
  PROVE  LET r == send_pointer(s)
         IN  SeatOnly(s, r) /\ SameKeyboard(s.seat, r.seat) /\ PointerInv(s.d, s.surf, r.seat, s.out)
<1> DEFINE t == [s.seat EXCEPT !.pointed = None, !.adrift = FALSE]
<1>1. t \in SeatRec /\ SameKeyboard(s.seat, t) /\ t.pointed = None
  BY StateParts DEF SeatRec, SameKeyboard
<1>2. send_pointer(s) = IF alive(s.surf, s.seat.pointed) THEN s ELSE with_seat(s, t)
  BY DEF send_pointer, resolves, alive, with_seat, State, SeatRec
<1> HIDE DEF t
<1>3. CASE alive(s.surf, s.seat.pointed)
  BY <1>2, <1>3 DEF SeatOnly, SameKeyboard
<1>4. CASE ~ alive(s.surf, s.seat.pointed)
  <2>1. send_pointer(s) = with_seat(s, t)
    BY <1>2, <1>4
  <2>2. PointerInv(s.d, s.surf, t, s.out)
    BY <1>1, NoneApart DEF PointerInv, alive
  <2> QED
    BY <1>1, <2>1, <2>2, SetSeat
<1> QED
  BY <1>3, <1>4

\* The pointer is over a surface of n, or over a client that has not been told.
LEMMA SendPointerEnter ==
  ASSUME NEW s \in State, NEW n \in Wl,
         alive(s.surf, s.seat.pointed) => pointing(s.seat, s.seat.pointed),
         s.seat.pointed # None => s.surf[s.seat.pointed].life # "none",
         s.out.over \in 1 .. (s.d.next_id - 1), s.out.over \in DOMAIN s.d.surfaces,
         s.d.surfaces[s.out.over].wl = n
  PROVE  LET r == send_pointer_enter(s, n)
         IN  SeatOnly(s, r) /\ SameKeyboard(s.seat, r.seat) /\ PointerInv(s.d, s.surf, r.seat, s.out)
<1> DEFINE t1 == [s.seat EXCEPT !.pointed = n, !.adrift = FALSE]
           t2 == [s.seat EXCEPT !.adrift = @ \/ s.seat.pointed # None]
<1>0. s.seat \in SeatRec
  BY StateParts
<1>1. /\ t1 \in SeatRec /\ SameKeyboard(s.seat, t1) /\ t1.pointed = n /\ t1.pointers = s.seat.pointers
  BY <1>0 DEF SeatRec, SameKeyboard
<1>2. /\ t2 \in SeatRec /\ SameKeyboard(s.seat, t2) /\ t2.pointed = s.seat.pointed
      /\ t2.pointers = s.seat.pointers /\ t2.adrift = (s.seat.adrift \/ s.seat.pointed # None)
  BY <1>0 DEF SeatRec, SameKeyboard
<1>3. send_pointer_enter(s, n) =
        IF n = s.seat.pointed THEN s
        ELSE IF alive(s.surf, n) /\ pointing(s.seat, n) THEN with_seat(s, t1)
        ELSE with_seat(s, t2)
  BY NoneApart DEF send_pointer_enter, resolves, pointer_for, pointing, alive, with_seat, State, SeatRec
<1> HIDE DEF t1, t2
<1>4. CASE n = s.seat.pointed
  BY <1>3, <1>4 DEF SeatOnly, SameKeyboard, PointerInv
<1>5. CASE n # s.seat.pointed /\ alive(s.surf, n) /\ pointing(s.seat, n)
  <2>1. send_pointer_enter(s, n) = with_seat(s, t1)
    BY <1>3, <1>5
  <2>2. PointerInv(s.d, s.surf, t1, s.out)
    BY <1>1, <1>5, NoneApart DEF PointerInv, alive, pointing
  <2> QED
    BY <1>1, <2>1, <2>2, SetSeat
<1>6. CASE n # s.seat.pointed /\ ~ (alive(s.surf, n) /\ pointing(s.seat, n))
  <2>1. send_pointer_enter(s, n) = with_seat(s, t2)
    BY <1>3, <1>6
  <2>2. PointerInv(s.d, s.surf, t2, s.out)
    BY <1>2, NoneApart DEF PointerInv, alive, pointing
  <2> QED
    BY <1>2, <2>1, <2>2, SetSeat
<1> QED
  BY <1>4, <1>5, <1>6

\* The output has the pointer over id.
with_over(s, id) == [s EXCEPT !.out.over = id]

\* The output has the pointer over another surface.
LEMMA SetOver ==
  ASSUME NEW s \in State, NEW id \in Nat \cup {None}
  PROVE  LET r == with_over(s, id)
         IN  /\ r \in State /\ r.d = s.d /\ r.surf = s.surf /\ r.seat = s.seat /\ r.xwl = s.xwl
             /\ r.out.over = id /\ r.out.kept = s.out.kept /\ r.out.key = s.out.key
<1> DEFINE o == [s.out EXCEPT !.over = id]
<1>1. o \in OutRec /\ o.over = id /\ o.kept = s.out.kept /\ o.key = s.out.key
  BY StateParts DEF OutRec
<1>2. with_over(s, id) = [s EXCEPT !.out = o]
  BY DEF with_over, State
<1> HIDE DEF o
<1> QED
  BY <1>1, <1>2 DEF State

\* A surface under the pointer is a surface, backed by a wl_surface.
LEMMA PointedAt ==
  ASSUME IInv, NEW id \in under_pointer(d)
  PROVE  /\ id \in DOMAIN d.surfaces /\ id \in 1 .. (d.next_id - 1) /\ id \in Nat
         /\ wl_surface_id_for_surface(here, id) = d.surfaces[id].wl /\ d.surfaces[id].wl \in Wl
<1>1. id \in DOMAIN d.surfaces
  BY DEF under_pointer
<1>2. id \in 1 .. (d.next_id - 1) /\ id \in Nat
  BY <1>1, DisplayParts DEF IInv, Typed, Sound, FreshInv
<1>3. d.surfaces[id].wl \in Wl
  BY <1>1, DisplayParts DEF IInv, Typed, SurfaceRec
<1> QED
  BY <1>1, <1>2, <1>3 DEF wl_surface_id_for_surface, has_surface, here

\* What the output does with the pointer concerns the pointer's half of the seat.
PointerStep(r) ==
  /\ r \in State /\ r.d = d /\ r.surf = surf /\ r.xwl = xwl
  /\ r.out.kept = out.kept /\ r.out.key = out.key
  /\ SameKeyboard(seat, r.seat) /\ PointerInv(d, surf, r.seat, r.out)

\* A step of the pointer keeps the invariant.
LEMMA PointerStepKeeps ==
  ASSUME IInv, NEW r, PointerStep(r), Becomes(r)
  PROVE  IInv'
<1>1. KeyboardInv(surf, r.seat)
  BY DEF KeyboardInv, PointerStep, SameKeyboard, IInv, Sound, keyed
<1>2. KeyInv(r.seat, r.out)
  BY DEF KeyInv, PointerStep, SameKeyboard, IInv, Sound
<1> QED
  BY <1>1, <1>2, SeatStep, SameBacksSame DEF PointerStep

\* To do nothing is a step of the pointer.
LEMMA PointerStepHere ==
  ASSUME IInv
  PROVE  PointerStep(here)
BY HereState DEF IInv, Sound, PointerStep, SameKeyboard

\* So is to send a motion or a button,
LEMMA SendPointerStep ==
  ASSUME NEW r, PointerStep(r)
  PROVE  PointerStep(send_pointer(r))
<1>1. r \in State /\ PointerInv(r.d, r.surf, r.seat, r.out)
  BY DEF PointerStep
<1>2. /\ SeatOnly(r, send_pointer(r)) /\ SameKeyboard(r.seat, send_pointer(r).seat)
      /\ PointerInv(r.d, r.surf, send_pointer(r).seat, r.out)
  BY <1>1, SendPointer
<1> QED
  BY <1>2 DEF PointerStep, SeatOnly, SameKeyboard

\* to enter a surface,
LEMMA EnterStep ==
  ASSUME IInv, NEW id \in under_pointer(d), NEW s \in State, s.d = d, s.surf = surf, s.xwl = xwl,
         s.out.over = id, s.out.kept = out.kept, s.out.key = out.key, SameKeyboard(seat, s.seat),
         alive(surf, s.seat.pointed) => pointing(s.seat, s.seat.pointed),
         s.seat.pointed # None => surf[s.seat.pointed].life # "none"
  PROVE  PointerStep(send_pointer_enter(s, d.surfaces[id].wl))
<1> DEFINE n == d.surfaces[id].wl
<1>1. n \in Wl /\ s.out.over \in 1 .. (s.d.next_id - 1) /\ s.out.over \in DOMAIN s.d.surfaces
      /\ s.d.surfaces[s.out.over].wl = n
  BY PointedAt
<1>2. /\ SeatOnly(s, send_pointer_enter(s, n)) /\ SameKeyboard(s.seat, send_pointer_enter(s, n).seat)
      /\ PointerInv(s.d, s.surf, send_pointer_enter(s, n).seat, s.out)
  <2> HIDE DEF n
  <2> QED
    BY <1>1, SendPointerEnter
<1> QED
  BY <1>2 DEF PointerStep, SeatOnly, SameKeyboard

\* and a button press: it enters the surface it is over first.
LEMMA ButtonPress ==
  ASSUME IInv, NEW id \in under_pointer(d) \cup {None}
  PROVE  PointerStep(handle_button_press(here, id))
<1>1. CASE d.grabbed
  BY <1>1, PointerStepHere DEF handle_button_press, here
<1>2. CASE ~ d.grabbed /\ id \in {None, out.over}
  BY <1>2, PointerStepHere, SendPointerStep DEF handle_button_press, here
<1>3. CASE ~ d.grabbed /\ id \notin {None, out.over}
  <2> DEFINE s == with_over(here, id)
             n == d.surfaces[id].wl
  <2>1. handle_button_press(here, id) = send_pointer(send_pointer_enter(s, n))
    BY <1>3, PointedAt DEF handle_button_press, here, with_over
  <2>2. PointerStep(send_pointer_enter(s, n))
    <3>1. here \in State /\ id \in under_pointer(d) /\ id \in Nat
      BY <1>3, PointedAt, HereState DEF IInv
    <3>2. /\ s \in State /\ s.d = d /\ s.surf = surf /\ s.seat = seat /\ s.xwl = xwl
          /\ s.out.over = id /\ s.out.kept = out.kept /\ s.out.key = out.key
      BY <3>1, SetOver, HereState DEF IInv
    <3> HIDE DEF s
    <3> QED
      BY <3>1, <3>2, EnterStep DEF IInv, Sound, PointerInv, SameKeyboard
  <2> QED
    BY <2>1, <2>2, SendPointerStep
<1> QED
  BY <1>1, <1>2, <1>3

\* To leave what the pointer was over is a step of the pointer.
LEMMA LeaveStep ==
  ASSUME IInv, NEW id \in under_pointer(d) \cup {None}
  PROVE  LET m == wl_surface_id_for_surface(here, out.over)
             r == send_pointer_leave(with_over(here, id), m)
         IN  PointerStep(r) /\ r.out.over = id
<1> DEFINE m == wl_surface_id_for_surface(here, out.over)
           s == with_over(here, id)
           t == [seat EXCEPT !.pointed = None, !.adrift = FALSE]
           r == send_pointer_leave(s, m)
<1>1. /\ s \in State /\ s.d = d /\ s.surf = surf /\ s.seat = seat /\ s.xwl = xwl
      /\ s.out.over = id /\ s.out.kept = out.kept /\ s.out.key = out.key
  <2>1. here \in State /\ id \in Nat \cup {None}
    BY PointedAt, HereState DEF IInv
  <2> QED
    BY <2>1, SetOver, HereState DEF IInv
<1>2. id \in 1 .. (d.next_id - 1) \cup {None}
  BY PointedAt
<1>3. /\ t \in SeatRec /\ SameKeyboard(seat, t) /\ t.pointed = None
  <2>1. seat \in SeatRec
    BY DEF IInv, Typed
  <2> QED
    BY <2>1 DEF SeatRec, SameKeyboard
<1>4. r = IF seat.pointed = m /\ (alive(surf, m) => pointing(seat, m))
          THEN with_seat(s, t) ELSE s
  <2> HIDE DEF s, m
  <2> QED
    BY <1>1 DEF send_pointer_leave, resolves, pointer_for, pointing, alive, with_seat, State, SeatRec
<1>5. m = IF out.over \in DOMAIN d.surfaces THEN d.surfaces[out.over].wl ELSE None
  BY DEF wl_surface_id_for_surface, has_surface, here
<1> HIDE DEF m, s, t, r
<1>6. PointerInv(d, surf, seat, out)
  BY DEF IInv, Sound
<1>7. CASE seat.pointed = m /\ (alive(surf, m) => pointing(seat, m))
  <2>1. r = with_seat(s, t)
    BY <1>4, <1>7
  <2>2. SeatOnly(s, r) /\ r.seat = t
    BY <1>1, <1>3, <2>1, SetSeat
  <2>3. PointerInv(d, surf, t, s.out)
    BY <1>1, <1>2, <1>3, NoneApart DEF PointerInv, alive
  <2> QED
    BY <1>1, <1>3, <2>2, <2>3 DEF PointerStep, SeatOnly, r, s, m
<1>8. CASE ~ (seat.pointed = m /\ (alive(surf, m) => pointing(seat, m)))
  <2>1. r = s
    BY <1>4, <1>8
  <2>2. PointerInv(d, surf, seat, s.out)
    BY <1>1, <1>2, <1>5, <1>6, <1>8 DEF PointerInv
  <2> QED
    BY <1>1, <2>1, <2>2 DEF PointerStep, SameKeyboard, r, s, m
<1> QED
  BY <1>7, <1>8

\* So is a motion: it leaves one surface and enters another.
LEMMA MotionNotify ==
  ASSUME IInv, NEW id \in under_pointer(d) \cup {None}
  PROVE  PointerStep(handle_motion_notify(here, id))
<1> DEFINE m    == wl_surface_id_for_surface(here, out.over)
           left == send_pointer_leave(with_over(here, id), m)
           n    == wl_surface_id_for_surface(here, id)
           next_s == IF id = out.over THEN here ELSE send_pointer_enter(left, n)
<1>1. handle_motion_notify(here, id) =
        IF d.grabbed THEN here ELSE IF id = None THEN next_s ELSE send_pointer(next_s)
  BY DEF handle_motion_notify, here, with_over
<1>2. PointerStep(left) /\ left.out.over = id
  BY LeaveStep
<1> HIDE DEF left, m
<1>3. CASE id = None
  <2>1. n = None
    BY <1>3, NoneApart, DisplayParts DEF wl_surface_id_for_surface, has_surface, here, IInv, Typed
  <2>2. send_pointer_enter(left, n) = left
    BY <2>1 DEF send_pointer_enter
  <2> QED
    BY <1>1, <1>2, <1>3, <2>2, PointerStepHere
<1>4. CASE id # None
  <2>1. id \in under_pointer(d) /\ n = d.surfaces[id].wl
    BY <1>4, PointedAt
  <2> HIDE DEF n
  <2>2. PointerStep(send_pointer_enter(left, n))
    BY <1>2, <2>1, EnterStep DEF PointerStep, PointerInv
  <2>3. PointerStep(next_s)
    BY <2>2, PointerStepHere
  <2> QED
    BY <1>1, <1>4, <2>3, SendPointerStep, PointerStepHere
<1> QED
  BY <1>3, <1>4

\* A surface is shown or hidden, or the window manager takes the pointer.
LEMMA DisplayOnly ==
  ASSUME IInv, d' \in Display, SameBacks(d, d'), UNCHANGED <<surf, seat, out, xwl>>
  PROVE  IInv'
<1>1. NativeInv(d', surf') /\ WindowInv(d', xwl') /\ FreshInv(d')
  BY NativeFrame, WindowFrame, FreshFrame DEF IInv, Sound
<1>2. PointerInv(d', surf', seat', out')
  BY DEF PointerInv, SameBacks, IInv, Sound
<1> QED
  BY <1>1, <1>2 DEF IInv, Sound, Typed

\* To show or hide a surface does not touch what is behind it.
LEMMA ShownKeeps ==
  ASSUME IInv, Shown
  PROVE  IInv'
<1>1. PICK id \in DOMAIN d.surfaces : Becomes([here EXCEPT !.d.surfaces[id].visible = ~ @])
  BY DEF Shown
<1> DEFINE v == [d.surfaces[id] EXCEPT !.visible = ~ @]
<1>2. d \in Display /\ d.surfaces[id] \in SurfaceRec
  BY DisplayParts DEF IInv, Typed
<1>3. v \in SurfaceRec /\ v.wl = d.surfaces[id].wl
  BY <1>2 DEF SurfaceRec
<1>4. d' = with_surface(d, id, v) /\ UNCHANGED <<surf, seat, out, xwl>>
  BY <1>1 DEF Becomes, here, with_surface
<1> HIDE DEF v
<1>5. d' \in Display /\ SameBacks(d, d')
  BY <1>2, <1>3, <1>4, SetSurface DEF SameBacks
<1> QED
  BY <1>4, <1>5, DisplayOnly

\* Whatever the pointer does keeps the invariant.
LEMMA PointerKeeps ==
  ASSUME IInv, Pointer
  PROVE  IInv'
<1>1. CASE Shown
  BY <1>1, ShownKeeps
<1>2. CASE Becomes([here EXCEPT !.d.grabbed = ~ @])
  <2>1. d' = [d EXCEPT !.grabbed = ~ @] /\ UNCHANGED <<surf, seat, out, xwl>>
    BY <1>2 DEF Becomes, here
  <2>2. d' \in Display /\ SameBacks(d, d')
    <3>1. d \in Display
      BY DEF IInv, Typed
    <3> QED
      BY <2>1, <3>1 DEF Display, SameBacks
  <2> QED
    BY <2>1, <2>2, DisplayOnly
<1>3. CASE \E id \in under_pointer(d) \cup {None} :
             Becomes(handle_button_press(here, id)) \/ Becomes(handle_motion_notify(here, id))
  BY <1>3, ButtonPress, MotionNotify, PointerStepKeeps
<1> QED
  BY <1>1, <1>2, <1>3 DEF Pointer

\* What concerns the keyboard's half of the seat alone.
KeyboardStep(r) ==
  /\ r \in State /\ r.d = d /\ r.surf = surf /\ r.xwl = xwl /\ r.out.over = out.over
  /\ SamePointer(seat, r.seat) /\ KeyboardInv(surf, r.seat) /\ KeyInv(r.seat, r.out)

\* A step of the keyboard keeps the invariant.
LEMMA KeyboardStepKeeps ==
  ASSUME IInv, NEW r, KeyboardStep(r), Becomes(r)
  PROVE  IInv'
<1>1. PointerInv(d, surf, r.seat, r.out)
  BY DEF PointerInv, KeyboardStep, SamePointer, IInv, Sound, pointing
<1> QED
  BY <1>1, SeatStep, SameBacksSame DEF KeyboardStep

\* To do nothing is a step of the keyboard.
LEMMA KeyboardStepHere ==
  ASSUME IInv
  PROVE  KeyboardStep(here)
BY HereState DEF IInv, Sound, KeyboardStep, SamePointer

\* The output stays as it is and no more surfaces have the key pressed.
LEMMA KeyboardSeat ==
  ASSUME IInv, NEW t \in SeatRec, SamePointer(seat, t), KeyboardInv(surf, t),
         t.down \ t.cut \subseteq seat.down \ seat.cut
  PROVE  KeyboardStep(with_seat(here, t))
<1>1. here \in State /\ here.d = d /\ here.surf = surf /\ here.out = out /\ here.xwl = xwl
  BY HereState DEF IInv
<1>2. SeatOnly(here, with_seat(here, t)) /\ with_seat(here, t).seat = t
  BY <1>1, SetSeat
<1>3. KeyInv(t, out)
  BY KeyFrame DEF IInv, Sound
<1> QED
  BY <1>1, <1>2, <1>3 DEF KeyboardStep, SeatOnly

\* The seat after surface n has lost the keyboard.
left_seat(f, t, n) ==
  IF alive(f, n) /\ keyed(t, n)
  THEN [t EXCEPT !.entered = @ \ {n}, !.down = @ \ {n}, !.cut = @ \ {n}] ELSE t

Left(f, t, n, u) ==
  /\ u \in SeatRec /\ SamePointer(t, u) /\ u.keyboards = t.keyboards
  /\ u.focused = t.focused /\ u.mute = t.mute
  /\ alive(f, n) /\ keyed(t, n) =>
       u.entered = t.entered \ {n} /\ u.down = t.down \ {n} /\ u.cut = t.cut \ {n}
  /\ ~ (alive(f, n) /\ keyed(t, n)) =>
       u.entered = t.entered /\ u.down = t.down /\ u.cut = t.cut

\* A surface that has lost the keyboard keeps no key.
LEMMA LeftSeat ==
  ASSUME NEW f, NEW t \in SeatRec, NEW n
  PROVE  Left(f, t, n, left_seat(f, t, n))
BY DEF left_seat, SeatRec, SamePointer, Left

\* That is what send_leave does.
LEMMA SendLeave ==
  ASSUME NEW s \in State, NEW n
  PROVE  send_leave(s, n) = with_seat(s, left_seat(s.surf, s.seat, n))
<1>1. CASE alive(s.surf, n) /\ keyed(s.seat, n)
  BY <1>1 DEF send_leave, resolves, keyboard_for, keyed, alive, with_seat, left_seat, State, SeatRec
<1>2. CASE ~ (alive(s.surf, n) /\ keyed(s.seat, n))
  <2>1. send_leave(s, n) = s /\ left_seat(s.surf, s.seat, n) = s.seat
    BY <1>2 DEF send_leave, resolves, keyboard_for, keyed, alive, left_seat
  <2>2. s = with_seat(s, s.seat)
    BY DEF with_seat, State
  <2> QED
    BY <2>1, <2>2
<1> QED
  BY <1>1, <1>2

\* To activate a surface is a step of the keyboard.
LEMMA Activate ==
  ASSUME IInv, NEW n \in Wl
  PROVE  KeyboardStep(send_keyboard_enter(here, n))
<1> DEFINE u  == left_seat(surf, seat, seat.focused)
           t1 == [u EXCEPT !.mute = TRUE]
           t2 == [u EXCEPT !.focused = n, !.entered = @ \cup {n}, !.down = @ \ {n}, !.cut = @ \ {n},
                           !.mute = FALSE]
<1>0. seat \in SeatRec /\ here \in State /\ KeyboardInv(surf, seat)
  BY HereState DEF IInv, Typed, Sound
<1>1. /\ u \in SeatRec /\ SamePointer(seat, u) /\ u.keyboards = seat.keyboards
      /\ u.focused = seat.focused /\ u.cut = seat.cut
      /\ u.entered \cup u.down \subseteq seat.cut
  <2>1. /\ (seat.entered \cup seat.down) \ seat.cut \subseteq {seat.focused} /\ seat.focused \notin seat.cut
        /\ \A m \in seat.entered \cup seat.down \cup seat.cut : alive(surf, m) /\ keyed(seat, m)
    BY <1>0 DEF KeyboardInv
  <2>2. /\ u \in SeatRec /\ SamePointer(seat, u) /\ u.keyboards = seat.keyboards
        /\ u.focused = seat.focused
        /\ alive(surf, seat.focused) /\ keyed(seat, seat.focused) =>
             /\ u.entered = seat.entered \ {seat.focused} /\ u.down = seat.down \ {seat.focused}
             /\ u.cut = seat.cut \ {seat.focused}
        /\ ~ (alive(surf, seat.focused) /\ keyed(seat, seat.focused)) =>
             u.entered = seat.entered /\ u.down = seat.down /\ u.cut = seat.cut
    <3>1. Left(surf, seat, seat.focused, u)
      BY <1>0, LeftSeat
    <3> HIDE DEF u
    <3> QED
      BY <3>1 DEF Left
  <2> HIDE DEF u
  <2>3. CASE alive(surf, seat.focused) /\ keyed(seat, seat.focused)
    BY <2>1, <2>2, <2>3
  <2>4. CASE ~ (alive(surf, seat.focused) /\ keyed(seat, seat.focused))
    BY <2>1, <2>2, <2>4
  <2> QED
    BY <2>3, <2>4
<1>a. send_leave(here, here.seat.focused) = with_seat(here, u) /\ here.seat = seat /\ here.surf = surf
  BY <1>0, SendLeave, HereState DEF IInv
<1> HIDE DEF u
<1>2. CASE ~ alive(surf, n) \/ seat.focused = n
  BY <1>2, KeyboardStepHere DEF send_keyboard_enter, resolves, alive, here
<1>3. CASE alive(surf, n) /\ seat.focused # n /\ ~ keyed(seat, n)
  <2>1. send_keyboard_enter(here, n) = with_seat(here, t1)
    <3>1. send_keyboard_enter(here, n) =
            [with_seat(here, u) EXCEPT !.seat.mute = TRUE]
      BY <1>a, <1>3 DEF send_keyboard_enter, resolves, keyboard_for, keyed, alive
    <3> QED
      BY <1>0, <3>1 DEF with_seat, State
  <2>2. /\ t1 \in SeatRec /\ SamePointer(seat, t1) /\ t1.entered \cup t1.down \subseteq seat.cut
        /\ t1.mute = TRUE /\ t1.focused = seat.focused /\ t1.keyboards = seat.keyboards
        /\ t1.cut = seat.cut
    BY <1>1 DEF SeatRec, SamePointer
  <2> HIDE DEF t1
  <2>3. KeyboardInv(surf, t1)
    BY <1>0, <2>2 DEF KeyboardInv, keyed
  <2> QED
    BY <2>1, <2>2, <2>3, KeyboardSeat
<1>4. CASE alive(surf, n) /\ seat.focused # n /\ keyed(seat, n)
  <2>1. send_keyboard_enter(here, n) = with_seat(here, t2)
    <3>1. send_keyboard_enter(here, n) =
            [with_seat(here, u) EXCEPT !.seat.focused = n, !.seat.entered = @ \cup {n},
               !.seat.down = @ \ {n}, !.seat.cut = @ \ {n}, !.seat.mute = FALSE]
      BY <1>a, <1>4 DEF send_keyboard_enter, resolves, keyboard_for, keyed, alive
    <3> QED
      BY <1>0, <3>1 DEF with_seat, State
  <2>2. /\ t2 \in SeatRec /\ SamePointer(seat, t2) /\ t2.entered = u.entered \cup {n}
        /\ t2.down = u.down \ {n} /\ t2.cut = u.cut \ {n}
        /\ t2.mute = FALSE /\ t2.focused = n /\ t2.keyboards = seat.keyboards
    BY <1>1 DEF SeatRec, SamePointer
  <2> HIDE DEF t2
  <2>a. /\ n \in t2.entered /\ n \notin t2.cut /\ t2.down \subseteq t2.cut
        /\ t2.entered \subseteq t2.cut \cup {n} /\ t2.cut \subseteq seat.cut
    BY <1>1, <2>2
  <2>b. \A m \in seat.cut : alive(surf, m) /\ keyed(seat, m)
    BY <1>0 DEF KeyboardInv
  <2>c. \A m : keyed(t2, m) <=> keyed(seat, m)
    BY <2>2 DEF keyed
  <2>d. /\ (t2.entered \cup t2.down) \ t2.cut \subseteq {n}
        /\ \A m \in t2.entered \cup t2.down \cup t2.cut : alive(surf, m) /\ keyed(t2, m)
    BY <1>4, <2>a, <2>b, <2>c
  <2>e. surf[n].life # "none"
    BY <1>4 DEF alive
  <2>3. KeyboardInv(surf, t2)
    BY <1>4, <2>2, <2>a, <2>c, <2>d, <2>e DEF KeyboardInv
  <2> QED
    BY <2>1, <2>2, <2>3, <2>a, KeyboardSeat
<1> QED
  BY <1>2, <1>3, <1>4

\* So is to deactivate one.
LEMMA Deactivate ==
  ASSUME IInv, NEW n \in Wl
  PROVE  KeyboardStep(send_keyboard_leave(here, n))
<1> DEFINE t == [seat EXCEPT !.focused = IF @ = n THEN None ELSE @]
           u == left_seat(surf, t, n)
<1>0. seat \in SeatRec /\ here \in State /\ KeyboardInv(surf, seat)
  BY HereState DEF IInv, Typed, Sound
<1>1. /\ t \in SeatRec /\ SamePointer(seat, t) /\ t.keyboards = seat.keyboards /\ t.mute = seat.mute
      /\ t.focused = (IF seat.focused = n THEN None ELSE seat.focused)
      /\ t.entered = seat.entered /\ t.down = seat.down /\ t.cut = seat.cut
  BY <1>0 DEF SeatRec, SamePointer
<1>2. send_keyboard_leave(here, n) = send_leave(with_seat(here, t), n)
  BY DEF send_keyboard_leave, here, with_seat
<1> HIDE DEF t
<1>3. /\ with_seat(here, t) \in State /\ with_seat(here, t).seat = t /\ with_seat(here, t).surf = surf
      /\ \A v : with_seat(with_seat(here, t), v) = with_seat(here, v)
  BY <1>0, <1>1, SetSeat, HereState DEF SeatOnly, IInv, with_seat, State
<1>4. send_keyboard_leave(here, n) = with_seat(here, u)
  BY <1>2, <1>3, SendLeave
<1>5. /\ u \in SeatRec /\ SamePointer(seat, u) /\ u.keyboards = seat.keyboards /\ u.mute = seat.mute
      /\ u.focused = (IF seat.focused = n THEN None ELSE seat.focused)
      /\ (u.entered \cup u.down) \ u.cut \subseteq {u.focused} /\ u.focused \notin u.cut
      /\ u.entered \cup u.down \cup u.cut \subseteq seat.entered \cup seat.down \cup seat.cut
      /\ u.down \ u.cut \subseteq seat.down \ seat.cut
      /\ seat.focused # n => seat.entered \ {n} \subseteq u.entered
  <2>1. /\ (seat.entered \cup seat.down) \ seat.cut \subseteq {seat.focused} /\ seat.focused \notin seat.cut
        /\ \A m \in seat.entered \cup seat.down \cup seat.cut : alive(surf, m) /\ keyed(seat, m)
    BY <1>0 DEF KeyboardInv
  <2>2. /\ u \in SeatRec /\ SamePointer(t, u) /\ u.keyboards = t.keyboards
        /\ u.focused = t.focused /\ u.mute = t.mute
        /\ alive(surf, n) /\ keyed(t, n) =>
             u.entered = t.entered \ {n} /\ u.down = t.down \ {n} /\ u.cut = t.cut \ {n}
        /\ ~ (alive(surf, n) /\ keyed(t, n)) =>
             u.entered = t.entered /\ u.down = t.down /\ u.cut = t.cut
    <3>1. Left(surf, t, n, u)
      BY <1>1, LeftSeat
    <3> HIDE DEF u
    <3> QED
      BY <3>1 DEF Left
  <2> HIDE DEF u
  <2>3. None \notin seat.cut
    BY <1>0, NoneApart, SeatParts
  <2>4. keyed(t, n) <=> keyed(seat, n)
    BY <1>1 DEF keyed
  <2>5. CASE alive(surf, n) /\ keyed(t, n)
    BY <1>1, <2>1, <2>2, <2>3, <2>5 DEF SamePointer
  <2>6. CASE ~ (alive(surf, n) /\ keyed(t, n))
    <3>1. n \notin seat.entered \cup seat.down \cup seat.cut
      BY <2>1, <2>4, <2>6
    <3> QED
      BY <1>1, <2>1, <2>2, <2>3, <2>6, <3>1 DEF SamePointer
  <2> QED
    BY <2>5, <2>6
<1> HIDE DEF u
<1>6. KeyboardInv(surf, u)
  <2>1. /\ \A m \in u.entered \cup u.down \cup u.cut : alive(surf, m) /\ keyed(seat, m)
        /\ \A m : keyed(u, m) <=> keyed(seat, m)
    BY <1>0, <1>5 DEF KeyboardInv, keyed
  <2>2. seat.focused # n => u.focused = seat.focused
    BY <1>5
  <2>3. seat.focused = n => u.focused = None
    BY <1>5
  <2>4. CASE seat.focused = n
    BY <1>5, <2>1, <2>3, <2>4, NoneApart DEF KeyboardInv, alive
  <2>5. CASE seat.focused # n
    BY <1>0, <1>5, <2>1, <2>2, <2>5 DEF KeyboardInv
  <2> QED
    BY <2>4, <2>5
<1> QED
  BY <1>4, <1>5, <1>6, KeyboardSeat

\* SetSurfaceActivated keeps the invariant.
LEMMA ActivatedKeeps ==
  ASSUME IInv, NEW id, NEW on \in BOOLEAN, Becomes(SetSurfaceActivated(here, id, on))
  PROVE  IInv'
<1>1. CASE id \notin DOMAIN d.surfaces
  BY <1>1, KeyboardStepHere, KeyboardStepKeeps DEF SetSurfaceActivated, has_surface, here
<1>2. CASE id \in DOMAIN d.surfaces
  <2>1. d.surfaces[id].wl \in Wl
    BY <1>2, DisplayParts DEF IInv, Typed, SurfaceRec
  <2>2. SetSurfaceActivated(here, id, on) = IF on THEN send_keyboard_enter(here, d.surfaces[id].wl)
                                            ELSE send_keyboard_leave(here, d.surfaces[id].wl)
    BY <1>2 DEF SetSurfaceActivated, has_surface, here
  <2> QED
    BY <2>1, <2>2, Activate, Deactivate, KeyboardStepKeeps
<1> QED
  BY <1>1, <1>2

\* States that differ in the seat and the output.
with_both(s, t, o) == [s EXCEPT !.seat = t, !.out = o]

\* A key keeps the invariant if it keeps what holds of keys.
LEMMA KeyStep ==
  ASSUME IInv, NEW t \in SeatRec, NEW o \in OutRec, o.over = out.over, SamePointer(seat, t),
         KeyboardInv(surf, t), KeyInv(t, o), Becomes(with_both(here, t, o))
  PROVE  IInv'
<1>1. here \in State /\ here.d = d /\ here.surf = surf /\ here.xwl = xwl
  BY HereState DEF IInv
<1> DEFINE r == with_both(here, t, o)
<1>2. r \in State /\ r.d = d /\ r.surf = surf /\ r.xwl = xwl /\ r.seat = t /\ r.out = o
  BY <1>1 DEF State, with_both
<1> HIDE DEF r
<1>3. KeyboardStep(r)
  BY <1>2 DEF KeyboardStep
<1> QED
  BY <1>3, KeyboardStepKeeps DEF r

\* The key reaches the surface that has the keyboard, if it is still there.
sent_key(f, t, pressed) ==
  IF ~ alive(f, t.focused) THEN [t EXCEPT !.focused = None]
  ELSE IF ~ keyed(t, t.focused) THEN t
  ELSE [t EXCEPT !.down = IF pressed THEN @ \cup {t.focused} ELSE @ \ {t.focused}]

SentKey(f, t, pressed, u) ==
  /\ u \in SeatRec /\ SamePointer(t, u) /\ KeyboardInv(f, u)
  /\ ~ pressed => u.down \subseteq u.cut

\* The surface in focus takes the key for pressed, or not any more.
LEMMA SendKey ==
  ASSUME NEW f \in [Wl -> SurfRec], NEW t \in SeatRec, KeyboardInv(f, t), NEW pressed \in BOOLEAN
  PROVE  SentKey(f, t, pressed, sent_key(f, t, pressed))
<1> DEFINE n  == t.focused
           u1 == [t EXCEPT !.focused = None]
           u2 == [t EXCEPT !.down = @ \cup {n}]
           u3 == [t EXCEPT !.down = @ \ {n}]
<1>1. CASE ~ alive(f, n)
  <2>1. t.entered \cup t.down \subseteq t.cut /\ None \notin t.cut
    BY <1>1, NoneApart, SeatParts DEF KeyboardInv
  <2>2. /\ u1 \in SeatRec /\ SamePointer(t, u1) /\ u1.focused = None /\ u1.entered = t.entered
        /\ u1.down = t.down /\ u1.cut = t.cut /\ u1.keyboards = t.keyboards
    BY DEF SeatRec, SamePointer
  <2>3. sent_key(f, t, pressed) = u1
    BY <1>1 DEF sent_key
  <2> HIDE DEF u1
  <2>4. KeyboardInv(f, u1)
    BY <2>1, <2>2, NoneApart DEF KeyboardInv, alive, keyed
  <2> QED
    BY <2>1, <2>2, <2>3, <2>4 DEF SentKey
<1>2. CASE alive(f, n) /\ pressed
  <2>1. sent_key(f, t, pressed) = u2
    BY <1>2 DEF sent_key, KeyboardInv
  <2>2. /\ u2 \in SeatRec /\ SamePointer(t, u2) /\ u2.focused = n /\ u2.entered = t.entered
        /\ u2.down = t.down \cup {n} /\ u2.mute = t.mute /\ u2.keyboards = t.keyboards
        /\ u2.cut = t.cut
    BY <1>2, SeatParts DEF SeatRec, SamePointer, alive
  <2> HIDE DEF u2
  <2>3. KeyboardInv(f, u2)
    BY <1>2, <2>2 DEF KeyboardInv, keyed
  <2> QED
    BY <1>2, <2>1, <2>2, <2>3 DEF SentKey
<1>3. CASE alive(f, n) /\ ~ pressed
  <2>1. sent_key(f, t, pressed) = u3
    BY <1>3 DEF sent_key, KeyboardInv
  <2>2. /\ u3 \in SeatRec /\ SamePointer(t, u3) /\ u3.focused = n /\ u3.entered = t.entered
        /\ u3.down = t.down \ {n} /\ u3.mute = t.mute /\ u3.keyboards = t.keyboards
        /\ u3.cut = t.cut
    BY DEF SeatRec, SamePointer
  <2> HIDE DEF u3
  <2>3. KeyboardInv(f, u3) /\ u3.down \subseteq u3.cut
    BY <1>3, <2>2 DEF KeyboardInv, keyed
  <2> QED
    BY <1>3, <2>1, <2>2, <2>3 DEF SentKey
<1> QED
  BY <1>1, <1>2, <1>3

\* That is what send_key does.
LEMMA SentHere ==
  ASSUME IInv, NEW pressed \in BOOLEAN, NEW o
  PROVE  send_key([here EXCEPT !.out = o], pressed) = with_both(here, sent_key(surf, seat, pressed), o)
<1> DEFINE s == [here EXCEPT !.out = o]
<1>1. s.seat = seat /\ s.surf = surf
  BY DEF here
<1>2. CASE ~ alive(surf, seat.focused)
  BY <1>2 DEF send_key, resolves, alive, here, with_both, sent_key
<1>3. CASE alive(surf, seat.focused)
  <2>1. keyboard_for(s, seat.focused) /\ keyed(seat, seat.focused)
    BY <1>3 DEF keyboard_for, keyed, here, IInv, Sound, KeyboardInv
  <2>2. /\ resolves(s, seat.focused)
    BY <1>3 DEF resolves, alive, here
  <2>3. sent_key(surf, seat, pressed) =
          [seat EXCEPT !.down = IF pressed THEN @ \cup {seat.focused} ELSE @ \ {seat.focused}]
    BY <1>3, <2>1 DEF sent_key
  <2> QED
    BY <2>1, <2>2, <2>3 DEF send_key, here, with_both
<1> QED
  BY <1>2, <1>3

\* What the output consists of.
LEMMA OutParts ==
  ASSUME NEW o \in OutRec
  PROVE  o.over \in Nat \cup {None} /\ o.kept \in BOOLEAN /\ o.key \in BOOLEAN
BY DEF OutRec

\* A key press keeps the invariant: it is intercepted or sent.
LEMMA KeyPress ==
  ASSUME IInv, ~ out.key, Becomes(handle_key_press([here EXCEPT !.out.key = TRUE]))
  PROVE  IInv'
<1> DEFINE o1 == [out EXCEPT !.key = TRUE]
           o2 == [out EXCEPT !.key = TRUE, !.kept = TRUE]
           t  == sent_key(surf, seat, TRUE)
<1>1. /\ seat \in SeatRec /\ out \in OutRec /\ KeyboardInv(surf, seat) /\ KeyInv(seat, out)
      /\ surf \in [Wl -> SurfRec]
  BY DEF IInv, Typed, Sound
<1>2. /\ o1 \in OutRec /\ o1.over = out.over /\ o1.key = TRUE /\ o1.kept = out.kept
      /\ o2 \in OutRec /\ o2.over = out.over /\ o2.key = TRUE
  BY <1>1 DEF OutRec
<1>3. [here EXCEPT !.out.key = TRUE] = [here EXCEPT !.out = o1]
  BY DEF here
<1>4. seat.down \subseteq seat.cut /\ out.kept = FALSE
  BY <1>1, OutParts DEF KeyInv
<1>5. CASE d.intercepts # {}
  <2>1. handle_key_press([here EXCEPT !.out.key = TRUE]) = with_both(here, seat, o2)
    <3>1. handle_key_press([here EXCEPT !.out = o1]) = [[here EXCEPT !.out = o1] EXCEPT !.out.kept = TRUE]
      BY <1>2, <1>5 DEF handle_key_press, here
    <3>2. [o1 EXCEPT !.kept = TRUE] = o2
      BY <1>1 DEF OutRec
    <3>3. [[here EXCEPT !.out = o1] EXCEPT !.out.kept = TRUE] = [here EXCEPT !.out = [o1 EXCEPT !.kept = TRUE]]
      BY DEF here
    <3>4. here = [here EXCEPT !.seat = seat]
      BY DEF here
    <3> HIDE DEF o1, o2
    <3> QED
      BY <1>3, <3>1, <3>2, <3>3, <3>4 DEF with_both, here
  <2>2. KeyInv(seat, o2)
    BY <1>2, <1>4 DEF KeyInv
  <2> HIDE DEF o2
  <2> QED
    BY <1>1, <1>2, <2>1, <2>2, KeyStep DEF SamePointer
<1>6. CASE d.intercepts = {}
  <2>1. handle_key_press([here EXCEPT !.out.key = TRUE]) = send_key([here EXCEPT !.out.key = TRUE], TRUE)
    BY <1>6 DEF handle_key_press, here
  <2> HIDE DEF o1
  <2>2. Becomes(with_both(here, t, o1))
    BY <1>3, <2>1, SentHere
  <2>3. SentKey(surf, seat, TRUE, t)
    BY <1>1, SendKey
  <2> HIDE DEF t
  <2>4. KeyInv(t, o1)
    BY <1>2, <1>4 DEF KeyInv
  <2> QED
    BY <1>2, <2>2, <2>3, <2>4, KeyStep DEF SentKey
<1> QED
  BY <1>5, <1>6

\* So does a key release: what was intercepted is not sent.
LEMMA KeyRelease ==
  ASSUME IInv, out.key, Becomes(handle_key_release([here EXCEPT !.out.key = FALSE]))
  PROVE  IInv'
<1> DEFINE o1 == [out EXCEPT !.key = FALSE]
           o2 == [out EXCEPT !.key = FALSE, !.kept = FALSE]
           t  == sent_key(surf, seat, FALSE)
<1>1. /\ seat \in SeatRec /\ out \in OutRec /\ KeyboardInv(surf, seat) /\ KeyInv(seat, out)
      /\ surf \in [Wl -> SurfRec]
  BY DEF IInv, Typed, Sound
<1>2. /\ o1 \in OutRec /\ o1.over = out.over /\ o1.key = FALSE /\ o1.kept = out.kept
      /\ o2 \in OutRec /\ o2.over = out.over /\ o2.key = FALSE /\ o2.kept = FALSE
  BY <1>1 DEF OutRec
<1>3. [here EXCEPT !.out.key = FALSE] = [here EXCEPT !.out = o1]
  BY DEF here
<1>5. CASE out.kept
  <2>1. handle_key_release([here EXCEPT !.out.key = FALSE]) = with_both(here, seat, o2)
    <3>1. handle_key_release([here EXCEPT !.out = o1]) = [[here EXCEPT !.out = o1] EXCEPT !.out.kept = FALSE]
      BY <1>2, <1>5 DEF handle_key_release, here
    <3>2. [o1 EXCEPT !.kept = FALSE] = o2
      BY <1>1 DEF OutRec
    <3>3. [[here EXCEPT !.out = o1] EXCEPT !.out.kept = FALSE] = [here EXCEPT !.out = [o1 EXCEPT !.kept = FALSE]]
      BY DEF here
    <3>4. here = [here EXCEPT !.seat = seat]
      BY DEF here
    <3> HIDE DEF o1, o2
    <3> QED
      BY <1>3, <3>1, <3>2, <3>3, <3>4 DEF with_both, here
  <2>2. KeyInv(seat, o2)
    BY <1>1, <1>2, <1>5 DEF KeyInv
  <2> HIDE DEF o2
  <2> QED
    BY <1>1, <1>2, <2>1, <2>2, KeyStep DEF SamePointer
<1>6. CASE ~ out.kept
  <2>1. handle_key_release([here EXCEPT !.out.key = FALSE]) = send_key([here EXCEPT !.out.key = FALSE], FALSE)
    BY <1>1, <1>6 DEF handle_key_release, here, OutRec
  <2> HIDE DEF o1
  <2>2. Becomes(with_both(here, t, o1))
    BY <1>3, <2>1, SentHere
  <2>3. SentKey(surf, seat, FALSE, t)
    BY <1>1, SendKey
  <2> HIDE DEF t
  <2>4. KeyInv(t, o1)
    BY <1>2, <1>6, <2>3 DEF KeyInv, SentKey
  <2> QED
    BY <1>2, <2>2, <2>3, <2>4, KeyStep DEF SentKey
<1> QED
  BY <1>5, <1>6

\* Whatever the keyboard does keeps the invariant.
LEMMA KeyboardKeeps ==
  ASSUME IInv, Keyboard
  PROVE  IInv'
<1>1. CASE Becomes([here EXCEPT !.d.intercepts = {"key"} \ @])
  <2>1. d' = [d EXCEPT !.intercepts = {"key"} \ @] /\ UNCHANGED <<surf, seat, out, xwl>>
    BY <1>1 DEF Becomes, here
  <2>2. d' \in Display /\ SameBacks(d, d')
    <3>1. d \in Display
      BY DEF IInv, Typed
    <3> QED
      BY <2>1, <3>1 DEF Display, SameBacks
  <2> QED
    BY <2>1, <2>2, DisplayOnly
<1> QED
  BY <1>1, ActivatedKeeps, KeyPress, KeyRelease DEF Keyboard

\* Every wl_surface has a client.
LEMMA ClientOf == \A n \in Wl : client_of(n) \in Clients
<1> SUFFICES ASSUME NEW n \in Wl PROVE client_of(n) \in Clients
  OBVIOUS
<1>1. CASE n \in Native
  BY <1>1 DEF client_of, Clients, Native, Range
<1>2. CASE n \notin Native
  BY <1>2 DEF client_of, Clients
<1> QED
  BY <1>1, <1>2

\* The seat after client c has given up a keyboard, and keeps others.
cut_off(f, t, c) == {n \in {t.focused} : alive(f, n) /\ client_of(n) = c}
still(c, used)  == {n \in Wl : used => client_of(n) # c}

without_keyboard(f, t, c, left, used) ==
  [t EXCEPT !.keyboards[c] = left, !.focused = IF cut_off(f, t, c) = {} THEN @ ELSE None,
            !.entered = @ \cap still(c, used), !.down = @ \cap still(c, used),
            !.cut = (@ \cup cut_off(f, t, c)) \cap still(c, used)]

NoKeyboard(f, t, c, used, u) ==
  /\ u \in SeatRec /\ SamePointer(t, u) /\ KeyboardInv(f, u)
  /\ u.down \ u.cut \subseteq t.down \ t.cut
  /\ used => \A n \in u.entered \cup u.down \cup u.cut : client_of(n) # c

\* Whichever keyboard a client gives up, it has no surface in focus; with the
\* last one its surfaces are told nothing of the keyboard.
LEMMA WithoutKeyboard ==
  ASSUME NEW f, NEW t \in SeatRec, NEW c \in Clients, NEW left \in Nat, NEW used \in BOOLEAN,
         KeyboardInv(f, t), ~ used => left > 0
  PROVE  NoKeyboard(f, t, c, used, without_keyboard(f, t, c, left, used))
<1> DEFINE u == without_keyboard(f, t, c, left, used)
           had == cut_off(f, t, c)
           kept == still(c, used)
<1>1. /\ t.keyboards \in [Clients -> Nat] /\ t.entered \in SUBSET Wl /\ t.down \in SUBSET Wl
      /\ t.cut \in SUBSET Wl /\ t.focused \in Wl \cup {None}
  BY SeatParts
<1>2. /\ had \subseteq Wl /\ had \subseteq {t.focused} /\ kept \subseteq Wl
      /\ \A n \in kept : used => client_of(n) # c
      /\ \A n \in had : alive(f, n) /\ client_of(n) = c
      /\ had = {} => ~ (alive(f, t.focused) /\ client_of(t.focused) = c)
  BY <1>1 DEF cut_off, still, alive
<1> HIDE DEF had, kept
<1>3. /\ u \in SeatRec /\ SamePointer(t, u) /\ u.keyboards = [t.keyboards EXCEPT ![c] = left]
      /\ u.entered = t.entered \cap kept /\ u.down = t.down \cap kept /\ u.cut = (t.cut \cup had) \cap kept
      /\ u.mute = t.mute /\ u.focused = IF had = {} THEN t.focused ELSE None
  <2>1. [t.keyboards EXCEPT ![c] = left] \in [Clients -> Nat]
    BY <1>1
  <2>2. u = [t EXCEPT !.keyboards = [t.keyboards EXCEPT ![c] = left],
                      !.focused = IF had = {} THEN t.focused ELSE None,
                      !.entered = t.entered \cap kept, !.down = t.down \cap kept,
                      !.cut = (t.cut \cup had) \cap kept]
    BY DEF without_keyboard, had, kept, SeatRec
  <2> DEFINE k == [t.keyboards EXCEPT ![c] = left]
  <2> HIDE DEF k, u
  <2> QED
    BY <1>1, <1>2, <2>1, <2>2 DEF SeatRec, SamePointer, k
<1> HIDE DEF u
<1>4. /\ \A n \in Wl : client_of(n) # c /\ keyed(t, n) => keyed(u, n)
      /\ \A n \in Wl : ~ used /\ client_of(n) = c => keyed(u, n)
  BY <1>1, <1>3, ClientOf DEF keyed
<1>5. \A n \in u.entered \cup u.down \cup u.cut : n \in kept /\ n \in Wl /\ n \in t.entered \cup t.down \cup t.cut \cup had
  BY <1>2, <1>3
<1>6. \A n \in u.entered \cup u.down \cup u.cut : alive(f, n) /\ keyed(u, n)
  <2>1. \A n \in t.entered \cup t.down \cup t.cut \cup had : alive(f, n) /\ keyed(t, n)
    BY <1>2 DEF KeyboardInv
  <2> SUFFICES ASSUME NEW n \in u.entered \cup u.down \cup u.cut PROVE alive(f, n) /\ keyed(u, n)
    OBVIOUS
  <2>2. alive(f, n) /\ keyed(t, n) /\ n \in Wl /\ (used => client_of(n) # c)
    BY <1>2, <1>5, <2>1
  <2> QED
    BY <1>4, <2>2
<1>7. (u.entered \cup u.down) \ u.cut \subseteq {u.focused} /\ u.focused \notin u.cut
  BY <1>1, <1>2, <1>3, NoneApart DEF KeyboardInv
<1>8. CASE had = {}
  <2>1. u.focused = t.focused /\ (alive(f, t.focused) => client_of(t.focused) # c)
    BY <1>2, <1>3, <1>8
  <2>2. alive(f, u.focused) => keyed(u, u.focused)
    BY <1>4, <2>1 DEF KeyboardInv, alive
  <2>3. ~ u.mute /\ alive(f, u.focused) => u.focused \in u.entered
    BY <1>3, <2>1 DEF KeyboardInv, alive, kept, still
  <2> QED
    BY <1>3, <1>5, <1>6, <1>7, <2>1, <2>2, <2>3 DEF KeyboardInv, NoKeyboard, kept, still, u
<1>9. CASE had # {}
  <2>1. u.focused = None /\ ~ alive(f, None)
    BY <1>3, <1>9, NoneApart DEF alive
  <2> QED
    BY <1>3, <1>5, <1>6, <1>7, <2>1 DEF KeyboardInv, NoKeyboard, kept, still, u
<1> QED
  BY <1>8, <1>9

\* That is what remove_keyboard does.
LEMMA RemoveKeyboard ==
  ASSUME NEW c, NEW left, NEW used
  PROVE  remove_keyboard(here, c, left, used)
         = with_seat(here, without_keyboard(surf, seat, c, left, used))
<1> DEFINE had == cut_off(surf, seat, c)
           kept == still(c, used)
<1>1. /\ {n \in {here.seat.focused} : resolves(here, n) /\ client_of(n) = c} = had
      /\ {n \in Wl : used => client_of(n) # c} = kept
  BY DEF here, resolves, alive, cut_off, still
<1> HIDE DEF had, kept
<1>2. remove_keyboard(here, c, left, used) =
        [here EXCEPT !.seat.keyboards[c] = left, !.seat.focused = IF had = {} THEN @ ELSE None,
                     !.seat.entered = @ \cap kept, !.seat.down = @ \cap kept,
                     !.seat.cut = (@ \cup had) \cap kept]
  BY <1>1 DEF remove_keyboard
<1>3. without_keyboard(surf, seat, c, left, used) =
        [seat EXCEPT !.keyboards[c] = left, !.focused = IF had = {} THEN @ ELSE None,
                     !.entered = @ \cap kept, !.down = @ \cap kept, !.cut = (@ \cup had) \cap kept]
  BY DEF without_keyboard, had, kept
<1> DEFINE k == [seat.keyboards EXCEPT ![c] = left]
           o == IF had = {} THEN seat.focused ELSE None
           a == seat.entered \cap kept
           b == seat.down \cap kept
           e == (seat.cut \cup had) \cap kept
<1>4. remove_keyboard(here, c, left, used) =
        [here EXCEPT !.seat = [seat EXCEPT !.keyboards = k, !.focused = o, !.entered = a, !.down = b, !.cut = e]]
  BY <1>2 DEF here
<1>5. without_keyboard(surf, seat, c, left, used) =
        [seat EXCEPT !.keyboards = k, !.focused = o, !.entered = a, !.down = b, !.cut = e]
  BY <1>3
<1> HIDE DEF k, o, a, b, e
<1> QED
  BY <1>4, <1>5 DEF with_seat

\* The seat after client c has given up a pointer, and keeps others.
without_pointer(f, t, c, left) ==
  [t EXCEPT !.pointers[c] = left, !.pointed = IF alive(f, @) /\ client_of(@) = c THEN None ELSE @]

NoPointer(q, f, t, o, u) == u \in SeatRec /\ SameKeyboard(t, u) /\ PointerInv(q, f, u, o)

\* Whichever pointer a client gives up, it has no surface with the pointer.
LEMMA WithoutPointer ==
  ASSUME NEW q, NEW f, NEW t \in SeatRec, NEW o, NEW c \in Clients, NEW left \in Nat, PointerInv(q, f, t, o)
  PROVE  NoPointer(q, f, t, o, without_pointer(f, t, c, left))
<1> DEFINE u == without_pointer(f, t, c, left)
<1>0. t.pointers \in [Clients -> Nat] /\ t.pointed \in Wl \cup {None}
  BY SeatParts
<1>1. /\ u \in SeatRec /\ SameKeyboard(t, u) /\ u.pointers = [t.pointers EXCEPT ![c] = left]
      /\ u.adrift = t.adrift
      /\ u.pointed = IF alive(f, t.pointed) /\ client_of(t.pointed) = c THEN None ELSE t.pointed
  BY <1>0 DEF SeatRec, SameKeyboard, without_pointer
<1> HIDE DEF u
<1>2. alive(f, u.pointed) => u.pointed = t.pointed /\ pointing(u, u.pointed)
  <2> SUFFICES ASSUME alive(f, u.pointed) PROVE u.pointed = t.pointed /\ pointing(u, u.pointed)
    OBVIOUS
  <2>1. u.pointed = t.pointed /\ client_of(t.pointed) # c /\ pointing(t, t.pointed) /\ t.pointed \in Wl
    BY <1>1, NoneApart DEF alive, PointerInv
  <2> QED
    BY <1>0, <1>1, <2>1, ClientOf DEF pointing
<1>3. PointerInv(q, f, u, o)
  BY <1>1, <1>2, NoneApart DEF PointerInv, alive
<1> QED
  BY <1>1, <1>3 DEF NoPointer, u

\* That is what remove_pointer does.
LEMMA RemovePointer ==
  ASSUME NEW c, NEW left
  PROVE  remove_pointer(here, c, left) = with_seat(here, without_pointer(surf, seat, c, left))
BY DEF with_seat, here, remove_pointer, resolves, alive, without_pointer

\* A client that gets or gives up a device keeps the invariant.
LEMMA DeviceKeeps ==
  ASSUME IInv, NEW c \in Clients, Device(c)
  PROVE  IInv'
<1>1. /\ seat \in SeatRec /\ KeyboardInv(surf, seat) /\ PointerInv(d, surf, seat, out)
      /\ seat.keyboards \in [Clients -> Nat] /\ seat.pointers \in [Clients -> Nat]
  BY SeatParts DEF IInv, Typed, Sound
<1>2. CASE Becomes([here EXCEPT !.seat.keyboards[c] = @ + 1])
  <2> DEFINE k == [seat.keyboards EXCEPT ![c] = @ + 1]
             t == [seat EXCEPT !.keyboards = k]
  <2>1. k \in [Clients -> Nat] /\ \A n \in Wl : seat.keyboards[client_of(n)] > 0 => k[client_of(n)] > 0
    BY <1>1, ClientOf
  <2>2. Becomes(with_seat(here, t))
    BY <1>2 DEF with_seat, here
  <2> HIDE DEF k
  <2>3. /\ t \in SeatRec /\ SamePointer(seat, t) /\ t.keyboards = k /\ t.cut = seat.cut
        /\ t.entered = seat.entered /\ t.down = seat.down /\ t.focused = seat.focused /\ t.mute = seat.mute
    BY <1>1, <2>1 DEF SeatRec, SamePointer
  <2> HIDE DEF t
  <2>4. \A n \in Wl : keyed(seat, n) => keyed(t, n)
    BY <2>1, <2>3 DEF keyed
  <2>5. KeyboardInv(surf, t)
    BY <1>1, <2>3, <2>4 DEF KeyboardInv, alive
  <2> QED
    BY <2>2, <2>3, <2>5, KeyboardSeat, KeyboardStepKeeps
<1>3. ASSUME NEW used \in BOOLEAN, Becomes(remove_keyboard(here, c, seat.keyboards[c] - 1, used)),
             seat.keyboards[c] > 0, ~ used => seat.keyboards[c] > 1
      PROVE  IInv'
  <2> DEFINE t == without_keyboard(surf, seat, c, seat.keyboards[c] - 1, used)
  <2>1. seat.keyboards[c] - 1 \in Nat /\ (~ used => seat.keyboards[c] - 1 > 0)
    BY <1>1, <1>3
  <2>2. NoKeyboard(surf, seat, c, used, t)
    BY <1>1, <2>1, WithoutKeyboard
  <2>3. Becomes(with_seat(here, t))
    BY <1>3, RemoveKeyboard
  <2> HIDE DEF t
  <2> QED
    BY <2>2, <2>3, KeyboardSeat, KeyboardStepKeeps DEF NoKeyboard
<1>4. CASE Becomes([here EXCEPT !.seat.pointers[c] = @ + 1])
  <2> DEFINE k == [seat.pointers EXCEPT ![c] = @ + 1]
             t == [seat EXCEPT !.pointers = k]
  <2>1. k \in [Clients -> Nat] /\ \A n \in Wl : seat.pointers[client_of(n)] > 0 => k[client_of(n)] > 0
    BY <1>1, ClientOf
  <2>2. Becomes(with_seat(here, t))
    BY <1>4 DEF with_seat, here
  <2> HIDE DEF k
  <2>3. /\ t \in SeatRec /\ SameKeyboard(seat, t) /\ t.pointers = k
        /\ t.pointed = seat.pointed /\ t.adrift = seat.adrift
    BY <1>1, <2>1 DEF SeatRec, SameKeyboard
  <2> HIDE DEF t
  <2>4. \A n \in Wl : pointing(seat, n) => pointing(t, n)
    BY <2>1, <2>3 DEF pointing
  <2>5. PointerInv(d, surf, t, out)
    BY <1>1, <2>3, <2>4 DEF PointerInv, alive
  <2>6. SeatOnly(here, with_seat(here, t)) /\ with_seat(here, t).seat = t
    BY <2>3, SetSeat, HereState DEF IInv
  <2>7. PointerStep(with_seat(here, t))
    BY <2>3, <2>5, <2>6, HereState DEF PointerStep, SeatOnly, IInv
  <2> QED
    BY <2>2, <2>7, PointerStepKeeps
<1>5. CASE seat.pointers[c] > 0 /\ Becomes(remove_pointer(here, c, seat.pointers[c] - 1))
  <2> DEFINE t == without_pointer(surf, seat, c, seat.pointers[c] - 1)
  <2>0. seat.pointers[c] - 1 \in Nat
    BY <1>1, <1>5
  <2>1. NoPointer(d, surf, seat, out, t)
    BY <1>1, <2>0, WithoutPointer
  <2>2. Becomes(with_seat(here, t))
    BY <1>5, RemovePointer
  <2>3. t \in SeatRec /\ SameKeyboard(seat, t) /\ PointerInv(d, surf, t, out)
    BY <2>1 DEF NoPointer
  <2> HIDE DEF t
  <2>4. SeatOnly(here, with_seat(here, t)) /\ with_seat(here, t).seat = t
    BY <2>3, SetSeat, HereState DEF IInv
  <2>5. PointerStep(with_seat(here, t))
    BY <2>3, <2>4, HereState DEF PointerStep, SeatOnly, IInv
  <2> QED
    BY <2>2, <2>5, PointerStepKeeps
<1>6. seat.keyboards[c] > 1 => seat.keyboards[c] > 0
  BY <1>1
<1> QED
  BY <1>2, <1>3, <1>4, <1>5, <1>6 DEF Device

\* Xwayland sends an X event: it continues what it has sent about the window.
LEMMA SendEvent ==
  ASSUME NEW x \in XwlRec, NEW y \in XwlRec, NEW e \in XEvent, EventInv(x), x.up,
         y.up = x.up, y.names = x.names, y.xq = Append(x.xq, e), y.win = x.win,
         \A v \in XWindows \ {e.window} : y.x[v] = x.x[v] /\ Told(x, y, v),
         \A i \in 1 .. Len(x.xq) : x.xq[i].window = e.window =>
           /\ e.type \notin naming /\ Told(x, y, e.window)
           /\ last(x.xq, i) => follows(x.xq[i].type, e.type),
         (\A k \in 1 .. Len(x.xq) : x.xq[k].window # e.window) => expected(y, e),
         leaves(y, e)
  PROVE  EventInv(y)
<1> DEFINE q == x.xq
           r == y.xq
           m == Len(q)
<1>1. m \in Nat /\ \A i \in 1 .. m : q[i] \in XEvent /\ q[i].window \in XWindows
  BY XqParts
<1>2. Len(r) = m + 1 /\ r[m + 1] = e /\ \A i \in 1 .. m : r[i] = q[i]
  BY XwlParts
<1>3. e.window \in XWindows
  BY DEF XEvent
<1> HIDE DEF q, r, m
<1>4. /\ \A i, j \in 1 .. m : i < j /\ q[i].window = q[j].window => q[j].type \notin naming
      /\ \A i, j \in 1 .. m : next(q, i, j) => follows(q[i].type, q[j].type)
      /\ \A i \in 1 .. m : first(q, i) => expected(x, q[i])
      /\ \A i \in 1 .. m : last(q, i) => leaves(x, q[i])
      /\ \A w \in XWindows : (\A k \in 1 .. m : q[k].window # w) => rests(x, w)
  BY DEF EventInv, q, m
<1>5. \A i, j \in 1 .. Len(r) : i < j /\ r[i].window = r[j].window => r[j].type \notin naming
  <2> SUFFICES ASSUME NEW i \in 1 .. Len(r), NEW j \in 1 .. Len(r), i < j, r[i].window = r[j].window
               PROVE  r[j].type \notin naming
    OBVIOUS
  <2>1. i \in 1 .. m /\ (j \in 1 .. m \/ j = m + 1)
    BY <1>1, <1>2
  <2> QED
    BY <1>2, <1>4, <2>1 DEF q, m
<1>6. \A i, j \in 1 .. Len(r) : next(r, i, j) => follows(r[i].type, r[j].type)
  <2> SUFFICES ASSUME NEW i \in 1 .. Len(r), NEW j \in 1 .. Len(r), next(r, i, j)
               PROVE  follows(r[i].type, r[j].type)
    OBVIOUS
  <2>1. i \in 1 .. m /\ (j \in 1 .. m \/ j = m + 1) /\ r[i] = q[i]
    BY <1>1, <1>2 DEF next
  <2>2. CASE j \in 1 .. m
    <3>0. r[j] = q[j] /\ \A k \in (i + 1) .. (j - 1) : k \in 1 .. m /\ r[k] = q[k]
      BY <1>1, <1>2, <2>1, <2>2
    <3>1. next(q, i, j)
      BY <2>1, <2>2, <3>0 DEF next
    <3> QED
      BY <1>2, <1>4, <2>1, <2>2, <3>1
  <2>3. CASE j = m + 1
    <3>1. q[i].window = e.window /\ last(q, i)
      BY <1>1, <1>2, <2>1, <2>3 DEF next, last, m
    <3> QED
      BY <1>2, <2>1, <2>3, <3>1 DEF q, m
  <2> QED
    BY <2>1, <2>2, <2>3
<1>7. \A i \in 1 .. Len(r) : first(r, i) => expected(y, r[i])
  <2> SUFFICES ASSUME NEW i \in 1 .. Len(r), first(r, i)
               PROVE  expected(y, r[i])
    OBVIOUS
  <2>1. CASE i \in 1 .. m
    <3>1. first(q, i)
      BY <1>1, <1>2, <2>1 DEF first
    <3>2. Told(x, y, q[i].window)
      BY <1>1, <2>1 DEF q, m
    <3> QED
      BY <1>2, <1>4, <2>1, <3>1, <3>2 DEF expected, unread, Told
  <2>2. CASE i = m + 1
    <3>1. \A k \in 1 .. Len(x.xq) : x.xq[k].window # e.window
      BY <1>1, <1>2, <2>2 DEF first, q, m
    <3> QED
      BY <1>2, <2>2, <3>1
  <2> QED
    BY <1>1, <1>2, <2>1, <2>2
<1>8. \A i \in 1 .. Len(r) : last(r, i) => leaves(y, r[i])
  <2> SUFFICES ASSUME NEW i \in 1 .. Len(r), last(r, i)
               PROVE  leaves(y, r[i])
    OBVIOUS
  <2>1. CASE i \in 1 .. m
    <3>1. last(q, i) /\ q[i].window # e.window
      BY <1>1, <1>2, <2>1 DEF last, m
    <3>2. y.x[q[i].window] = x.x[q[i].window]
      BY <1>1, <2>1, <3>1
    <3> QED
      BY <1>2, <1>4, <2>1, <3>1, <3>2 DEF leaves
  <2>2. CASE i = m + 1
    BY <1>2, <2>2
  <2> QED
    BY <1>1, <1>2, <2>1, <2>2
<1>9. \A w \in XWindows : (\A k \in 1 .. Len(r) : r[k].window # w) => rests(y, w)
  <2> SUFFICES ASSUME NEW w \in XWindows, \A k \in 1 .. Len(r) : r[k].window # w
               PROVE  rests(y, w)
    OBVIOUS
  <2>1. w # e.window /\ \A k \in 1 .. m : q[k].window # w
    BY <1>1, <1>2
  <2>2. rests(x, w)
    BY <1>4, <2>1
  <2> QED
    BY <2>1, <2>2 DEF rests, read, in_vain, Told
<1> QED
  BY <1>5, <1>6, <1>7, <1>8, <1>9 DEF EventInv, r

\* A set of natural numbers has a least element.
LEMMA Least ==
  ASSUME NEW S \in SUBSET Nat, S # {}
  PROVE  \E j \in S : \A k \in S : j <= k
<1> DEFINE R == {p \in Nat \X Nat : p[1] < p[2]}
<1>1. OpToRel(<, Nat) = R
  BY Zenon DEF OpToRel
<1>2. IsWellFoundedOn(R, Nat)
  BY <1>1, NatLessThanWellFounded, Zenon
<1>3. \A j, k \in Nat : k < j => <<k, j>> \in R
  OBVIOUS
<1> HIDE DEF R
<1>4. PICK j \in S : \A k \in S : ~ (<<k, j>> \in R)
  BY <1>2, WFMin
<1>5. \A k \in S : ~ (k < j)
  BY <1>3, <1>4
<1> QED
  BY <1>5

\* The first event of a window has a successor unless it is the last one.
LEMMA NextExists ==
  ASSUME NEW x \in XwlRec, NEW i \in 2 .. Len(x.xq), x.xq[i].window = x.xq[1].window
  PROVE  \E j \in 2 .. Len(x.xq) : next(x.xq, 1, j)
<1> DEFINE S == {j \in Nat : j \in 2 .. Len(x.xq) /\ x.xq[j].window = x.xq[1].window}
<1>1. Len(x.xq) \in Nat
  BY XqParts
<1>2. i \in S
  BY <1>1
<1>3. PICK j \in S : \A k \in S : j <= k
  <2> HIDE DEF S
  <2>1. S \in SUBSET Nat
    BY DEF S
  <2> QED
    BY <1>2, <2>1, Least
<1>4. \A k \in 2 .. (j - 1) : x.xq[k].window # x.xq[1].window
  BY <1>1, <1>3
<1> QED
  BY <1>1, <1>3, <1>4 DEF next

\* The first X event is handled: the window is in the state the next one expects.
LEMMA TakeEvent ==
  ASSUME NEW x \in XwlRec, NEW y \in XwlRec, EventInv(x), x.xq # <<>>,
         y.up = x.up, y.names = x.names, y.xq = Tail(x.xq), NEW w, w = x.xq[1].window,
         \A v \in XWindows \ {w} :
           /\ y.x[v] = x.x[v] /\ Told(x, y, v)
           /\ v \in DOMAIN y.win <=> v \in DOMAIN x.win
           /\ v \in DOMAIN x.win => y.win[v] = x.win[v],
         \A e \in XEvent : e.window = w /\ follows(x.xq[1].type, e.type) => expected(y, e),
         x.xq[1].type = "map" \/ y.x[w] = x.x[w],
         leaves(x, x.xq[1]) => rests(y, w)
  PROVE  EventInv(y)
<1> DEFINE q == x.xq
           r == y.xq
           m == Len(q)
<1>1. m \in Nat \ {0} /\ \A i \in 1 .. m : q[i] \in XEvent /\ q[i].window \in XWindows
  BY XqParts, XwlParts
<1>2. Len(r) = m - 1 /\ \A i \in 1 .. (m - 1) : r[i] = q[i + 1]
  BY <1>1, XwlParts
<1>3. x.up
  BY DEF EventInv
<1>4. /\ \A i, j \in 1 .. m : i < j /\ q[i].window = q[j].window => q[j].type \notin naming
      /\ \A i, j \in 1 .. m : next(q, i, j) => follows(q[i].type, q[j].type)
      /\ \A i \in 1 .. m : first(q, i) => expected(x, q[i])
      /\ \A i \in 1 .. m : last(q, i) => leaves(x, q[i])
      /\ \A v \in XWindows : (\A k \in 1 .. m : q[k].window # v) => rests(x, v)
  BY <1>3 DEF EventInv
<1>5. \A i \in 2 .. m : q[i].window = w => \E j \in 2 .. m : next(q, 1, j)
  BY NextExists
<1> HIDE DEF q, r, m
<1>6. \A i, j \in 1 .. Len(r) : i < j /\ r[i].window = r[j].window => r[j].type \notin naming
  <2> SUFFICES ASSUME NEW i \in 1 .. Len(r), NEW j \in 1 .. Len(r),
                      i < j, r[i].window = r[j].window
               PROVE  r[j].type \notin naming
    OBVIOUS
  <2>1. /\ i + 1 \in 1 .. m /\ j + 1 \in 1 .. m /\ i + 1 < j + 1
        /\ r[i] = q[i + 1] /\ r[j] = q[j + 1]
    BY <1>1, <1>2
  <2> QED
    BY <1>4, <2>1
<1>7. \A i, j \in 1 .. Len(r) : next(r, i, j) => follows(r[i].type, r[j].type)
  <2> SUFFICES ASSUME NEW i \in 1 .. Len(r), NEW j \in 1 .. Len(r), next(r, i, j)
               PROVE  follows(r[i].type, r[j].type)
    OBVIOUS
  <2>1. next(q, i + 1, j + 1)
    <3>1. \A k \in (i + 2) .. j : q[k].window # q[i + 1].window
      <4> SUFFICES ASSUME NEW k \in (i + 2) .. j
                   PROVE  q[k].window # q[i + 1].window
        OBVIOUS
      <4>1. k - 1 \in (i + 1) .. (j - 1) /\ k - 1 \in 1 .. (m - 1) /\ (k - 1) + 1 = k
        BY <1>1, <1>2
      <4> QED
        BY <1>2, <4>1 DEF next
    <3> QED
      BY <1>1, <1>2, <3>1 DEF next
  <2> QED
    BY <1>1, <1>2, <1>4, <2>1
<1>8. \A i \in 1 .. Len(r) : first(r, i) => expected(y, r[i])
  <2> SUFFICES ASSUME NEW i \in 1 .. Len(r), first(r, i)
               PROVE  expected(y, r[i])
    OBVIOUS
  <2>0. i + 1 \in 1 .. m /\ r[i] = q[i + 1]
    BY <1>1, <1>2
  <2>1. \A k \in 2 .. i : q[k].window # q[i + 1].window
    <3> SUFFICES ASSUME NEW k \in 2 .. i
                 PROVE  q[k].window # q[i + 1].window
      OBVIOUS
    <3>1. k - 1 \in 1 .. (i - 1) /\ k - 1 \in 1 .. (m - 1) /\ (k - 1) + 1 = k
      BY <1>1, <1>2
    <3> QED
      BY <1>2, <2>0, <3>1 DEF first
  <2>2. CASE q[i + 1].window = w
    <3>1. next(q, 1, i + 1)
      BY <1>1, <2>0, <2>1, <2>2 DEF next, q
    <3>2. follows(q[1].type, q[i + 1].type)
      BY <1>1, <1>4, <2>0, <3>1
    <3> QED
      BY <1>1, <2>0, <2>2, <3>2 DEF q
  <2>3. CASE q[i + 1].window # w
    <3>1. first(q, i + 1)
      BY <1>1, <2>0, <2>1, <2>3 DEF first, q
    <3>2. expected(x, q[i + 1])
      BY <1>4, <2>0, <3>1
    <3> QED
      BY <1>1, <2>0, <2>3, <3>2 DEF expected, unread, Told
  <2> QED
    BY <2>2, <2>3
<1>9. \A i \in 1 .. Len(r) : last(r, i) => leaves(y, r[i])
  <2> SUFFICES ASSUME NEW i \in 1 .. Len(r), last(r, i)
               PROVE  leaves(y, r[i])
    OBVIOUS
  <2>0. i + 1 \in 2 .. m /\ r[i] = q[i + 1] /\ i + 1 \in 1 .. m
    BY <1>1, <1>2
  <2>1. last(q, i + 1)
    <3> SUFFICES ASSUME NEW k \in (i + 2) .. m
                 PROVE  q[k].window # q[i + 1].window
      BY <1>1, <2>0 DEF last, m
    <3>1. k - 1 \in (i + 1) .. Len(r) /\ k - 1 \in 1 .. (m - 1) /\ (k - 1) + 1 = k
      BY <1>1, <1>2
    <3> QED
      BY <1>2, <2>0, <3>1 DEF last
  <2>2. leaves(x, q[i + 1])
    BY <1>4, <2>0, <2>1
  <2>3. y.x[q[i + 1].window] = x.x[q[i + 1].window]
    <3>1. CASE q[i + 1].window # w
      BY <1>1, <2>0, <3>1
    <3>2. CASE q[i + 1].window = w
      <4>1. PICK j \in 2 .. m : next(q, 1, j)
        BY <1>5, <2>0, <3>2
      <4>2. follows(q[1].type, q[j].type)
        BY <1>1, <1>4, <4>1
      <4>3. q[1].type # "map"
        BY <4>2 DEF follows, naming
      <4> QED
        BY <3>2, <4>3 DEF q
    <3> QED
      BY <3>1, <3>2
  <2> QED
    BY <2>0, <2>2, <2>3 DEF leaves
<1>10. \A v \in XWindows : (\A k \in 1 .. Len(r) : r[k].window # v) => rests(y, v)
  <2> SUFFICES ASSUME NEW v \in XWindows, \A k \in 1 .. Len(r) : r[k].window # v
               PROVE  rests(y, v)
    OBVIOUS
  <2>1. \A k \in 2 .. m : q[k].window # v
    <3> SUFFICES ASSUME NEW k \in 2 .. m
                 PROVE  q[k].window # v
      OBVIOUS
    <3>1. k - 1 \in 1 .. (m - 1) /\ (k - 1) + 1 = k
      BY <1>1
    <3> QED
      BY <1>2, <3>1
  <2>2. CASE v = w
    <3>1. last(q, 1)
      BY <1>1, <2>1, <2>2 DEF last, q, m
    <3> QED
      BY <1>1, <1>4, <2>2, <3>1 DEF q
  <2>3. CASE v # w
    <3>1. rests(x, v)
      BY <1>1, <1>4, <2>1, <2>3 DEF q
    <3> QED
      BY <2>3, <3>1 DEF rests, read, in_vain, Told
  <2> QED
    BY <2>2, <2>3
<1> QED
  BY <1>3, <1>6, <1>7, <1>8, <1>9, <1>10 DEF EventInv, r

\* Xwayland and its clients change nothing but what is on its way.
LEMMA XwlStep ==
  ASSUME IInv, NEW y \in XwlRec, d' = d, surf' = surf, seat' = seat, out' = out, xwl' = y,
         y.win = xwl.win, y.managed = xwl.managed, EventInv(y), OrderInv(surf, y)
  PROVE  IInv'
<1>1. WindowInv(d', xwl')
  BY WindowFrame, SameBacksSame DEF IInv, Sound
<1> QED
  BY <1>1 DEF IInv, Typed, Sound

\* More requests do not revive a wl_surface,
LEMMA RetiredMore ==
  ASSUME NEW f, NEW x \in XwlRec, NEW y \in XwlRec, NEW e \in WlRequest, NEW n,
         y.wq = x.wq \/ y.wq = Append(x.wq, e), retired(f, x.wq, n)
  PROVE  retired(f, y.wq, n)
<1>1. x.wq \in Seq(WlRequest)
  BY XwlParts
<1>2. \A i \in 1 .. Len(x.wq) : i \in 1 .. Len(y.wq) /\ y.wq[i] = x.wq[i]
  BY <1>1
<1> QED
  BY <1>2 DEF retired, pends

\* nor put the new one before the old one.
LEMMA SupersededMore ==
  ASSUME NEW f, NEW x \in XwlRec, NEW y \in XwlRec, NEW e \in WlRequest, NEW old, NEW n,
         y.wq = x.wq \/ y.wq = Append(x.wq, e), superseded(f, x.wq, old, n)
  PROVE  superseded(f, y.wq, old, n)
<1>1. x.wq \in Seq(WlRequest)
  BY XwlParts
<1>2. \A i \in 1 .. Len(x.wq) : i \in 1 .. Len(y.wq) /\ y.wq[i] = x.wq[i]
  BY <1>1
<1> QED
  BY <1>2 DEF superseded, pends

\* The windows keep their wl_surfaces while more is sent about them.
LEMMA OrderPlain ==
  ASSUME NEW f, NEW x \in XwlRec, NEW y \in XwlRec, NEW e \in XEvent, e.type \notin naming,
         OrderInv(f, x), y.up = x.up, y.made = x.made, y.wq = x.wq, y.win = x.win,
         y.xq = Append(x.xq, e),
         \A v \in XWindows : /\ y.x[v].wl = x.x[v].wl
                             /\ y.x[v].st = "mapped" <=> x.x[v].st = "mapped"
  PROVE  OrderInv(f, y)
<1>1. MadeInv(f, y)
  BY DEF OrderInv, MadeInv, made
<1>2. \A i \in 1 .. Len(y.xq) : y.xq[i].type \in naming => i \in 1 .. Len(x.xq) /\ y.xq[i] = x.xq[i]
  BY XwlParts
<1>3. \A v \in XWindows : \A n : has_now(x, v, n) => has_now(y, v, n)
  BY DEF has_now
<1>4. OldInv(f, y)
  <2> SUFFICES ASSUME y.up
               PROVE  /\ \A w \in DOMAIN y.win : Held(f, y, w)
                      /\ \A i \in 1 .. Len(y.xq) : y.xq[i].type \in naming => Named(f, y, y.xq[i])
    BY DEF OldInv
  <2>1. OldInv(f, x) /\ x.up
    BY DEF OrderInv
  <2>2. ASSUME NEW w \in DOMAIN y.win
        PROVE  Held(f, y, w)
    <3>1. w \in XWindows /\ Held(f, x, w)
      BY <2>1, XwlParts DEF OldInv
    <3> QED
      BY <1>3, <3>1 DEF Held
  <2>3. ASSUME NEW i \in 1 .. Len(y.xq), y.xq[i].type \in naming
        PROVE  Named(f, y, y.xq[i])
    <3>1. i \in 1 .. Len(x.xq) /\ y.xq[i] = x.xq[i] /\ x.xq[i].type \in naming
      BY <1>2, <2>3
    <3>2. x.xq[i].window \in XWindows /\ Named(f, x, x.xq[i])
      BY <2>1, <3>1, XqParts DEF OldInv
    <3> QED
      BY <1>3, <3>1, <3>2 DEF Named
  <2> QED
    BY <2>2, <2>3
<1> QED
  BY <1>1, <1>4 DEF OrderInv

\* A window and its wl_surface part.
LEMMA OrderUnrealize ==
  ASSUME NEW f, NEW x \in XwlRec, NEW y \in XwlRec, NEW w \in XWindows, NEW e \in XEvent,
         OrderInv(f, x), x.x[w].st = "mapped", y.up = x.up, y.made = x.made, y.win = x.win,
         y.xq = Append(x.xq, e), e.type \notin naming,
         y.wq = Append(x.wq, [type |-> "destroy", wl |-> x.x[w].wl]),
         y.x[w].st = "unmapped", y.x[w].wl = None, \A v \in XWindows \ {w} : y.x[v] = x.x[v]
  PROVE  OrderInv(f, y)
<1> DEFINE n == x.x[w].wl
           z == [type |-> "destroy", wl |-> n]
           m == Len(x.wq)
<1>0. made(x, n) /\ MadeInv(f, x)
  BY DEF OrderInv, MadeInv
<1>1. /\ z \in WlRequest /\ m \in Nat /\ Len(y.wq) = m + 1 /\ y.wq[m + 1] = z
      /\ \A i \in 1 .. m : y.wq[i] = x.wq[i]
  <2>1. y.wq[Len(y.wq)] = z /\ y.wq \in Seq(WlRequest) /\ x.wq \in Seq(WlRequest)
        /\ Len(y.wq) = Len(x.wq) + 1
    BY XwlParts
  <2> QED
    BY <2>1
<1>2. MadeInv(f, y)
  <2>1. \A k : made(y, k) <=> made(x, k)
    BY DEF made
  <2>2. \A i \in 1 .. Len(y.wq) : made(y, y.wq[i].wl)
    BY <1>0, <1>1, <2>1 DEF MadeInv
  <2>3. ASSUME NEW i \in 1 .. Len(y.wq), y.wq[i].type = "create"
        PROVE  /\ f[y.wq[i].wl].life = "none"
               /\ \A j \in 1 .. Len(y.wq) :
                    y.wq[j].wl = y.wq[i].wl => i <= j /\ (i # j => y.wq[j].type = "destroy")
    <3>1. i \in 1 .. m /\ y.wq[i] = x.wq[i]
      BY <1>1, <2>3
    <3> QED
      BY <1>0, <1>1, <2>3, <3>1 DEF MadeInv
  <2>4. \A v \in XWindows : IF y.x[v].st = "mapped" THEN made(y, y.x[v].wl) ELSE y.x[v].wl = None
    BY <1>0, <2>1 DEF MadeInv
  <2>5. y.made <= Len(XSurfaces) /\ \A k \in Range(XSurfaces) : made(y, k) \/ f[k].life = "none"
    BY <1>0, <2>1 DEF MadeInv
  <2> QED
    BY <2>2, <2>3, <2>4, <2>5 DEF MadeInv
<1>3. \A k : retired(f, x.wq, k) => retired(f, y.wq, k)
  BY <1>1, RetiredMore
<1>4. retired(f, y.wq, n)
  BY <1>1 DEF retired, pends
<1> HIDE DEF n
<1>5. \A v \in XWindows : \A k : has_now(x, v, k) => has_now(y, v, k) \/ retired(f, y.wq, k)
  BY <1>4 DEF has_now, n
<1>6. OldInv(f, y)
  <2> SUFFICES ASSUME y.up
               PROVE  /\ \A v \in DOMAIN y.win : Held(f, y, v)
                      /\ \A i \in 1 .. Len(y.xq) : y.xq[i].type \in naming => Named(f, y, y.xq[i])
    BY DEF OldInv
  <2>1. OldInv(f, x) /\ x.up
    BY DEF OrderInv
  <2>2. ASSUME NEW v \in DOMAIN y.win
        PROVE  Held(f, y, v)
    <3>1. v \in XWindows /\ Held(f, x, v)
      BY <2>1, XwlParts DEF OldInv
    <3> QED
      BY <1>3, <1>5, <3>1 DEF Held
  <2>3. ASSUME NEW i \in 1 .. Len(y.xq), y.xq[i].type \in naming
        PROVE  Named(f, y, y.xq[i])
    <3>1. i \in 1 .. Len(x.xq) /\ y.xq[i] = x.xq[i] /\ x.xq[i].type \in naming
      BY <2>3, XwlParts
    <3>2. x.xq[i].window \in XWindows /\ Named(f, x, x.xq[i])
      BY <2>1, <3>1, XqParts DEF OldInv
    <3>3. y.wq = Append(x.wq, z) /\ z \in WlRequest
      BY <1>1 DEF n
    <3> HIDE DEF z
    <3>4. \A o, k : superseded(f, x.wq, o, k) => superseded(f, y.wq, o, k)
      BY <3>3, SupersededMore
    <3> QED
      BY <1>3, <1>5, <3>1, <3>2, <3>4 DEF Named
  <2> QED
    BY <2>2, <2>3
<1> QED
  BY <1>2, <1>6 DEF OrderInv

\* A window gets the next wl_surface, and Xwayland names it.
LEMMA OrderRealize ==
  ASSUME NEW f, NEW x \in XwlRec, NEW y \in XwlRec, NEW e \in XEvent, e.window \in XWindows,
         OrderInv(f, x), x.x[e.window].st = "mapping", x.made < Len(XSurfaces),
         e.wl = XSurfaces[x.made + 1],
         y.up = x.up, y.made = x.made + 1, y.win = x.win, y.xq = Append(x.xq, e),
         y.wq = Append(x.wq, [type |-> "create", wl |-> e.wl]),
         has_now(y, e.window, e.wl), \A v \in XWindows \ {e.window} : y.x[v] = x.x[v]
  PROVE  OrderInv(f, y)
<1> DEFINE n == e.wl
           w == e.window
           z == [type |-> "create", wl |-> n]
           m == Len(x.wq)
<1>h. y.x[w].st = "mapped" /\ y.x[w].wl = n
  BY DEF has_now
<1>0. MadeInv(f, x) /\ x.made \in Nat /\ Len(XSurfaces) \in Nat
  BY XwlParts, SurfaceAssumption DEF OrderInv
<1>a. n \in Range(XSurfaces) /\ ~ made(x, n)
  <2>1. \A i, j \in 1 .. Len(XSurfaces) : XSurfaces[i] = XSurfaces[j] => i = j
    BY SurfaceAssumption DEF IsInjective
  <2>2. x.made + 1 \in 1 .. Len(XSurfaces) /\ DOMAIN XSurfaces = 1 .. Len(XSurfaces)
    BY <1>0, SurfaceAssumption
  <2>3. \A k \in 1 .. x.made : k \in 1 .. Len(XSurfaces) /\ k # x.made + 1
    BY <1>0
  <2> QED
    BY <2>1, <2>2, <2>3 DEF made, Range
<1>b. f[n].life = "none"
  BY <1>0, <1>a DEF MadeInv
<1>c. \A k : made(y, k) <=> made(x, k) \/ k = n
  BY <1>0 DEF made
<1>1. /\ z \in WlRequest /\ m \in Nat /\ Len(y.wq) = m + 1 /\ y.wq[m + 1] = z
      /\ \A i \in 1 .. m : y.wq[i] = x.wq[i]
  <2>1. y.wq[Len(y.wq)] = z /\ y.wq \in Seq(WlRequest) /\ x.wq \in Seq(WlRequest)
        /\ Len(y.wq) = Len(x.wq) + 1
    BY XwlParts
  <2> QED
    BY <2>1
<1>2. MadeInv(f, y)
  <2>2. \A i \in 1 .. Len(y.wq) : made(y, y.wq[i].wl)
    BY <1>0, <1>1, <1>c DEF MadeInv
  <2>3. ASSUME NEW i \in 1 .. Len(y.wq), y.wq[i].type = "create"
        PROVE  /\ f[y.wq[i].wl].life = "none"
               /\ \A j \in 1 .. Len(y.wq) :
                    y.wq[j].wl = y.wq[i].wl => i <= j /\ (i # j => y.wq[j].type = "destroy")
    <3>0. \A j \in 1 .. m : x.wq[j].wl # n
      BY <1>0, <1>a DEF MadeInv
    <3>1. CASE i \in 1 .. m
      BY <1>0, <1>1, <2>3, <3>0, <3>1 DEF MadeInv
    <3>2. CASE i = m + 1
      BY <1>1, <1>b, <3>0, <3>2
    <3> QED
      BY <1>1, <3>1, <3>2
  <2>4. \A v \in XWindows : IF y.x[v].st = "mapped" THEN made(y, y.x[v].wl) ELSE y.x[v].wl = None
    <3> SUFFICES ASSUME NEW v \in XWindows
                 PROVE  IF y.x[v].st = "mapped" THEN made(y, y.x[v].wl) ELSE y.x[v].wl = None
      OBVIOUS
    <3>1. IF x.x[v].st = "mapped" THEN made(x, x.x[v].wl) ELSE x.x[v].wl = None
      BY <1>0 DEF MadeInv
    <3> QED
      BY <1>0, <1>c, <1>h, <3>1
  <2>5. y.made <= Len(XSurfaces) /\ \A k \in Range(XSurfaces) : made(y, k) \/ f[k].life = "none"
    BY <1>0, <1>c, <1>h DEF MadeInv
  <2> QED
    BY <2>2, <2>3, <2>4, <2>5 DEF MadeInv
<1>3. \A k : retired(f, x.wq, k) => retired(f, y.wq, k)
  BY <1>1, RetiredMore
<1>5. \A v \in XWindows : \A k : has_now(x, v, k) => has_now(y, v, k)
  BY DEF has_now
<1>6. OldInv(f, y)
  <2> SUFFICES ASSUME y.up
               PROVE  /\ \A v \in DOMAIN y.win : Held(f, y, v)
                      /\ \A i \in 1 .. Len(y.xq) : y.xq[i].type \in naming => Named(f, y, y.xq[i])
    BY DEF OldInv
  <2>1. OldInv(f, x) /\ x.up
    BY DEF OrderInv
  <2>2. ASSUME NEW v \in DOMAIN y.win
        PROVE  Held(f, y, v)
    <3>1. v \in XWindows /\ Held(f, x, v)
      BY <2>1, XwlParts DEF OldInv
    <3> QED
      BY <1>3, <1>5, <3>1 DEF Held
  <2>3. ASSUME NEW i \in 1 .. Len(y.xq), y.xq[i].type \in naming
        PROVE  Named(f, y, y.xq[i])
    <3>0. y.xq[Len(x.xq) + 1] = e /\ Len(x.xq) \in Nat /\ Len(y.xq) = Len(x.xq) + 1
      BY XwlParts
    <3>1. CASE i \in 1 .. Len(x.xq)
      <4>1. y.xq[i] = x.xq[i] /\ x.xq[i].type \in naming
        BY <2>3, <3>1, XwlParts
      <4>2. x.xq[i].window \in XWindows /\ Named(f, x, x.xq[i])
        BY <2>1, <3>1, <4>1, XqParts DEF OldInv
      <4>3. \A o, k : superseded(f, x.wq, o, k) => superseded(f, y.wq, o, k)
        BY <1>1, SupersededMore
      <4> QED
        BY <1>3, <1>5, <4>1, <4>2, <4>3 DEF Named
    <3>2. CASE i = Len(x.xq) + 1
      <4>1. has_now(y, w, n)
        OBVIOUS
      <4>2. ASSUME w \in DOMAIN y.win, y.win[w].wl \notin {None, n}
            PROVE  superseded(f, y.wq, y.win[w].wl, n)
        <5>1. retired(f, x.wq, x.win[w].wl)
          BY <2>1, <4>2 DEF OldInv, Held, has_now
        <5>2. CASE f[x.win[w].wl].life = "dead"
          BY <5>2 DEF superseded
        <5>3. ASSUME NEW a \in 1 .. m, pends(x.wq, a, "destroy", x.win[w].wl)
              PROVE  superseded(f, y.wq, y.win[w].wl, n)
          <6>1. a \in 1 .. Len(y.wq) /\ m + 1 \in 1 .. Len(y.wq) /\ a < m + 1
            BY <1>1
          <6>2. pends(y.wq, a, "destroy", y.win[w].wl) /\ pends(y.wq, m + 1, "create", n)
            BY <1>1, <5>3, <6>1 DEF pends
          <6> QED
            BY <6>1, <6>2 DEF superseded
        <5> QED
          BY <5>1, <5>2, <5>3 DEF retired
      <4> QED
        BY <3>0, <3>2, <4>1, <4>2 DEF Named
    <3> QED
      BY <3>0, <3>1, <3>2
  <2> QED
    BY <2>2, <2>3
<1> QED
  BY <1>2, <1>6 DEF OrderInv

\* What Xwayland has said last about a window is how the window is.
LEMMA LastSent ==
  ASSUME NEW x \in XwlRec, x.up, EventInv(x), NEW w \in XWindows
  PROVE  /\ \A i \in 1 .. Len(x.xq) : x.xq[i].window = w /\ last(x.xq, i) =>
              leaves(x, x.xq[i]) /\ x.xq[i].type \in {"create", "map", "unmap", "destroy"} \cup naming
         /\ (\A k \in 1 .. Len(x.xq) : x.xq[k].window # w) => rests(x, w)
BY XqParts DEF EventInv

\* Xwayland after it has sent an event of window w.
sent(x, w, type, st) == [x EXCEPT !.x[w].st = st, !.xq = Append(@, event(type, w))]

\* An event that names no wl_surface may be sent.
LEMMA SendPlain ==
  ASSUME NEW f, NEW x \in XwlRec, NEW w \in XWindows, x.up, EventInv(x), OrderInv(f, x), NEW type, NEW st,
         <<type, x.x[w].st, st>> \in {<<"create", "none", "unmapped">>, <<"map", "unmapped", "asked">>,
                                      <<"destroy", "unmapped", "gone">>}
  PROVE  LET y == sent(x, w, type, st)
         IN  y \in XwlRec /\ y.win = x.win /\ y.managed = x.managed /\ EventInv(y) /\ OrderInv(f, y)
<1> DEFINE v == [x.x[w] EXCEPT !.st = st]
           e == event(type, w)
           y == sent(x, w, type, st)
<1>1. x.x \in [XWindows -> XRec] /\ x.xq \in Seq(XEvent) /\ x.x[w] \in XRec
  BY XwlParts
<1>2. v \in XRec /\ v.st = st /\ v.wl = x.x[w].wl
  BY <1>1 DEF XRec
<1>3. e \in XEvent /\ e.type = type /\ e.window = w /\ type \notin naming
      /\ type \in {"create", "map", "destroy"} /\ st \notin {"mapped", "mapping"} /\ x.x[w].st # "mapped"
  BY DEF event, XEvent, naming
<1>4. /\ y \in XwlRec /\ y.win = x.win /\ y.managed = x.managed /\ y.up = x.up /\ y.made = x.made
      /\ y.wq = x.wq /\ y.xq = Append(x.xq, e) /\ y.early = x.early /\ y.again = x.again
      /\ y.names = x.names /\ y.x = [x.x EXCEPT ![w] = v]
  <2> HIDE DEF e, v
  <2>1. y = [x EXCEPT !.x = [x.x EXCEPT ![w] = v], !.xq = Append(x.xq, e)]
    BY DEF sent, XwlRec, e, v
  <2>2. [x.x EXCEPT ![w] = v] \in [XWindows -> XRec] /\ Append(x.xq, e) \in Seq(XEvent)
    BY <1>1, <1>2, <1>3
  <2> HIDE DEF y
  <2> QED
    BY <2>1, <2>2 DEF XwlRec
<1> HIDE DEF y, e, v
<1>5. y.x[w] = v /\ \A u \in XWindows \ {w} : y.x[u] = x.x[u]
  BY <1>1, <1>4
<1>6. OrderInv(f, y)
  <2>1. \A u \in XWindows : y.x[u].wl = x.x[u].wl /\ (y.x[u].st = "mapped" <=> x.x[u].st = "mapped")
    BY <1>2, <1>3, <1>5
  <2> QED
    BY <1>3, <1>4, <2>1, OrderPlain, ZenonT(60)
<1>7. \A i \in 1 .. Len(x.xq) : x.xq[i].window = e.window /\ last(x.xq, i) => follows(x.xq[i].type, e.type)
  BY <1>3, LastSent DEF leaves, follows, naming
<1>8. (\A k \in 1 .. Len(x.xq) : x.xq[k].window # e.window) => expected(x, e)
  BY <1>3, LastSent DEF rests, expected, naming
<1>9. leaves(y, e)
  BY <1>2, <1>3, <1>5 DEF leaves, naming
<1>10. EventInv(y)
  <2>1. \A u : Told(x, y, u)
    BY <1>4 DEF Told
  <2>2. expected(x, e) => expected(y, e)
    BY <1>3, <1>4 DEF expected
  <2> QED
    BY <1>3, <1>4, <1>5, <1>7, <1>8, <1>9, <2>1, <2>2, SendEvent
<1> QED
  BY <1>4, <1>6, <1>10 DEF y

\* Xwayland after the wl_surface of window w is no more.
unrealized(x, w) ==
  [x EXCEPT !.x[w] = [st |-> "unmapped", wl |-> None],
            !.wq = Append(@, [type |-> "destroy", wl |-> x.x[w].wl]),
            !.xq = Append(@, event("unmap", w))]

\* So may those of a window that loses its wl_surface.
LEMMA SendUnrealize ==
  ASSUME NEW f, NEW x \in XwlRec, NEW w \in XWindows, x.up, EventInv(x), OrderInv(f, x), x.x[w].st = "mapped"
  PROVE  LET y == unrealized(x, w)
         IN  y \in XwlRec /\ y.win = x.win /\ y.managed = x.managed /\ EventInv(y) /\ OrderInv(f, y)
             /\ y.up = x.up /\ y.x[w].st = "unmapped"
<1> DEFINE v == [st |-> "unmapped", wl |-> None]
           z == [type |-> "destroy", wl |-> x.x[w].wl]
           e == event("unmap", w)
           y == unrealized(x, w)
<1>1. x.x \in [XWindows -> XRec] /\ x.xq \in Seq(XEvent) /\ x.x[w] \in XRec /\ x.wq \in Seq(WlRequest)
  BY XwlParts
<1>2. v \in XRec /\ v.st = "unmapped" /\ v.wl = None
  BY DEF XRec, XNames
<1>3. e \in XEvent /\ e.type = "unmap" /\ e.window = w /\ e.type \notin naming
  BY DEF event, XEvent, naming
<1>a. z \in WlRequest
  <2>1. made(x, x.x[w].wl) /\ x.made <= Len(XSurfaces) /\ x.made \in Nat
    BY XwlParts DEF OrderInv, MadeInv
  <2>2. x.x[w].wl \in Range(XSurfaces)
    BY <2>1, SurfaceAssumption DEF made, Range
  <2> QED
    BY <2>2 DEF WlRequest
<1>4. /\ y \in XwlRec /\ y.win = x.win /\ y.managed = x.managed /\ y.up = x.up /\ y.made = x.made
      /\ y.wq = Append(x.wq, z) /\ y.xq = Append(x.xq, e) /\ y.early = x.early /\ y.again = x.again /\ y.names = x.names
      /\ y.x = [x.x EXCEPT ![w] = v]
  <2> HIDE DEF e, v, z
  <2>1. y = [x EXCEPT !.x = [x.x EXCEPT ![w] = v], !.wq = Append(x.wq, z), !.xq = Append(x.xq, e)]
    BY DEF unrealized, XwlRec, e, v, z
  <2>2. /\ [x.x EXCEPT ![w] = v] \in [XWindows -> XRec] /\ Append(x.xq, e) \in Seq(XEvent)
        /\ Append(x.wq, z) \in Seq(WlRequest)
    BY <1>1, <1>2, <1>3, <1>a
  <2> HIDE DEF y
  <2> QED
    BY <2>1, <2>2 DEF XwlRec
<1> HIDE DEF y, e, v
<1>5. y.x[w] = v /\ \A u \in XWindows \ {w} : y.x[u] = x.x[u]
  BY <1>1, <1>4
<1>6. OrderInv(f, y)
  BY <1>2, <1>3, <1>4, <1>5, OrderUnrealize, ZenonT(60)
<1>7. \A i \in 1 .. Len(x.xq) : x.xq[i].window = e.window /\ last(x.xq, i) => follows(x.xq[i].type, e.type)
  BY <1>3, LastSent DEF leaves, follows, naming
<1>8. (\A k \in 1 .. Len(x.xq) : x.xq[k].window # e.window) => expected(x, e)
  BY <1>3, LastSent DEF rests, expected, naming
<1>9. leaves(y, e)
  BY <1>2, <1>3, <1>5 DEF leaves, naming
<1>10. EventInv(y)
  <2>1. \A u : Told(x, y, u)
    BY <1>4 DEF Told
  <2>2. expected(x, e) => expected(y, e)
    BY <1>3, <1>4 DEF expected
  <2> QED
    BY <1>3, <1>4, <1>5, <1>7, <1>8, <1>9, <2>1, <2>2, SendEvent
<1> QED
  BY <1>2, <1>4, <1>5, <1>6, <1>10 DEF y

\* What X clients do keeps the invariant.
LEMMA XClientKeeps ==
  ASSUME IInv, NEW w \in XWindows, XClient(w)
  PROVE  IInv'
<1>1. xwl.up /\ xwl \in XwlRec /\ EventInv(xwl) /\ OrderInv(surf, xwl) /\ xwl.x[w] \in XRec
  BY XwlParts DEF XClient, IInv, Typed, Sound
<1>2. ASSUME NEW type, NEW st, Becomes(send_x([here EXCEPT !.xwl.x[w].st = st], event(type, w)))
      PROVE  UNCHANGED <<d, surf, seat, out>> /\ xwl' = sent(xwl, w, type, st)
  <2>1. UNCHANGED <<d, surf, seat, out>>
    BY <1>2 DEF Becomes, send_x, here
  <2>2. xwl' = [[xwl EXCEPT !.x[w].st = st] EXCEPT !.xq = Append(@, event(type, w))]
    BY <1>2 DEF Becomes, send_x, here
  <2> QED
    BY <1>1, <2>1, <2>2 DEF sent, XwlRec
<1>3. unrealize(here, w) = [here EXCEPT !.xwl = unrealized(xwl, w)]
  <2> DEFINE z == [type |-> "destroy", wl |-> xwl.x[w].wl]
             a == [xwl EXCEPT !.x[w] = [st |-> "unmapped", wl |-> None]]
             b == [a EXCEPT !.wq = Append(@, z)]
             c == [b EXCEPT !.xq = Append(@, event("unmap", w))]
  <2>1. /\ unrealize(here, w) = send_x(send_wl([here EXCEPT !.xwl.x[w] = [st |-> "unmapped", wl |-> None]], z),
                                        event("unmap", w))
        /\ [here EXCEPT !.xwl.x[w] = [st |-> "unmapped", wl |-> None]] = [here EXCEPT !.xwl = a]
    BY DEF unrealize, here
  <2>2. c = unrealized(xwl, w)
    BY <1>1 DEF unrealized, XwlRec
  <2> HIDE DEF a, z
  <2>3. send_wl([here EXCEPT !.xwl = a], z) = [here EXCEPT !.xwl = b]
    BY DEF send_wl, here
  <2> HIDE DEF b
  <2>4. send_x([here EXCEPT !.xwl = b], event("unmap", w)) = [here EXCEPT !.xwl = c]
    BY DEF send_x, here
  <2> HIDE DEF c
  <2> QED
    BY <2>1, <2>2, <2>3, <2>4
<1>4. CASE xwl.x[w].st = "none" /\ Becomes(send_x([here EXCEPT !.xwl.x[w].st = "unmapped"], event("create", w)))
  <2>1. UNCHANGED <<d, surf, seat, out>> /\ xwl' = sent(xwl, w, "create", "unmapped")
    BY <1>2, <1>4
  <2> QED
    BY <1>1, <1>4, <2>1, SendPlain, XwlStep
<1>5. CASE xwl.x[w].st = "unmapped" /\ Becomes(send_x([here EXCEPT !.xwl.x[w].st = "asked"], event("map", w)))
  <2>1. UNCHANGED <<d, surf, seat, out>> /\ xwl' = sent(xwl, w, "map", "asked")
    BY <1>2, <1>5
  <2> QED
    BY <1>1, <1>5, <2>1, SendPlain, XwlStep
<1>6. CASE xwl.x[w].st = "mapped" /\ Becomes(unrealize(here, w))
  <2>1. UNCHANGED <<d, surf, seat, out>> /\ xwl' = unrealized(xwl, w)
    BY <1>3, <1>6 DEF Becomes, here
  <2> QED
    BY <1>1, <1>6, <2>1, SendUnrealize, XwlStep
<1>7. CASE xwl.x[w].st = "unmapped" /\ Becomes(send_x([here EXCEPT !.xwl.x[w].st = "gone"], event("destroy", w)))
  <2>1. UNCHANGED <<d, surf, seat, out>> /\ xwl' = sent(xwl, w, "destroy", "gone")
    BY <1>2, <1>7
  <2> QED
    BY <1>1, <1>7, <2>1, SendPlain, XwlStep
<1>8. CASE /\ xwl.x[w].st = "mapped"
           /\ Becomes(send_x([unrealize(here, w) EXCEPT !.xwl.x[w].st = "gone"], event("destroy", w)))
  <2> DEFINE y == unrealized(xwl, w)
             z == sent(y, w, "destroy", "gone")
  <2>1. y \in XwlRec /\ y.win = xwl.win /\ y.managed = xwl.managed /\ EventInv(y) /\ OrderInv(surf, y)
        /\ y.up = xwl.up /\ y.x[w].st = "unmapped"
    BY <1>1, <1>8, SendUnrealize
  <2> HIDE DEF y
  <2>2. z \in XwlRec /\ z.win = y.win /\ z.managed = y.managed /\ EventInv(z) /\ OrderInv(surf, z)
    <3>1. y.up /\ <<"destroy", y.x[w].st, "gone">> = <<"destroy", "unmapped", "gone">>
      BY <1>1, <2>1
    <3> QED
      BY <2>1, <3>1, SendPlain
  <2>3. Becomes(send_x([[here EXCEPT !.xwl = y] EXCEPT !.xwl.x[w].st = "gone"], event("destroy", w)))
    BY <1>3, <1>8 DEF y
  <2>4. UNCHANGED <<d, surf, seat, out>>
        /\ xwl' = [[y EXCEPT !.x[w].st = "gone"] EXCEPT !.xq = Append(@, event("destroy", w))]
    BY <2>3 DEF Becomes, send_x, here
  <2>5. xwl' = z
    BY <2>1, <2>4 DEF sent, XwlRec
  <2> HIDE DEF z
  <2> QED
    BY <2>1, <2>2, <2>4, <2>5, XwlStep
<1> QED
  BY <1>4, <1>5, <1>6, <1>7, <1>8 DEF XClient

\* So does Xwayland when it makes the wl_surface of a window and names it.
LEMMA RealizeKeeps ==
  ASSUME IInv, NEW w \in XWindows, Realize(w)
  PROVE  IInv'
<1> DEFINE n == XSurfaces[xwl.made + 1]
           v == [st |-> "mapped", wl |-> n]
           z == [type |-> "create", wl |-> n]
           e == [type |-> xwl.names, window |-> w, wl |-> n]
           E == xwl.early \ {w}
           A == IF xwl.win[w].wl = None THEN xwl.again \ {w} ELSE xwl.again \cup {w}
           a == [xwl EXCEPT !.made = @ + 1, !.x[w] = v, !.early = E, !.again = A]
           b == [a EXCEPT !.wq = Append(@, z)]
           y == [b EXCEPT !.xq = Append(@, e)]
<1>1. /\ xwl.up /\ xwl \in XwlRec /\ EventInv(xwl) /\ OrderInv(surf, xwl)
      /\ xwl.x[w].st = "mapping" /\ xwl.made < Len(XSurfaces)
  BY DEF Realize, IInv, Typed, Sound
<1>2. /\ xwl.x \in [XWindows -> XRec] /\ xwl.xq \in Seq(XEvent) /\ xwl.wq \in Seq(WlRequest)
      /\ xwl.made \in Nat /\ xwl.early \in SUBSET XWindows /\ xwl.again \in SUBSET XWindows
      /\ xwl.names \in naming
  BY <1>1, XwlParts
<1>3. n \in Range(XSurfaces)
  BY <1>1, <1>2, SurfaceAssumption DEF Range
<1>4. UNCHANGED <<d, surf, seat, out>> /\ xwl' = y
  <2>1. Becomes(send_x(send_wl([here EXCEPT !.xwl = a], z), e))
    <3>1. [here EXCEPT !.xwl.made = @ + 1, !.xwl.x[w] = v, !.xwl.early = @ \ {w},
                       !.xwl.again = IF xwl.win[w].wl = None THEN @ \ {w} ELSE @ \cup {w}]
          = [here EXCEPT !.xwl = a]
      BY ZenonT(60) DEF here
    <3> QED
      BY <3>1 DEF Realize
  <2> HIDE DEF a, z, e
  <2>2. send_wl([here EXCEPT !.xwl = a], z) = [here EXCEPT !.xwl = b]
    BY DEF send_wl, here
  <2> HIDE DEF b
  <2>3. send_x([here EXCEPT !.xwl = b], e) = [here EXCEPT !.xwl = y]
    BY DEF send_x, here
  <2> HIDE DEF y
  <2> QED
    BY <2>1, <2>2, <2>3 DEF Becomes, here
<1>5. v \in XRec /\ z \in WlRequest /\ e \in XEvent
  BY <1>2, <1>3 DEF XRec, XNames, WlRequest, XEvent
<1>6. e.type = xwl.names /\ e.window = w /\ e.wl = n /\ v.st = "mapped" /\ v.wl = n
  OBVIOUS
<1> HIDE DEF n, v, e
<1>7. /\ y \in XwlRec /\ y.win = xwl.win /\ y.managed = xwl.managed /\ y.up = xwl.up
      /\ y.made = xwl.made + 1 /\ y.wq = Append(xwl.wq, z) /\ y.xq = Append(xwl.xq, e)
      /\ y.early = E /\ y.again = A /\ y.names = xwl.names /\ y.x = [xwl.x EXCEPT ![w] = v]
  <2> HIDE DEF z
  <2>0. E \in SUBSET XWindows /\ A \in SUBSET XWindows
    BY <1>2
  <2> HIDE DEF E, A
  <2>1. y = [xwl EXCEPT !.made = xwl.made + 1, !.x = [xwl.x EXCEPT ![w] = v], !.early = E, !.again = A,
                        !.wq = Append(xwl.wq, z), !.xq = Append(xwl.xq, e)]
    BY <1>1 DEF XwlRec
  <2>2. /\ [xwl.x EXCEPT ![w] = v] \in [XWindows -> XRec] /\ Append(xwl.xq, e) \in Seq(XEvent)
        /\ Append(xwl.wq, z) \in Seq(WlRequest) /\ xwl.made + 1 \in Nat
    BY <1>2, <1>5
  <2> HIDE DEF y
  <2> QED
    BY <1>1, <2>0, <2>1, <2>2 DEF XwlRec
<1> HIDE DEF a, b, y
<1>8. y.x[w] = v /\ \A u \in XWindows \ {w} : y.x[u] = xwl.x[u] /\ Told(xwl, y, u)
  BY <1>2, <1>7 DEF Told
<1>a. w \notin y.early /\ (w \in y.again <=> y.win[w].wl # None)
  BY <1>7
<1> HIDE DEF E, A
<1>9. OrderInv(surf, y)
  <2>1. e.wl = XSurfaces[xwl.made + 1] /\ z = [type |-> "create", wl |-> e.wl]
    BY <1>6 DEF n
  <2>2. has_now(y, e.window, e.wl) /\ \A u \in XWindows \ {e.window} : y.x[u] = xwl.x[u]
    BY <1>6, <1>8 DEF has_now
  <2>3. y.wq = Append(xwl.wq, [type |-> "create", wl |-> e.wl])
    BY <1>7, <2>1
  <2> QED
    BY <1>1, <1>5, <1>6, <1>7, <2>1, <2>2, <2>3, OrderRealize
<1>10. \A i \in 1 .. Len(xwl.xq) : xwl.xq[i].window # w
  <2> SUFFICES ASSUME NEW j \in 1 .. Len(xwl.xq), xwl.xq[j].window = w
               PROVE  FALSE
    OBVIOUS
  <2> DEFINE S == {i \in Nat : Len(xwl.xq) - i \in 1 .. Len(xwl.xq) /\ xwl.xq[Len(xwl.xq) - i].window = w}
  <2>1. Len(xwl.xq) \in Nat
    BY <1>1, XqParts
  <2>2. Len(xwl.xq) - j \in S
    BY <2>1, SMTT(60)
  <2>3. PICK i \in S : \A k \in S : i <= k
    <3> HIDE DEF S
    <3>1. S \in SUBSET Nat
      BY DEF S
    <3> QED
      BY <2>2, <3>1, Least
  <2>4. Len(xwl.xq) - i \in 1 .. Len(xwl.xq) /\ xwl.xq[Len(xwl.xq) - i].window = w
    BY <2>3
  <2>5. \A k \in ((Len(xwl.xq) - i) + 1) .. Len(xwl.xq) : xwl.xq[k].window # w
    <3> SUFFICES ASSUME NEW k \in ((Len(xwl.xq) - i) + 1) .. Len(xwl.xq), xwl.xq[k].window = w
                 PROVE  FALSE
      OBVIOUS
    <3>1. Len(xwl.xq) - k \in Nat /\ Len(xwl.xq) - (Len(xwl.xq) - k) = k /\ k \in 1 .. Len(xwl.xq)
          /\ Len(xwl.xq) - k < i
      BY <2>1, <2>4
    <3>2. Len(xwl.xq) - k \in S
      BY <3>1
    <3>3. i <= Len(xwl.xq) - k /\ i \in Nat
      BY <2>3, <3>2
    <3> HIDE DEF S
    <3> QED
      BY <2>1, <3>1, <3>3
  <2>6. last(xwl.xq, Len(xwl.xq) - i)
    BY <2>4, <2>5 DEF last
  <2> QED
    BY <1>1, <2>4, <2>6, LastSent, SMTT(60) DEF leaves, naming
<1>11. expected(y, e)
  <2>1. rests(xwl, w)
    BY <1>1, <1>10, LastSent
  <2>2. w \in DOMAIN y.win /\ y.win[w].mapped
    BY <1>1, <1>7, <2>1 DEF rests
  <2>3. y.win[w].wl # n
    <3> SUFFICES ASSUME xwl.win[w].wl = n
                 PROVE  FALSE
      BY <1>7
    <3>1. n # None /\ n \in Wl /\ Held(surf, xwl, w) /\ MadeInv(surf, xwl)
      BY <1>1, <1>3, <1>7, <2>2, NoneApart DEF OrderInv, OldInv, Wl
    <3>2. retired(surf, xwl.wq, n)
      BY <1>1, <3>1 DEF Held, has_now
    <3>3. made(xwl, n)
      BY <1>3, <3>1, <3>2 DEF retired, pends, MadeInv
    <3>4. PICK k \in 1 .. xwl.made : XSurfaces[k] = XSurfaces[xwl.made + 1]
      BY <3>3 DEF made, n
    <3> QED
      BY <1>1, <1>2, <3>4, SurfaceAssumption DEF IsInjective
  <2>4. unread(y, e)
    BY <1>6, <1>7, <1>a, <2>3 DEF unread
  <2> QED
    BY <1>2, <1>6, <2>2, <2>4 DEF expected, naming
<1>12. leaves(y, e)
  BY <1>2, <1>6, <1>8 DEF leaves, naming
<1>13. EventInv(y)
  BY <1>1, <1>5, <1>6, <1>7, <1>8, <1>10, <1>11, <1>12, SendEvent
<1> QED
  BY <1>4, <1>7, <1>9, <1>13, XwlStep

\* A wl_surface that is destroyed, by its client or with it, takes the keyboard
\* along, and keeps the pointer as a surface that is not there.
LEMMA SurfacesDie ==
  ASSUME NEW f \in [Wl -> SurfRec], NEW g \in [Wl -> SurfRec], NEW t \in SeatRec, NEW u \in SeatRec,
         NEW q, NEW o, KeyboardInv(f, t), PointerInv(q, f, t, o), SamePointer(t, u),
         u.keyboards = t.keyboards, u.focused = t.focused, u.mute = t.mute,
         u.entered = {n \in t.entered : alive(g, n)}, u.down = {n \in t.down : alive(g, n)},
         u.cut = {n \in t.cut : alive(g, n)},
         \A n \in Wl : g[n].life \in {f[n].life, "dead"}
  PROVE  KeyboardInv(g, u) /\ PointerInv(q, g, u, o)
<1>1. \A n : alive(g, n) => alive(f, n)
  BY DEF alive
<1>2. t.focused \in Wl \cup {None} /\ t.pointed \in Wl \cup {None}
  BY SeatParts
<1>3. KeyboardInv(g, u)
  <2>1. u.focused # None => g[u.focused].life # "none"
    BY <1>2 DEF KeyboardInv
  <2>2. ~ u.mute /\ alive(g, u.focused) => u.focused \in u.entered
    BY <1>1 DEF KeyboardInv
  <2>3. \A n \in u.entered \cup u.down \cup u.cut : alive(g, n) /\ n \in t.entered \cup t.down \cup t.cut
    OBVIOUS
  <2>4. (u.entered \cup u.down) \ u.cut \subseteq {u.focused} /\ u.focused \notin u.cut
    BY DEF KeyboardInv
  <2>5. \A n : keyed(u, n) <=> keyed(t, n)
    BY DEF keyed
  <2> QED
    BY <1>1, <2>1, <2>2, <2>3, <2>4, <2>5 DEF KeyboardInv
<1>4. PointerInv(q, g, u, o)
  BY <1>1, <1>2 DEF PointerInv, SamePointer, pointing
<1> QED
  BY <1>3, <1>4

\* x has become y as the first Wayland request was read.
Took(x, y) ==
  /\ y.up = x.up /\ y.xq = x.xq /\ y.x = x.x /\ y.win = x.win /\ y.managed = x.managed
  /\ y.made = x.made /\ y.early = x.early /\ y.again = x.again /\ y.names = x.names
  /\ Len(x.wq) \in Nat \ {0} /\ Len(y.wq) = Len(x.wq) - 1
  /\ \A i \in 1 .. (Len(x.wq) - 1) : y.wq[i] = x.wq[i + 1]
  /\ x.wq[1] \in WlRequest

\* The first request is read.
LEMMA TailRequests ==
  ASSUME NEW x \in XwlRec, x.wq # <<>>
  PROVE  /\ [x EXCEPT !.wq = Tail(@)] \in XwlRec /\ Took(x, [x EXCEPT !.wq = Tail(@)])
         /\ Head(x.wq) = x.wq[1]
<1>1. x.wq \in Seq(WlRequest)
  BY XwlParts
<1>2. /\ Tail(x.wq) \in Seq(WlRequest) /\ Len(x.wq) \in Nat \ {0} /\ Len(Tail(x.wq)) = Len(x.wq) - 1
      /\ \A i \in 1 .. (Len(x.wq) - 1) : Tail(x.wq)[i] = x.wq[i + 1]
      /\ Head(x.wq) = x.wq[1] /\ x.wq[1] \in WlRequest
  BY <1>1
<1> QED
  BY <1>2 DEF XwlRec, Took

\* X events still fit if they and the windows are the same.
LEMMA EventFrame ==
  ASSUME NEW x, NEW y, EventInv(x), y.up = x.up, y.xq = x.xq, y.x = x.x, y.win = x.win,
         y.early = x.early, y.again = x.again, y.names = x.names
  PROVE  EventInv(y)
<1>1. \A e : expected(x, e) => expected(y, e)
  BY DEF expected, unread
<1>2. \A e : leaves(x, e) => leaves(y, e)
  BY DEF leaves
<1>3. \A w : rests(x, w) => rests(y, w)
  BY DEF rests, read, in_vain
<1> QED
  BY <1>1, <1>2, <1>3 DEF EventInv

\* The first request about wl_surfaces is done: what it creates is alive,
\* what it destroys is dead.
LEMMA OrderRequest ==
  ASSUME NEW f \in [Wl -> SurfRec], NEW g \in [Wl -> SurfRec], NEW x \in XwlRec, NEW y \in XwlRec,
         OrderInv(f, x), Took(x, y),
         \A k \in Range(XSurfaces) :
           g[k].life = IF k # x.wq[1].wl THEN f[k].life
                       ELSE IF x.wq[1].type = "create" THEN "alive" ELSE "dead"
  PROVE  OrderInv(g, y)
<1> DEFINE e == x.wq[1]
           n == e.wl
           m == Len(x.wq)
<1>1. /\ y.up = x.up /\ y.xq = x.xq /\ y.x = x.x /\ y.win = x.win /\ y.made = x.made
      /\ m \in Nat \ {0} /\ Len(y.wq) = m - 1 /\ \A i \in 1 .. (m - 1) : y.wq[i] = x.wq[i + 1]
  BY DEF Took
<1>2. \A i \in 1 .. m : x.wq[i] \in WlRequest /\ x.wq[i].wl \in Range(XSurfaces) /\ x.wq[i].type \in {"create", "destroy"}
  BY WqParts
<1>3. MadeInv(f, x) /\ OldInv(f, x)
  BY DEF OrderInv
<1>4. \A k : made(y, k) <=> made(x, k)
  BY <1>1 DEF made
<1>5. \A i \in 2 .. m : x.wq[i].type = "create" => x.wq[i].wl # n
  BY <1>1, <1>3 DEF MadeInv
<1>6. e.type = "create" => f[n].life = "none"
  BY <1>1, <1>3 DEF MadeInv
<1>7. MadeInv(g, y)
  <2>1. ASSUME NEW i \in 1 .. Len(y.wq)
        PROVE  made(y, y.wq[i].wl)
    <3>1. i + 1 \in 1 .. m /\ y.wq[i] = x.wq[i + 1]
      BY <1>1
    <3>2. made(x, x.wq[i + 1].wl)
      BY <1>3, <3>1 DEF MadeInv
    <3> QED
      BY <1>4, <3>1, <3>2
  <2>2. ASSUME NEW i \in 1 .. Len(y.wq), y.wq[i].type = "create"
        PROVE  /\ g[y.wq[i].wl].life = "none"
               /\ \A j \in 1 .. Len(y.wq) :
                    y.wq[j].wl = y.wq[i].wl => i <= j /\ (i # j => y.wq[j].type = "destroy")
    <3>1. i + 1 \in 2 .. m /\ i + 1 \in 1 .. m /\ y.wq[i] = x.wq[i + 1] /\ \A j \in 1 .. Len(y.wq) : j + 1 \in 1 .. m
      BY <1>1
    <3>2. /\ f[x.wq[i + 1].wl].life = "none"
          /\ \A j \in 1 .. m :
               x.wq[j].wl = x.wq[i + 1].wl => i + 1 <= j /\ (i + 1 # j => x.wq[j].type = "destroy")
      BY <1>3, <2>2, <3>1 DEF MadeInv
    <3>3. g[y.wq[i].wl].life = "none"
      BY <1>2, <1>5, <2>2, <3>1, <3>2
    <3>4. ASSUME NEW j \in 1 .. Len(y.wq), y.wq[j].wl = y.wq[i].wl
          PROVE  i <= j /\ (i # j => y.wq[j].type = "destroy")
      <4>1. j + 1 \in 1 .. m /\ y.wq[j] = x.wq[j + 1]
        BY <1>1
      <4>2. i + 1 <= j + 1 /\ (i + 1 # j + 1 => x.wq[j + 1].type = "destroy")
        BY <3>1, <3>2, <3>4, <4>1
      <4> QED
        BY <1>1, <4>1, <4>2
    <3> QED
      BY <3>3, <3>4
  <2>3. \A k \in Range(XSurfaces) : made(y, k) \/ g[k].life = "none"
    BY <1>1, <1>3, <1>4 DEF MadeInv
  <2>4. y.made <= Len(XSurfaces)
        /\ \A v \in XWindows : IF y.x[v].st = "mapped" THEN made(y, y.x[v].wl) ELSE y.x[v].wl = None
    BY <1>1, <1>3, <1>4 DEF MadeInv
  <2> QED
    BY <2>1, <2>2, <2>3, <2>4 DEF MadeInv
<1>8. \A k \in Range(XSurfaces) : f[k].life = "dead" => g[k].life = "dead"
  BY <1>2, <1>6
<1>9. \A k \in Range(XSurfaces) : retired(f, x.wq, k) => retired(g, y.wq, k)
  <2> SUFFICES ASSUME NEW k \in Range(XSurfaces), NEW i \in 1 .. m, pends(x.wq, i, "destroy", k)
               PROVE  retired(g, y.wq, k)
    BY <1>8 DEF retired
  <2>1. CASE i = 1
    BY <2>1 DEF pends, retired
  <2>2. CASE i # 1
    <3>1. i - 1 \in 1 .. Len(y.wq) /\ y.wq[i - 1] = x.wq[i]
      BY <1>1, <2>2
    <3> QED
      BY <3>1 DEF pends, retired
  <2> QED
    BY <2>1, <2>2
<1>10. \A old, k \in Range(XSurfaces) : superseded(f, x.wq, old, k) => superseded(g, y.wq, old, k)
  <2> SUFFICES ASSUME NEW old \in Range(XSurfaces), NEW k \in Range(XSurfaces),
                      NEW a \in 1 .. m, NEW b \in 1 .. m, a < b,
                      pends(x.wq, a, "destroy", old), pends(x.wq, b, "create", k)
               PROVE  superseded(g, y.wq, old, k)
    BY <1>8 DEF superseded
  <2>1. CASE a = 1
    BY <2>1 DEF pends, superseded
  <2>2. CASE a # 1
    <3>1. a - 1 \in 1 .. Len(y.wq) /\ y.wq[a - 1] = x.wq[a] /\ b - 1 \in 1 .. Len(y.wq) /\ y.wq[b - 1] = x.wq[b]
          /\ a - 1 < b - 1
      BY <1>1, <2>2
    <3> QED
      BY <3>1 DEF pends, superseded
  <2> QED
    BY <2>1, <2>2
<1>11. OldInv(g, y)
  <2> SUFFICES ASSUME y.up
               PROVE  /\ \A v \in DOMAIN y.win : Held(g, y, v)
                      /\ \A i \in 1 .. Len(y.xq) : y.xq[i].type \in naming => Named(g, y, y.xq[i])
    BY DEF OldInv
  <2>1. \A v \in DOMAIN x.win : x.win[v].wl = None \/ x.win[v].wl \in Range(XSurfaces)
    BY XwlParts DEF WinRec, XNames
  <2>2. ASSUME NEW v \in DOMAIN y.win
        PROVE  Held(g, y, v)
    <3>1. Held(f, x, v)
      BY <1>1, <1>3 DEF OldInv
    <3> QED
      BY <1>1, <1>9, <2>1, <3>1 DEF Held, has_now
  <2>3. ASSUME NEW i \in 1 .. Len(y.xq), y.xq[i].type \in naming
        PROVE  Named(g, y, y.xq[i])
    <3>1. Named(f, x, x.xq[i]) /\ x.xq[i].wl \in Range(XSurfaces)
      BY <1>1, <1>3, <2>3, XqParts DEF OldInv
    <3> QED
      BY <1>1, <1>9, <1>10, <2>1, <3>1 DEF Named, has_now
  <2> QED
    BY <2>2, <2>3
<1> QED
  BY <1>7, <1>11 DEF OrderInv

\* A Wayland request of Xwayland keeps the invariant, whatever it overtakes.
LEMMA DispatchWlKeeps ==
  ASSUME IInv, DispatchWl
  PROVE  IInv'
<1> DEFINE e == xwl.wq[1]
           n == e.wl
           y == [xwl EXCEPT !.wq = Tail(@)]
           v1 == [surf[n] EXCEPT !.life = "alive"]
           v2 == [surf[n] EXCEPT !.life = "dead", !.buffer = FALSE]
           u  == [seat EXCEPT !.entered = @ \ {n}, !.down = @ \ {n}, !.cut = @ \ {n}]
<1>1. /\ xwl \in XwlRec /\ xwl.wq # <<>> /\ d \in Display /\ surf \in [Wl -> SurfRec] /\ seat \in SeatRec
      /\ out \in OutRec /\ Sound
  BY DEF DispatchWl, IInv, Typed
<1>2. y \in XwlRec /\ Took(xwl, y) /\ Head(xwl.wq) = e
  BY <1>1, TailRequests
<1>3. n \in Range(XSurfaces) /\ n \in Wl /\ n \notin Native /\ e.type \in {"create", "destroy"} /\ surf[n] \in SurfRec
  BY <1>1, <1>2, XApart DEF Took, WlRequest
<1>4. EventInv(y) /\ WindowInv(d, y)
  <2> HIDE DEF y
  <2>1. EventInv(xwl) /\ WindowInv(d, xwl)
    BY <1>1 DEF Sound
  <2>2. EventInv(y)
    BY <1>2, <2>1, EventFrame DEF Took
  <2> QED
    BY <1>2, <2>1, <2>2, WindowFrame, SameBacksSame DEF Took
<1>5. xwl' = y /\ d' = d /\ out' = out
      /\ surf' = [surf EXCEPT ![n] = IF e.type = "create" THEN v1 ELSE v2]
      /\ seat' = IF e.type = "create" THEN seat ELSE u
  <2>1. Becomes(IF e.type = "create" THEN create_surface([here EXCEPT !.xwl = y], n)
                ELSE destroy_surface([here EXCEPT !.xwl = y], n))
    <3>1. [here EXCEPT !.xwl.wq = Tail(@)] = [here EXCEPT !.xwl = y]
      BY DEF here
    <3> QED
      BY <1>2, <3>1 DEF DispatchWl, here
  <2> HIDE DEF y, n, e
  <2> QED
    BY <2>1 DEF Becomes, create_surface, destroy_surface, here
<1> HIDE DEF y
<1>6. CASE e.type = "create"
  <2>1. v1 \in SurfRec /\ v1.life = "alive"
    BY <1>3 DEF SurfRec
  <2>2. surf' = [surf EXCEPT ![n] = v1] /\ seat' = seat
    BY <1>5, <1>6
  <2>3. surf[n].life = "none"
    BY <1>1, <1>2, <1>6 DEF Sound, OrderInv, MadeInv, Took
  <2> HIDE DEF v1, n, e
  <2>4. /\ surf' \in [Wl -> SurfRec] /\ ages(surf, surf') /\ \A k \in Native : surf'[k] = surf[k]
        /\ \A k \in Range(XSurfaces) : surf'[k].life = IF k # n THEN surf[k].life ELSE "alive"
    BY <1>1, <1>3, <2>1, <2>2, <2>3, XApart DEF ages
  <2>5. OrderInv(surf', y)
    <3>1. \A k \in Range(XSurfaces) :
           surf'[k].life = IF k # xwl.wq[1].wl THEN surf[k].life
                           ELSE IF xwl.wq[1].type = "create" THEN "alive" ELSE "dead"
      BY <1>6, <2>4 DEF n, e
    <3> QED
      BY <1>1, <1>2, <2>4, <3>1, OrderRequest DEF Sound
  <2>6. KeyboardInv(surf', seat') /\ PointerInv(d', surf', seat', out')
    <3>1. SameKeyboard(seat, seat) /\ SamePointer(seat, seat) /\ SameBacks(d, d)
      BY SameBacksSame DEF SameKeyboard, SamePointer
    <3>2. KeyboardInv(surf', seat)
      BY <1>1, <2>4, <3>1, KeyboardFrame DEF Sound
    <3>3. PointerInv(d, surf', seat, out)
      BY <1>1, <2>4, <3>1, PointerFrame DEF Sound
    <3> QED
      BY <1>5, <2>2, <3>2, <3>3
  <2>7. NativeInv(d', surf')
    <3>1. \A k \in Native : surf'[k].role = "toplevel" <=> surf[k].role = "toplevel"
      BY <2>4
    <3>2. NativeInv(d, surf')
      BY <1>1, <3>1, NativeFrame, SameBacksSame DEF Sound
    <3> QED
      BY <1>5, <3>2
  <2> QED
    BY <1>1, <1>2, <1>4, <1>5, <2>2, <2>4, <2>5, <2>6, <2>7 DEF IInv, Typed, Sound
<1>7. CASE e.type # "create"
  <2>1. v2 \in SurfRec /\ v2.life = "dead"
    BY <1>3 DEF SurfRec
  <2>2. surf' = [surf EXCEPT ![n] = v2] /\ seat' = u
    BY <1>5, <1>7
  <2>3. /\ u \in SeatRec /\ SamePointer(seat, u) /\ u.entered = seat.entered \ {n}
        /\ u.down = seat.down \ {n} /\ u.keyboards = seat.keyboards /\ u.focused = seat.focused
        /\ u.mute = seat.mute /\ u.cut = seat.cut \ {n}
    BY <1>1 DEF SeatRec, SamePointer
  <2> HIDE DEF v2, n, e, u
  <2>4. /\ surf' \in [Wl -> SurfRec] /\ \A k \in Native : surf'[k] = surf[k]
        /\ \A k \in Wl : surf'[k].life = IF k # n THEN surf[k].life ELSE "dead"
    BY <1>1, <1>3, <2>1, <2>2, XApart
  <2>5. OrderInv(surf', y)
    <3>1. \A k \in Range(XSurfaces) :
           surf'[k].life = IF k # xwl.wq[1].wl THEN surf[k].life
                           ELSE IF xwl.wq[1].type = "create" THEN "alive" ELSE "dead"
      BY <1>7, <2>4, XApart DEF n, e
    <3> QED
      BY <1>1, <1>2, <2>4, <3>1, OrderRequest DEF Sound
  <2>6. KeyboardInv(surf', seat') /\ PointerInv(d', surf', seat', out')
    <3>1. \A k \in seat.entered \cup seat.down \cup seat.cut : alive(surf, k)
      BY <1>1 DEF Sound, KeyboardInv
    <3>2. \A k : alive(surf', k) <=> k # n /\ alive(surf, k)
      BY <2>4 DEF alive
    <3>3. u.entered = {k \in seat.entered : alive(surf', k)} /\ u.down = {k \in seat.down : alive(surf', k)}
          /\ u.cut = {k \in seat.cut : alive(surf', k)}
      BY <2>3, <3>1, <3>2
    <3>4. \A k \in Wl : surf'[k].life \in {surf[k].life, "dead"}
      BY <2>4
    <3>5. KeyboardInv(surf', u) /\ PointerInv(d, surf', u, out)
      BY <1>1, <2>3, <2>4, <3>3, <3>4, SurfacesDie DEF Sound
    <3> QED
      BY <1>5, <2>2, <3>5
  <2>7. NativeInv(d', surf') /\ KeyInv(seat', out')
    <3>1. NativeInv(d', surf')
      <4>1. \A k \in Native : surf'[k].role = "toplevel" <=> surf[k].role = "toplevel"
        BY <2>4
      <4>2. NativeInv(d, surf')
        BY <1>1, <4>1, NativeFrame, SameBacksSame DEF Sound
      <4> QED
        BY <1>5, <4>2
    <3>2. KeyInv(seat', out')
      BY <1>1, <1>5, <2>2, <2>3 DEF Sound, KeyInv
    <3> QED
      BY <3>1, <3>2
  <2> QED
    BY <1>1, <1>2, <1>4, <1>5, <2>2, <2>3, <2>4, <2>5, <2>6, <2>7 DEF IInv, Typed, Sound
<1> QED
  BY <1>6, <1>7

\* So does the end of Xwayland, whatever was on its way.
LEMMA XwaylandDiesKeeps ==
  ASSUME IInv, XwaylandDies
  PROVE  IInv'
<1> DEFINE t == without_keyboard(surf, seat, Xwayland, 0, TRUE)
           u == without_pointer(surf, t, Xwayland, 0)
           g == [n \in Wl |-> IF n \in Native THEN surf[n] ELSE client_gone(surf[n])]
           y == [xwl EXCEPT !.up = FALSE, !.xq = <<>>, !.wq = <<>>]
<1>1. /\ xwl \in XwlRec /\ d \in Display /\ surf \in [Wl -> SurfRec] /\ seat \in SeatRec
      /\ out \in OutRec /\ Sound
  BY DEF IInv, Typed
<1>a. Xwayland \in Clients
  BY DEF Clients
<1>2. NoKeyboard(surf, seat, Xwayland, TRUE, t)
  BY <1>1, <1>a, WithoutKeyboard DEF Sound
<1>3. t \in SeatRec /\ PointerInv(d, surf, t, out)
  <2> HIDE DEF t
  <2> QED
    BY <1>1, <1>2 DEF NoKeyboard, SamePointer, PointerInv, Sound, pointing
<1>4. NoPointer(d, surf, t, out, u)
  <2> HIDE DEF t
  <2> QED
    BY <1>3, <1>a, WithoutPointer
<1>5. d' = d /\ out' = out /\ surf' = g /\ seat' = u /\ xwl' = y
  <2>1. remove_keyboard(here, Xwayland, 0, TRUE) = [here EXCEPT !.seat = t]
    BY RemoveKeyboard DEF with_seat
  <2> HIDE DEF t
  <2>2. remove_pointer([here EXCEPT !.seat = t], Xwayland, 0) = [here EXCEPT !.seat = u]
    BY DEF remove_pointer, here, without_pointer, resolves, alive
  <2> HIDE DEF u
  <2>3. /\ [here EXCEPT !.seat = u].surf = surf
        /\ Becomes([[here EXCEPT !.seat = u] EXCEPT
                      !.surf = [n \in Wl |-> IF n \in Native THEN @[n] ELSE client_gone(@[n])],
                      !.xwl.up = FALSE, !.xwl.xq = <<>>, !.xwl.wq = <<>>])
    BY <2>1, <2>2, ZenonT(60) DEF XwaylandDies, here
  <2> QED
    BY <2>3 DEF Becomes, here
<1> HIDE DEF t, u
<1>6. /\ g \in [Wl -> SurfRec] /\ \A n \in Native : g[n] = surf[n]
      /\ \A n \in Wl : g[n].life \in {surf[n].life, "dead"} /\ (g[n].life = "none" <=> surf[n].life = "none")
  <2>1. \A r \in SurfRec : client_gone(r) \in SurfRec /\ client_gone(r).life \in {r.life, "dead"}
                           /\ (client_gone(r).life = "none" <=> r.life = "none")
    BY DEF client_gone, SurfRec
  <2> QED
    BY <1>1, <2>1, XApart
<1>7. /\ y \in XwlRec /\ y.up = FALSE /\ y.xq = <<>> /\ y.wq = <<>> /\ y.win = xwl.win
      /\ y.managed = xwl.managed /\ y.made = xwl.made /\ y.x = xwl.x
  <2>1. <<>> \in Seq(XEvent) /\ <<>> \in Seq(WlRequest)
    OBVIOUS
  <2> QED
    BY <1>1, <2>1 DEF XwlRec
<1> HIDE DEF g, y
<1>8. /\ KeyboardInv(surf, u) /\ PointerInv(d, surf, u, out) /\ u \in SeatRec
      /\ u.down \ u.cut \subseteq seat.down \ seat.cut
      /\ \A n \in u.entered \cup u.down \cup u.cut : client_of(n) # Xwayland
  BY <1>2, <1>4 DEF NoKeyboard, NoPointer, SameKeyboard, KeyboardInv, keyed
<1>9. KeyboardInv(g, u) /\ PointerInv(d, g, u, out)
  <2>1. \A n \in u.entered \cup u.down \cup u.cut : n \in Native /\ alive(surf, n)
    BY <1>8, SeatParts DEF client_of, KeyboardInv, alive
  <2>2. u.entered = {n \in u.entered : alive(g, n)} /\ u.down = {n \in u.down : alive(g, n)}
        /\ u.cut = {n \in u.cut : alive(g, n)}
    BY <1>6, <2>1 DEF alive
  <2> QED
    BY <1>1, <1>6, <1>8, <2>2, SurfacesDie DEF SamePointer
<1>10. EventInv(y) /\ OrderInv(g, y)
  <2>1. MadeInv(surf, xwl)
    BY <1>1 DEF Sound, OrderInv
  <2>2. \A n : made(y, n) <=> made(xwl, n)
    BY <1>7 DEF made
  <2>3. Len(y.wq) = 0 /\ \A n \in Range(XSurfaces) : n \in Wl
    BY <1>7, XApart
  <2>4. MadeInv(g, y)
    BY <1>6, <1>7, <2>1, <2>2, <2>3 DEF MadeInv
  <2> QED
    BY <1>7, <2>4 DEF EventInv, OrderInv, OldInv
<1>11. KeyInv(u, out)
  BY <1>1, <1>8, KeyFrame DEF Sound
<1>12. NativeInv(d, g) /\ WindowInv(d, y)
  <2>1. \A n \in Native : g[n].role = "toplevel" <=> surf[n].role = "toplevel"
    BY <1>6
  <2>2. NativeInv(d, g)
    BY <1>1, <2>1, NativeFrame, SameBacksSame DEF Sound
  <2>3. WindowInv(d, y)
    BY <1>1, <1>7, WindowFrame, SameBacksSame DEF Sound
  <2> QED
    BY <2>2, <2>3
<1> QED
  BY <1>1, <1>5, <1>6, <1>7, <1>8, <1>9, <1>10, <1>11, <1>12 DEF IInv, Typed, Sound

\* Windows other than w are as they were.
WinOthers(x, y, w) ==
  \A v \in XWindows \ {w} : /\ v \in DOMAIN y.win <=> v \in DOMAIN x.win
                            /\ v \in DOMAIN x.win => y.win[v] = x.win[v]

\* The surfaces of X windows.
sids(x) == {x.win[v].sid : v \in DOMAIN x.win} \ {None}
\* Nothing is shown for the window.
unshown(v) == v.sid = None /\ ~ (v.mapped /\ v.wl # None)

\* A window that is not shown before and after leaves the surfaces alone.
LEMMA WindowPlain ==
  ASSUME NEW q, NEW x \in XwlRec, NEW y \in XwlRec, NEW w \in XWindows, WindowInv(q, x),
         WinOthers(x, y, w), y.managed = x.managed,
         w \in DOMAIN x.win => x.win[w].sid = None, w \in DOMAIN y.win => unshown(y.win[w])
  PROVE  WindowInv(q, y)
<1>1. DOMAIN x.win \subseteq XWindows /\ DOMAIN y.win \subseteq XWindows
  BY XwlParts
<1>2. \A v \in DOMAIN y.win : v = w \/ (v # w /\ v \in DOMAIN x.win /\ y.win[v] = x.win[v])
  BY <1>1 DEF WinOthers
<1>3. \A v \in DOMAIN x.win : v = w \/ (v # w /\ v \in DOMAIN y.win /\ y.win[v] = x.win[v])
  BY <1>1 DEF WinOthers
<1>4. sids(y) = sids(x)
  BY <1>2, <1>3 DEF sids, unshown
<1>5. \A v \in DOMAIN y.win :
        /\ y.win[v].sid # None <=> y.win[v].mapped /\ y.win[v].wl # None
        /\ y.win[v].sid # None => y.win[v].sid \in DOMAIN q.surfaces /\ q.surfaces[y.win[v].sid].wl = y.win[v].wl
  BY <1>2 DEF WindowInv, unshown
<1>6. \A u, v \in DOMAIN y.win : y.win[u].sid = y.win[v].sid /\ y.win[u].sid # None => u = v
  BY <1>2 DEF WindowInv, unshown
<1> QED
  BY <1>4, <1>5, <1>6 DEF WindowInv, sids

\* A window that is shown has the surface that is added for it.
LEMMA WindowShow ==
  ASSUME NEW q, NEW r, NEW x \in XwlRec, NEW y \in XwlRec, NEW w \in XWindows, WindowInv(q, x), FreshInv(q),
         q.next_id \in Nat, NEW n \in Range(XSurfaces), Adds(q, r, n),
         WinOthers(x, y, w), y.managed = x.managed \cup {q.next_id},
         w \in DOMAIN x.win, x.win[w].sid = None, w \in DOMAIN y.win,
         y.win[w].sid = q.next_id, y.win[w].mapped, y.win[w].wl = n
  PROVE  WindowInv(r, y)
<1> DEFINE id == q.next_id
<1>1. DOMAIN x.win \subseteq XWindows /\ DOMAIN y.win \subseteq XWindows
  BY XwlParts
<1>2. \A v \in DOMAIN y.win : v = w \/ (v # w /\ v \in DOMAIN x.win /\ y.win[v] = x.win[v])
  BY <1>1 DEF WinOthers
<1>3. \A v \in DOMAIN x.win : v = w \/ (v # w /\ v \in DOMAIN y.win /\ y.win[v] = x.win[v])
  BY <1>1 DEF WinOthers
<1>4. id \notin DOMAIN q.surfaces /\ id # None /\ n # None /\ n \notin Native
  BY NoneApart, XApart DEF FreshInv
<1>5. sids(y) = sids(x) \cup {id}
  BY <1>2, <1>3, <1>4 DEF sids
<1>6. {i \in DOMAIN r.surfaces : r.surfaces[i].wl \notin Native}
      = {i \in DOMAIN q.surfaces : q.surfaces[i].wl \notin Native} \cup {id}
  BY <1>4 DEF Adds
<1>7. \A v \in DOMAIN y.win :
        /\ y.win[v].sid # None <=> y.win[v].mapped /\ y.win[v].wl # None
        /\ y.win[v].sid # None => y.win[v].sid \in DOMAIN r.surfaces /\ r.surfaces[y.win[v].sid].wl = y.win[v].wl
  BY <1>2, <1>4 DEF WindowInv, Adds
<1>8. \A u, v \in DOMAIN y.win : y.win[u].sid = y.win[v].sid /\ y.win[u].sid # None => u = v
  BY <1>2, <1>4 DEF WindowInv
<1>9. x.managed = sids(x) /\ x.managed = {i \in DOMAIN q.surfaces : q.surfaces[i].wl \notin Native}
  BY DEF WindowInv, sids
<1> QED
  BY <1>5, <1>6, <1>7, <1>8, <1>9 DEF WindowInv, sids

\* A window that is hidden takes its surface with it.
LEMMA WindowHide ==
  ASSUME NEW q, NEW r, NEW x \in XwlRec, NEW y \in XwlRec, NEW w \in XWindows, WindowInv(q, x),
         w \in DOMAIN x.win, NEW id, id = x.win[w].sid, id # None, Drops(q, r, id),
         WinOthers(x, y, w), y.managed = x.managed \ {id}, w \in DOMAIN y.win => unshown(y.win[w])
  PROVE  WindowInv(r, y)
<1>1. DOMAIN x.win \subseteq XWindows /\ DOMAIN y.win \subseteq XWindows
  BY XwlParts
<1>2. \A v \in DOMAIN y.win : v = w \/ (v # w /\ v \in DOMAIN x.win /\ y.win[v] = x.win[v])
  BY <1>1 DEF WinOthers
<1>3. \A v \in DOMAIN x.win : v = w \/ (v # w /\ v \in DOMAIN y.win /\ y.win[v] = x.win[v])
  BY <1>1 DEF WinOthers
<1>4. \A v \in DOMAIN x.win : v # w => x.win[v].sid # id
  BY DEF WindowInv
<1>5. sids(y) = sids(x) \ {id}
  BY <1>2, <1>3, <1>4 DEF sids, unshown
<1>6. {i \in DOMAIN r.surfaces : r.surfaces[i].wl \notin Native}
      = {i \in DOMAIN q.surfaces : q.surfaces[i].wl \notin Native} \ {id}
  BY DEF Drops
<1>7. \A v \in DOMAIN y.win :
        /\ y.win[v].sid # None <=> y.win[v].mapped /\ y.win[v].wl # None
        /\ y.win[v].sid # None => y.win[v].sid \in DOMAIN r.surfaces /\ r.surfaces[y.win[v].sid].wl = y.win[v].wl
  BY <1>2, <1>4 DEF WindowInv, Drops, unshown
<1>8. \A u, v \in DOMAIN y.win : y.win[u].sid = y.win[v].sid /\ y.win[u].sid # None => u = v
  BY <1>2 DEF WindowInv, unshown
<1>9. x.managed = sids(x) /\ x.managed = {i \in DOMAIN q.surfaces : q.surfaces[i].wl \notin Native}
  BY DEF WindowInv, sids
<1> QED
  BY <1>5, <1>6, <1>7, <1>8, <1>9 DEF WindowInv, sids

\* A window with another wl_surface keeps its surface.
LEMMA WindowMove ==
  ASSUME NEW q, NEW r, NEW x \in XwlRec, NEW y \in XwlRec, NEW w \in XWindows, WindowInv(q, x),
         w \in DOMAIN x.win, NEW id, id = x.win[w].sid, id # None, NEW n \in Range(XSurfaces), Moves(q, r, id, n),
         WinOthers(x, y, w), y.managed = x.managed, w \in DOMAIN y.win, y.win[w].sid = id,
         y.win[w].mapped = x.win[w].mapped, y.win[w].wl = n
  PROVE  WindowInv(r, y)
<1>1. DOMAIN x.win \subseteq XWindows /\ DOMAIN y.win \subseteq XWindows
  BY XwlParts
<1>2. \A v \in DOMAIN y.win : v = w \/ (v # w /\ v \in DOMAIN x.win /\ y.win[v] = x.win[v])
  BY <1>1 DEF WinOthers
<1>3. \A v \in DOMAIN x.win : v = w \/ (v # w /\ v \in DOMAIN y.win /\ y.win[v] = x.win[v])
  BY <1>1 DEF WinOthers
<1>4. \A v \in DOMAIN x.win : v # w => x.win[v].sid # id
  BY DEF WindowInv
<1>a. n # None /\ n \notin Native /\ id \in x.managed
  BY XApart DEF WindowInv
<1>5. sids(y) = sids(x)
  BY <1>2, <1>3 DEF sids
<1>6. {i \in DOMAIN r.surfaces : r.surfaces[i].wl \notin Native}
      = {i \in DOMAIN q.surfaces : q.surfaces[i].wl \notin Native}
  BY <1>a DEF Moves, WindowInv
<1>7. \A v \in DOMAIN y.win :
        /\ y.win[v].sid # None <=> y.win[v].mapped /\ y.win[v].wl # None
        /\ y.win[v].sid # None => y.win[v].sid \in DOMAIN r.surfaces /\ r.surfaces[y.win[v].sid].wl = y.win[v].wl
  BY <1>2, <1>4, <1>a DEF WindowInv, Moves
<1>8. \A u, v \in DOMAIN y.win : y.win[u].sid = y.win[v].sid /\ y.win[u].sid # None => u = v
  BY <1>2, <1>4 DEF WindowInv
<1>9. x.managed = sids(x) /\ x.managed = {i \in DOMAIN q.surfaces : q.surfaces[i].wl \notin Native}
  BY DEF WindowInv, sids
<1> QED
  BY <1>5, <1>6, <1>7, <1>8, <1>9 DEF WindowInv, sids

\* A surface for an X window concerns neither toplevels nor the pointer.
LEMMA DisplayAdds ==
  ASSUME NEW q, NEW r, NEW f, NEW t, NEW o, NEW n, n \notin Native, q.next_id \in Nat \ {0}, FreshInv(q),
         Adds(q, r, n), NativeInv(q, f), PointerInv(q, f, t, o)
  PROVE  NativeInv(r, f) /\ PointerInv(r, f, t, o) /\ FreshInv(r)
<1>1. q.next_id \notin DOMAIN q.surfaces
  BY DEF FreshInv
<1>2. \A i \in 1 .. (q.next_id - 1) : i \in 1 .. (r.next_id - 1)
  BY DEF Adds
<1>3. q.next_id \in 1 .. (r.next_id - 1)
  BY DEF Adds
<1>4. NativeInv(r, f)
  BY <1>1 DEF NativeInv, Adds
<1>5. PointerInv(r, f, t, o)
  BY <1>1, <1>2 DEF PointerInv, Adds
<1>6. FreshInv(r)
  BY <1>2, <1>3 DEF FreshInv, Adds
<1> QED
  BY <1>4, <1>5, <1>6

\* When it goes, the pointer may be adrift.
LEMMA DisplayDrops ==
  ASSUME NEW q, NEW r, NEW f, NEW t, NEW u, NEW o, NEW id \in DOMAIN q.surfaces,
         q.surfaces[id].wl \notin Native, FreshInv(q), Drops(q, r, id), NativeInv(q, f), PointerInv(q, f, t, o),
         u.pointers = t.pointers, u.pointed = t.pointed,
         ~ u.adrift => ~ t.adrift /\ t.pointed # q.surfaces[id].wl
  PROVE  NativeInv(r, f) /\ PointerInv(r, f, u, o) /\ FreshInv(r)
<1>4. NativeInv(r, f)
  BY DEF NativeInv, Drops
<1>5. PointerInv(r, f, u, o)
  BY DEF PointerInv, Drops, pointing
<1>6. FreshInv(r)
  BY DEF FreshInv, Drops
<1> QED
  BY <1>4, <1>5, <1>6

\* It may be moved when the wl_surface it had is gone.
LEMMA DisplayMoves ==
  ASSUME NEW q, NEW r, NEW f, NEW t, NEW o, NEW id \in DOMAIN q.surfaces, NEW n,
         q.surfaces[id].wl \notin Native, n \notin Native, FreshInv(q), Moves(q, r, id, n),
         NativeInv(q, f), PointerInv(q, f, t, o),
         q.surfaces[id].wl = n \/ f[q.surfaces[id].wl].life = "dead"
  PROVE  NativeInv(r, f) /\ PointerInv(r, f, t, o) /\ FreshInv(r)
<1>4. NativeInv(r, f)
  BY DEF NativeInv, Moves
<1>5. PointerInv(r, f, t, o)
  BY DEF PointerInv, Moves, alive
<1>6. FreshInv(r)
  BY DEF FreshInv, Moves
<1> QED
  BY <1>4, <1>5, <1>6

\* x has become y as the first X event, about window w, was handled.
Handled(x, y, w) ==
  /\ y.up = x.up /\ y.names = x.names /\ y.made = x.made /\ y.wq = x.wq /\ y.xq = Tail(x.xq)
  /\ WinOthers(x, y, w)
  /\ \A v \in XWindows \ {w} : y.x[v] = x.x[v] /\ Told(x, y, v)
  /\ y.x[w].wl = x.x[w].wl /\ (y.x[w].st = "mapped" <=> x.x[w].st = "mapped")

\* The first X event is read.
LEMMA TailEvents ==
  ASSUME NEW x \in XwlRec, x.xq # <<>>
  PROVE  /\ Tail(x.xq) \in Seq(XEvent) /\ Len(x.xq) \in Nat \ {0} /\ Len(Tail(x.xq)) = Len(x.xq) - 1
         /\ \A i \in 1 .. (Len(x.xq) - 1) : Tail(x.xq)[i] = x.xq[i + 1]
         /\ Head(x.xq) = x.xq[1] /\ x.xq[1] \in XEvent
<1>1. x.xq \in Seq(XEvent)
  BY XwlParts
<1> QED
  BY <1>1

\* The first event is one that its window expects.
LEMMA HeadEvent ==
  ASSUME NEW f, NEW x \in XwlRec, x.xq # <<>>, EventInv(x), OrderInv(f, x)
  PROVE  /\ x.up /\ x.xq[1] \in XEvent /\ expected(x, x.xq[1])
         /\ x.xq[1].type = "map" => x.x[x.xq[1].window].st = "asked"
         /\ x.xq[1].type \in naming => Named(f, x, x.xq[1])
<1>1. x.up /\ Len(x.xq) \in Nat \ {0} /\ x.xq[1] \in XEvent /\ 1 \in 1 .. Len(x.xq)
  BY TailEvents DEF EventInv
<1>2. first(x.xq, 1)
  BY DEF first
<1>3. expected(x, x.xq[1])
  BY <1>1, <1>2 DEF EventInv
<1>4. ASSUME x.xq[1].type = "map"
      PROVE  x.x[x.xq[1].window].st = "asked"
  <2>1. \A j \in 2 .. Len(x.xq) : ~ next(x.xq, 1, j)
    <3>1. \A j \in 2 .. Len(x.xq) : j \in 1 .. Len(x.xq)
      BY <1>1
    <3> QED
      BY <1>1, <1>4, <3>1 DEF EventInv, follows, naming
  <2>2. \A i \in 2 .. Len(x.xq) : x.xq[i].window # x.xq[1].window
    BY <2>1, NextExists
  <2>3. last(x.xq, 1)
    BY <1>1, <2>2 DEF last
  <2> QED
    BY <1>1, <1>4, <2>3 DEF EventInv, leaves
<1>5. x.xq[1].type \in naming => Named(f, x, x.xq[1])
  BY <1>1 DEF OrderInv, OldInv
<1> QED
  BY <1>1, <1>3, <1>4, <1>5

\* Events and requests still agree after the first event.
LEMMA OrderTake ==
  ASSUME NEW f, NEW x \in XwlRec, NEW y \in XwlRec, x.xq # <<>>, EventInv(x), OrderInv(f, x),
         NEW w \in XWindows, w = x.xq[1].window, Handled(x, y, w),
         w \in DOMAIN y.win => Held(f, y, w)
  PROVE  OrderInv(f, y)
<1>1. x.up /\ y.up = x.up /\ y.made = x.made /\ y.wq = x.wq /\ y.xq = Tail(x.xq)
  BY DEF Handled, EventInv
<1>2. \A v \in XWindows : y.x[v].wl = x.x[v].wl /\ (y.x[v].st = "mapped" <=> x.x[v].st = "mapped")
  BY DEF Handled
<1>3. \A v \in XWindows : \A n : has_now(y, v, n) <=> has_now(x, v, n)
  BY <1>2 DEF has_now
<1>4. MadeInv(f, y)
  BY <1>1, <1>2 DEF OrderInv, MadeInv, made
<1>5. DOMAIN x.win \subseteq XWindows /\ DOMAIN y.win \subseteq XWindows
  BY XwlParts
<1>6. \A v \in DOMAIN y.win : v # w => v \in DOMAIN x.win /\ y.win[v] = x.win[v]
  BY <1>5 DEF Handled, WinOthers
<1>7. ASSUME NEW v \in DOMAIN y.win
      PROVE  Held(f, y, v)
  <2>1. CASE v = w
    BY <2>1
  <2>2. CASE v # w
    <3>1. v \in DOMAIN x.win /\ y.win[v] = x.win[v] /\ v \in XWindows
      BY <1>5, <1>6, <2>2
    <3>2. Held(f, x, v)
      BY <1>1, <3>1 DEF OrderInv, OldInv
    <3> QED
      BY <1>1, <1>3, <3>1, <3>2 DEF Held
  <2> QED
    BY <2>1, <2>2
<1>8. ASSUME NEW i \in 1 .. Len(y.xq), y.xq[i].type \in naming
      PROVE  Named(f, y, y.xq[i])
  <2>1. i + 1 \in 1 .. Len(x.xq) /\ 1 \in 1 .. Len(x.xq) /\ 1 < i + 1 /\ y.xq[i] = x.xq[i + 1]
    BY <1>1, TailEvents
  <2> DEFINE j == i + 1
             e == x.xq[j]
  <2>2. j \in 1 .. Len(x.xq) /\ 1 < j /\ y.xq[i] = e
    BY <2>1
  <2> HIDE DEF j
  <2>3. e.window \in XWindows /\ e.type \in naming
    BY <1>8, <2>2, XqParts
  <2>4. e.window # w
    BY <1>1, <2>1, <2>2, <2>3 DEF EventInv
  <2>5. Named(f, x, e)
    BY <1>1, <2>2, <2>3 DEF OrderInv, OldInv
  <2> QED
    BY <1>1, <1>3, <1>6, <2>2, <2>3, <2>4, <2>5 DEF Named
<1> QED
  BY <1>4, <1>7, <1>8 DEF OrderInv, OldInv

\* What is left to show of the first event: its window is as the next event of
\* the window expects it, and the display has the surface it should.
LEMMA DispatchStep ==
  ASSUME IInv, xwl.xq # <<>>, NEW y \in XwlRec, NEW w \in XWindows, w = xwl.xq[1].window,
         Handled(xwl, y, w),
         \A e \in XEvent : e.window = w /\ follows(xwl.xq[1].type, e.type) => expected(y, e),
         xwl.xq[1].type = "map" \/ y.x[w] = xwl.x[w],
         leaves(xwl, xwl.xq[1]) => rests(y, w),
         w \in DOMAIN y.win => Held(surf, y, w),
         d' \in Display, surf' = surf, seat' \in SeatRec, out' = out, xwl' = y,
         SameKeyboard(seat, seat'), FreshInv(d'), NativeInv(d', surf),
         PointerInv(d', surf, seat', out), WindowInv(d', y)
  PROVE  IInv'
<1>1. xwl \in XwlRec /\ EventInv(xwl) /\ OrderInv(surf, xwl) /\ surf \in [Wl -> SurfRec] /\ seat \in SeatRec
  BY DEF IInv, Typed, Sound
<1>2. EventInv(y)
  BY <1>1, TakeEvent DEF Handled, WinOthers
<1>3. OrderInv(surf, y)
  BY <1>1, OrderTake
<1>4. KeyboardInv(surf, seat')
  <2>1. ages(surf, surf)
    BY DEF ages
  <2> QED
    BY <1>1, <2>1, KeyboardFrame DEF IInv, Sound
<1>5. KeyInv(seat', out)
  BY KeyFrame DEF IInv, Sound, SameKeyboard
<1> QED
  BY <1>2, <1>3, <1>4, <1>5 DEF IInv, Typed, Sound

\* XWindowManager after the first event has been handled: X, W, M, L are what
\* it left.
with_handled(x, X, W, M, L) ==
  [x EXCEPT !.xq = Tail(@), !.x = X, !.win = W, !.managed = M, !.early = L]

with_win(x, w, v) == [x.win EXCEPT ![w] = v]

at(q, t, x) == [d |-> q, surf |-> surf, seat |-> t, out |-> out, xwl |-> x]

\* The first event is taken from the queue.
taken(x) == [x EXCEPT !.xq = Tail(@)]

\* To take an event changes nothing else.
LEMMA Taken ==
  ASSUME NEW x \in XwlRec, x.xq # <<>>
  PROVE  /\ taken(x) \in XwlRec /\ taken(x).x = x.x /\ taken(x).win = x.win
         /\ taken(x).managed = x.managed /\ taken(x).early = x.early
BY TailEvents DEF taken, XwlRec

\* The next state of a step that leaves wl_surfaces and output alone.
LEMMA BecomesAt ==
  ASSUME NEW q, NEW t, NEW x, Becomes(at(q, t, x))
  PROVE  d' = q /\ surf' = surf /\ seat' = t /\ out' = out /\ xwl' = x
BY DEF Becomes, at

\* What was handled is of the right type.
LEMMA WithHandled ==
  ASSUME NEW x \in XwlRec, x.xq # <<>>, NEW X \in [XWindows -> XRec], NEW W \in Windows,
         NEW M \in SUBSET Nat, NEW L \in SUBSET XWindows
  PROVE  LET y == with_handled(x, X, W, M, L)
         IN  /\ y \in XwlRec /\ y.x = X /\ y.win = W /\ y.managed = M /\ y.early = L
             /\ y.again = x.again /\ y.names = x.names
             /\ y.up = x.up /\ y.made = x.made /\ y.wq = x.wq /\ y.xq = Tail(x.xq)
<1>1. Tail(x.xq) \in Seq(XEvent)
  BY TailEvents
<1> QED
  BY <1>1 DEF with_handled, XwlRec

\* One window has another record.
LEMMA WithWin ==
  ASSUME NEW x \in XwlRec, NEW w \in DOMAIN x.win, NEW v \in WinRec
  PROVE  LET W == with_win(x, w, v)
         IN  /\ W \in Windows /\ DOMAIN W = DOMAIN x.win /\ W[w] = v
             /\ \A u \in DOMAIN x.win \ {w} : W[u] = x.win[u]
<1>1. x.win \in [DOMAIN x.win -> WinRec] /\ DOMAIN x.win \in SUBSET XWindows
  BY XwlParts
<1>2. with_win(x, w, v) \in [DOMAIN x.win -> WinRec]
  BY <1>1 DEF with_win
<1> QED
  BY <1>1, <1>2 DEF with_win, Windows

\* What is known when the first event is handled.
LEMMA HeadHere ==
  ASSUME IInv, xwl.xq # <<>>
  PROVE  /\ xwl \in XwlRec /\ d \in Display /\ seat \in SeatRec /\ surf \in [Wl -> SurfRec]
         /\ xwl.x \in [XWindows -> XRec] /\ xwl.win \in Windows /\ xwl.managed \in SUBSET Nat
         /\ xwl.early \in SUBSET XWindows
         /\ xwl.win \in [DOMAIN xwl.win -> WinRec] /\ DOMAIN xwl.win \subseteq XWindows
         /\ KeyboardInv(surf, seat) /\ FreshInv(d) /\ PointerInv(d, surf, seat, out)
         /\ NativeInv(d, surf) /\ WindowInv(d, xwl) /\ EventInv(xwl) /\ OrderInv(surf, xwl)
         /\ xwl.up /\ xwl.xq[1] \in XEvent /\ xwl.xq[1].window \in XWindows
         /\ expected(xwl, xwl.xq[1])
         /\ SameKeyboard(seat, seat)
         /\ \A w \in DOMAIN xwl.win : Held(surf, xwl, w)
<1>1. xwl \in XwlRec /\ EventInv(xwl) /\ OrderInv(surf, xwl)
  BY DEF IInv, Typed, Sound
<1>2. xwl.up /\ xwl.xq[1] \in XEvent /\ expected(xwl, xwl.xq[1])
  BY <1>1, HeadEvent
<1>3. xwl.xq[1].window \in XWindows
  BY <1>2 DEF XEvent
<1>4. SameKeyboard(seat, seat)
  BY DEF SameKeyboard
<1>5. \A w \in DOMAIN xwl.win : Held(surf, xwl, w)
  BY <1>1, <1>2 DEF OrderInv, OldInv
<1>6. xwl.win \in Windows
  BY <1>1 DEF XwlRec
<1> QED
  BY <1>1, <1>2, <1>3, <1>4, <1>5, <1>6, XwlParts DEF IInv, Typed, Sound

\* What is left of the step after the event has been taken from the queue.
LEMMA TakesHead ==
  ASSUME IInv, DispatchX
  PROVE  /\ xwl.xq # <<>>
         /\ Becomes(handle_x_event(at(d, seat, taken(xwl)), xwl.xq[1]))
<1>1. xwl.xq # <<>>
  BY DEF DispatchX
<1>2. Head(xwl.xq) = xwl.xq[1]
  BY <1>1, TailEvents DEF IInv, Typed
<1>3. [here EXCEPT !.xwl.xq = Tail(@)] = at(d, seat, taken(xwl))
  <2>1. [here EXCEPT !.xwl.xq = Tail(@)] = [here EXCEPT !.xwl = taken(xwl)]
    BY DEF here, taken
  <2>2. [here EXCEPT !.xwl = taken(xwl)] = at(d, seat, taken(xwl))
    BY DEF here, at
  <2> QED
    BY <2>1, <2>2
<1> QED
  BY <1>1, <1>2, <1>3 DEF DispatchX

\* A window that keeps its wl_surface holds it as before.
LEMMA HeldStays ==
  ASSUME NEW f, NEW x \in XwlRec, NEW y \in XwlRec, NEW w \in XWindows, Handled(x, y, w),
         w \in DOMAIN x.win, y.win[w].wl = x.win[w].wl, Held(f, x, w)
  PROVE  Held(f, y, w)
BY DEF Held, Handled, has_now

\* CreateNotify keeps the invariant: the window is known.
LEMMA CreateNotify ==
  ASSUME IInv, DispatchX, xwl.xq[1].type = "create"
  PROVE  IInv'
<1> DEFINE e == xwl.xq[1]
           w == e.window
           z == [mapped |-> FALSE, wl |-> None, sid |-> None]
           W == put(xwl.win, w, z)
           y == with_handled(xwl, xwl.x, W, xwl.managed, xwl.early)
<1>1. xwl.xq # <<>>
  BY DEF DispatchX
<1> USE <1>1
<1>2. w \in XWindows /\ w \notin DOMAIN xwl.win
  BY HeadHere DEF expected
<1>3. W \in Windows /\ DOMAIN W = DOMAIN xwl.win \cup {w} /\ W[w] = z
      /\ \A v \in DOMAIN xwl.win : W[v] = xwl.win[v]
  <2>1. z \in WinRec
    BY DEF WinRec, XNames
  <2>2. W \in [DOMAIN xwl.win \cup {w} -> WinRec] /\ DOMAIN xwl.win \cup {w} \in SUBSET XWindows
    BY <1>2, <2>1, HeadHere DEF put
  <2> QED
    BY <1>2, <2>2 DEF Windows, put
<1>4. xwl' = y /\ d' = d /\ surf' = surf /\ seat' = seat /\ out' = out
  <2>1. Becomes(handle_create_notify(at(d, seat, taken(xwl)), w))
    BY TakesHead DEF handle_x_event
  <2>2. handle_create_notify(at(d, seat, taken(xwl)), w) = at(d, seat, y)
    <3> HIDE DEF w
    <3>1. handle_create_notify(at(d, seat, taken(xwl)), w)
          = at(d, seat, [taken(xwl) EXCEPT !.win = put(@, w, z)])
      BY HeadHere, Taken DEF handle_create_notify, at
    <3>2. [taken(xwl) EXCEPT !.win = put(@, w, z)] = [taken(xwl) EXCEPT !.win = W]
      BY HeadHere, Taken
    <3>3. [taken(xwl) EXCEPT !.win = W] = y
      <4> HIDE DEF W
      <4> QED
        BY HeadHere DEF taken, with_handled, XwlRec
    <3> QED
      BY <3>1, <3>2, <3>3
  <2> HIDE DEF y
  <2> QED
    BY <2>1, <2>2, BecomesAt
<1> HIDE DEF W
<1>5. /\ y \in XwlRec /\ y.x = xwl.x /\ y.win = W /\ y.managed = xwl.managed
      /\ y.early = xwl.early /\ y.again = xwl.again /\ y.names = xwl.names /\ y.up = xwl.up /\ y.made = xwl.made /\ y.wq = xwl.wq /\ y.xq = Tail(xwl.xq)
  BY <1>3, HeadHere, WithHandled
<1> HIDE DEF y
<1>6. WinOthers(xwl, y, w)
  BY <1>3, <1>5 DEF WinOthers
<1>7. Handled(xwl, y, w)
  BY <1>5, <1>6 DEF Handled, Told
<1>8. WindowInv(d, y)
  <2>1. unshown(y.win[w])
    BY <1>3, <1>5 DEF unshown
  <2> QED
    BY <1>2, <1>5, <1>6, <2>1, HeadHere, WindowPlain
<1>9. \A g \in XEvent : g.window = w /\ follows(e.type, g.type) => expected(y, g)
  BY <1>3, <1>5 DEF follows, expected, naming
<1>10. leaves(xwl, e) => rests(y, w)
  BY <1>3, <1>5 DEF leaves, rests
<1>11. w \in DOMAIN y.win => Held(surf, y, w)
  BY <1>3, <1>5 DEF Held
<1> HIDE DEF w
<1> QED
  BY <1>2, <1>4, <1>5, <1>7, <1>8, <1>9, <1>10, <1>11, HeadHere, DispatchStep DEF w

\* DestroyNotify keeps the invariant: the window was unmapped before.
LEMMA DestroyNotify ==
  ASSUME IInv, DispatchX, xwl.xq[1].type = "destroy"
  PROVE  IInv'
<1> DEFINE e == xwl.xq[1]
           w == e.window
           W == Restrict(xwl.win, DOMAIN xwl.win \ {w})
           y == with_handled(xwl, xwl.x, W, xwl.managed, xwl.early)
<1>1. xwl.xq # <<>>
  BY DEF DispatchX
<1> USE <1>1
<1>2. w \in XWindows /\ w \in DOMAIN xwl.win /\ ~ xwl.win[w].mapped
  BY HeadHere DEF expected, naming
<1>a. xwl.win[w].sid = None
  BY <1>2, HeadHere DEF WindowInv
<1>3. W \in Windows /\ DOMAIN W = DOMAIN xwl.win \ {w}
      /\ \A v \in DOMAIN xwl.win \ {w} : W[v] = xwl.win[v]
  <2>2. W \in [DOMAIN xwl.win \ {w} -> WinRec] /\ DOMAIN xwl.win \ {w} \in SUBSET XWindows
    BY <1>2, HeadHere DEF Restrict
  <2> QED
    BY <2>2 DEF Windows, Restrict
<1>4. xwl' = y /\ d' = d /\ surf' = surf /\ seat' = seat /\ out' = out
  <2> DEFINE s == at(d, seat, taken(xwl))
  <2>1. Becomes(handle_destroy_notify(s, w))
    BY TakesHead DEF handle_x_event
  <2>2. handle_destroy_notify(s, w) = at(d, seat, y)
    <3>1. s.xwl.win = xwl.win
      BY HeadHere, Taken DEF at
    <3>2. known(s, w) /\ hide_window(s, w) = s
      <4> HIDE DEF s, w
      <4> QED
        BY <1>2, <1>a, <3>1 DEF known, hide_window, surface_id
    <3>3. handle_destroy_notify(s, w) = [s EXCEPT !.xwl.win = Restrict(@, DOMAIN @ \ {w})]
      <4> HIDE DEF s, w
      <4> QED
        BY <3>2 DEF handle_destroy_notify
    <3> HIDE DEF w
    <3>4. handle_destroy_notify(s, w) = at(d, seat, [taken(xwl) EXCEPT !.win = Restrict(@, DOMAIN @ \ {w})])
      BY <3>3, HeadHere, Taken DEF at
    <3>5. [taken(xwl) EXCEPT !.win = Restrict(@, DOMAIN @ \ {w})] = [taken(xwl) EXCEPT !.win = W]
      BY HeadHere, Taken
    <3>6. [taken(xwl) EXCEPT !.win = W] = y
      <4> HIDE DEF W
      <4> QED
        BY HeadHere DEF taken, with_handled, XwlRec
    <3> QED
      BY <3>4, <3>5, <3>6
  <2> HIDE DEF y, s
  <2> QED
    BY <2>1, <2>2, BecomesAt
<1> HIDE DEF W
<1>5. /\ y \in XwlRec /\ y.x = xwl.x /\ y.win = W /\ y.managed = xwl.managed
      /\ y.early = xwl.early /\ y.again = xwl.again /\ y.names = xwl.names /\ y.up = xwl.up /\ y.made = xwl.made /\ y.wq = xwl.wq /\ y.xq = Tail(xwl.xq)
  BY <1>3, HeadHere, WithHandled
<1> HIDE DEF y
<1>6. WinOthers(xwl, y, w)
  BY <1>3, <1>5 DEF WinOthers
<1>7. Handled(xwl, y, w)
  BY <1>5, <1>6 DEF Handled, Told
<1>b. w \notin DOMAIN y.win
  BY <1>3, <1>5
<1>8. WindowInv(d, y)
  BY <1>2, <1>5, <1>6, <1>a, <1>b, HeadHere, WindowPlain
<1>9. \A g \in XEvent : g.window = w /\ follows(e.type, g.type) => expected(y, g)
  BY <1>3, <1>5 DEF follows, expected, naming
<1>10. leaves(xwl, e) => rests(y, w)
  BY <1>3, <1>5 DEF leaves, rests
<1> HIDE DEF w
<1> QED
  BY <1>2, <1>4, <1>5, <1>7, <1>8, <1>9, <1>10, <1>b, HeadHere, DispatchStep DEF w

\* The display after a surface was made for a window with wl_surface n.
shown(q, n) ==
  surface_committed(surface_mapped(set_wl_surface_id(add_surface(q, None), q.next_id, n), q.next_id),
                    q.next_id, TRUE)

\* show_window adds one surface, backed by the wl_surface.
LEMMA ShownAdds ==
  ASSUME NEW q \in Display, NEW n \in Wl
  PROVE  shown(q, n) \in Display /\ Adds(q, shown(q, n), n)
<1> DEFINE a == set_wl_surface_id(add_surface(q, None), q.next_id, n)
           b == surface_mapped(a, q.next_id)
<1>1. a \in Display /\ Adds(q, a, n)
  BY AddWindow
<1> HIDE DEF a
<1>2. b \in Display /\ SameBacks(a, b)
  BY <1>1, SurfaceMapped
<1> HIDE DEF b
<1>3. shown(q, n) \in Display /\ SameBacks(b, shown(q, n))
  BY <1>2, SurfaceCommitted DEF shown, a, b
<1> QED
  BY <1>1, <1>2, <1>3 DEF Adds, SameBacks

\* Changes of XWindowManager by the parts they touch.
with_sid(x, w, id, M) == [x EXCEPT !.win[w].sid = id, !.managed = M]
with_managed(x, W, M) == [x EXCEPT !.win = W, !.managed = M]

\* The window has another surface.
LEMMA SetSid ==
  ASSUME NEW x \in XwlRec, NEW w \in DOMAIN x.win, NEW id, NEW M
  PROVE  with_sid(x, w, id, M) = with_managed(x, with_win(x, w, [x.win[w] EXCEPT !.sid = id]), M)
BY DEF XwlRec, with_win, with_sid, with_managed

\* The second change is what counts.
ChangesTwice(x, w, X, v, u, M, N, L) ==
  LET y == with_handled(x, X, with_win(x, w, v), M, L)
  IN  with_managed(y, with_win(y, w, u), N) = with_handled(x, X, with_win(x, w, u), N, L)

\* A window may change twice while its event is handled.
LEMMA HandledAgain ==
  ASSUME NEW x \in XwlRec, x.xq # <<>>, NEW w \in DOMAIN x.win, NEW X \in [XWindows -> XRec],
         NEW v \in WinRec, NEW u \in WinRec,
         NEW M \in SUBSET Nat, NEW N \in SUBSET Nat, NEW L \in SUBSET XWindows
  PROVE  ChangesTwice(x, w, X, v, u, M, N, L)
<1> DEFINE V == with_win(x, w, v)
           U == with_win(x, w, u)
           y == with_handled(x, X, V, M, L)
<1>1. V \in Windows /\ DOMAIN V = DOMAIN x.win
  BY WithWin
<1>2. [V EXCEPT ![w] = u] = U
  BY XwlParts DEF with_win
<1> HIDE DEF V, U
<1>3. y \in XwlRec /\ y.win = V
  <2> HIDE DEF y
  <2>1. y = with_handled(x, X, V, M, L)
    BY DEF y
  <2> QED
    BY <1>1, <2>1, WithHandled
<1>4. with_win(y, w, u) = U
  BY <1>2, <1>3 DEF with_win
<1>5. with_managed(y, U, N) = with_handled(x, X, U, N, L)
  BY DEF with_handled, with_managed, XwlRec
<1> QED
  BY <1>4, <1>5 DEF V, U, ChangesTwice

\* One part of the state is another.
LEMMA AtSet ==
  ASSUME NEW q, NEW t, NEW y, NEW r, NEW u, NEW z
  PROVE  /\ [at(q, t, y) EXCEPT !.d = r] = at(r, t, y)
         /\ [at(q, t, y) EXCEPT !.seat = u] = at(q, u, y)
         /\ [at(q, t, y) EXCEPT !.xwl = z] = at(q, t, z)
BY DEF at

with_id(v, id) == [v EXCEPT !.sid = id]

\* The effect of show_window.
Shows(x, w, X, v, M, L, q, t, n) ==
  show_window(at(q, t, with_handled(x, X, with_win(x, w, v), M, L)), w, n)
  = at(shown(q, n), t, with_handled(x, X, with_win(x, w, with_id(v, q.next_id)), M \cup {q.next_id}, L))

\* The window is shown while its event is being handled.
LEMMA ShowWindow ==
  ASSUME NEW x \in XwlRec, x.xq # <<>>, NEW w \in DOMAIN x.win, NEW X \in [XWindows -> XRec],
         NEW v \in WinRec, NEW M \in SUBSET Nat, NEW L \in SUBSET XWindows,
         NEW q \in Display, NEW t, NEW n
  PROVE  Shows(x, w, X, v, M, L, q, t, n)
<1> DEFINE y == with_handled(x, X, with_win(x, w, v), M, L)
           u == [v EXCEPT !.sid = q.next_id]
           N == M \cup {q.next_id}
<1>1. with_win(x, w, v) \in Windows /\ w \in DOMAIN with_win(x, w, v) /\ with_win(x, w, v)[w] = v
  BY WithWin
<1>2. y \in XwlRec /\ y.win[w] = v /\ y.managed = M /\ w \in DOMAIN y.win
  BY <1>1, WithHandled
<1>3. N \in SUBSET Nat /\ u \in WinRec
  BY DisplayParts DEF WinRec
<1>a. with_managed(y, with_win(y, w, u), N) = with_handled(x, X, with_win(x, w, u), N, L)
  <2> HIDE DEF u, N
  <2>1. ChangesTwice(x, w, X, v, u, M, N, L)
    BY <1>3, HandledAgain
  <2> QED
    BY <2>1 DEF ChangesTwice
<1> HIDE DEF y
<1>4. show_window(at(q, t, y), w, n) = at(shown(q, n), t, with_sid(y, w, q.next_id, N))
  <2> DEFINE r == shown(q, n)
             id == q.next_id
             z == [y EXCEPT !.win[w].sid = id, !.managed = @ \cup {id}]
  <2>1. show_window(at(q, t, y), w, n)
        = [at(q, t, y) EXCEPT !.d = r, !.xwl.win[w].sid = id, !.xwl.managed = @ \cup {id}]
    BY DEF show_window, at, shown
  <2> HIDE DEF r, id
  <2>2. [at(q, t, y) EXCEPT !.d = r, !.xwl.win[w].sid = id, !.xwl.managed = @ \cup {id}]
        = [[at(q, t, y) EXCEPT !.d = r] EXCEPT !.xwl = z]
    BY <1>2 DEF at
  <2>3. z = with_sid(y, w, id, M \cup {id})
    BY <1>2 DEF with_sid
  <2> HIDE DEF z
  <2>4. [[at(q, t, y) EXCEPT !.d = r] EXCEPT !.xwl = z] = at(r, t, z)
    <3>1. [at(q, t, y) EXCEPT !.d = r] = at(r, t, y)
      BY AtSet
    <3>2. [at(r, t, y) EXCEPT !.xwl = z] = at(r, t, z)
      BY AtSet
    <3> QED
      BY <3>1, <3>2
  <2> QED
    BY <2>1, <2>2, <2>3, <2>4 DEF r, id
<1>6. with_sid(y, w, q.next_id, N) = with_managed(y, with_win(y, w, u), N)
  BY <1>2, SetSid
<1> QED
  BY <1>4, <1>6, <1>a DEF y, with_id, Shows

\* The display after a window is shown.
LEMMA DisplayShows ==
  ASSUME IInv, xwl.xq # <<>>, NEW n \in Range(XSurfaces), NEW y \in XwlRec, NEW w \in DOMAIN xwl.win,
         d' = shown(d, n), WinOthers(xwl, y, w), y.managed = xwl.managed \cup {d.next_id},
         xwl.win[w].sid = None, w \in DOMAIN y.win,
         y.win[w].sid = d.next_id, y.win[w].mapped, y.win[w].wl = n
  PROVE  /\ d' \in Display /\ FreshInv(d') /\ NativeInv(d', surf) /\ PointerInv(d', surf, seat, out)
         /\ WindowInv(d', y)
<1>1. n \in Wl /\ n \notin Native /\ d.next_id \in Nat \ {0}
  BY XApart, HeadHere, DisplayParts
<1>2. d' \in Display /\ Adds(d, d', n)
  BY <1>1, HeadHere, ShownAdds
<1>3. NativeInv(d', surf) /\ PointerInv(d', surf, seat, out) /\ FreshInv(d')
  BY <1>1, <1>2, HeadHere, DisplayAdds
<1>4. WindowInv(d', y)
  BY <1>1, <1>2, HeadHere, WindowShow
<1> QED
  BY <1>2, <1>3, <1>4

\* The window is not mapped any more.
with_unmapped(x, w) == [x EXCEPT !.win[w].mapped = FALSE]

unmapped_in(s, w) == [s EXCEPT !.xwl.win[w].mapped = FALSE]

\* The window is unmapped.
LEMMA SetMapped ==
  ASSUME NEW x \in XwlRec, NEW w \in DOMAIN x.win
  PROVE  with_unmapped(x, w) = with_managed(x, with_win(x, w, [x.win[w] EXCEPT !.mapped = FALSE]), x.managed)
BY DEF XwlRec, with_win, with_managed, with_unmapped

\* It is the only one.
LEMMA AtMapped ==
  ASSUME NEW q, NEW t, NEW x, NEW w
  PROVE  unmapped_in(at(q, t, x), w) = at(q, t, with_unmapped(x, w))
<1>1. [at(q, t, x) EXCEPT !.xwl.win[w].mapped = FALSE] = [at(q, t, x) EXCEPT !.xwl = with_unmapped(x, w)]
  BY DEF at, with_unmapped
<1> QED
  BY <1>1, AtSet DEF unmapped_in

\* The surfaces of windows change after the event is taken,
LEMMA TakenManaged ==
  ASSUME NEW x \in XwlRec, x.xq # <<>>, NEW W, NEW M
  PROVE  with_managed(taken(x), W, M) = with_handled(x, x.x, W, M, x.early)
BY DEF with_managed, taken, with_handled, XwlRec

\* and so does a window.
LEMMA TakenWin ==
  ASSUME NEW x \in XwlRec, x.xq # <<>>, NEW w, NEW v
  PROVE  with_win(taken(x), w, v) = with_win(x, w, v)
BY Taken DEF with_win

\* What an unmapped window leaves: nothing is shown for it.
LEMMA UnmapEffect ==
  ASSUME IInv, DispatchX, xwl.xq[1].type = "unmap", NEW w, w = xwl.xq[1].window,
         NEW u, u = [seat EXCEPT !.adrift = @ \/ seat.pointed = xwl.win[w].wl],
         NEW id, id = xwl.win[w].sid, NEW v, v = [xwl.win[w] EXCEPT !.mapped = FALSE, !.sid = None]
  PROVE  /\ w \in DOMAIN xwl.win
         /\ surf' = surf /\ out' = out
         /\ id = None => /\ d' = d /\ seat' = seat
                         /\ xwl' = with_handled(xwl, xwl.x, with_win(xwl, w, v), xwl.managed, xwl.early)
         /\ id # None => /\ d' = surface_destroyed(d, id) /\ seat' = u
                         /\ xwl' = with_handled(xwl, xwl.x, with_win(xwl, w, v), xwl.managed \ {id}, xwl.early)
<1> DEFINE x == taken(xwl)
           s == at(d, seat, x)
<1>1. xwl.xq # <<>>
  BY DEF DispatchX
<1> USE <1>1
<1>2. w \in XWindows /\ w \in DOMAIN xwl.win /\ xwl.win[w].mapped /\ xwl.win[w] \in WinRec
  BY HeadHere DEF expected, naming
<1>3. x \in XwlRec /\ x.win = xwl.win /\ x.managed = xwl.managed
  BY HeadHere, Taken
<1>4. Becomes(handle_unmap_notify(s, w))
  BY TakesHead DEF handle_x_event
<1> HIDE DEF x
<1>5. Becomes(unmapped_in(hide_window(s, w), w))
  <2>1. s.xwl.win = xwl.win
    BY <1>3 DEF at
  <2> HIDE DEF s
  <2> QED
    BY <1>2, <1>4, <2>1 DEF handle_unmap_notify, known, unmapped_in
<1>6. CASE id = None
  <2>1. hide_window(s, w) = s
    BY <1>3, <1>6 DEF hide_window, surface_id, at
  <2>2. unmapped_in(s, w) = at(d, seat, with_unmapped(x, w))
    BY AtMapped
  <2>3. [xwl.win[w] EXCEPT !.mapped = FALSE] = v
    BY <1>2, <1>6 DEF WinRec
  <2>4. with_unmapped(x, w) = with_handled(xwl, xwl.x, with_win(xwl, w, v), xwl.managed, xwl.early)
    <3>1. with_unmapped(x, w) = with_managed(x, with_win(x, w, v), xwl.managed)
      <4>1. w \in DOMAIN x.win /\ [x.win[w] EXCEPT !.mapped = FALSE] = v
        BY <1>2, <1>3, <2>3
      <4> QED
        BY <1>3, <4>1, SetMapped
    <3> QED
      BY <3>1, HeadHere, TakenManaged, TakenWin DEF x
  <2>5. Becomes(at(d, seat, with_handled(xwl, xwl.x, with_win(xwl, w, v), xwl.managed, xwl.early)))
    BY <1>5, <2>1, <2>2, <2>4
  <2> QED
    BY <1>2, <1>6, <2>5, BecomesAt
<1>7. CASE id # None
  <2> DEFINE r == surface_destroyed(d, id)
             M == xwl.managed \ {id}
             z == [x EXCEPT !.managed = @ \ {id}, !.win[w].sid = None]
             v1 == [xwl.win[w] EXCEPT !.sid = None]
             y1 == with_handled(xwl, xwl.x, with_win(xwl, w, v1), M, xwl.early)
  <2>1. hide_window(s, w) = [s EXCEPT !.d = r, !.xwl.managed = @ \ {id}, !.xwl.win[w].sid = None,
                                      !.seat.adrift = @ \/ seat.pointed = xwl.win[w].wl]
    <3>1. surface_id(s, w) = id /\ s.seat = seat /\ s.xwl.win = xwl.win /\ s.d = d
      BY <1>3 DEF at, surface_id
    <3> HIDE DEF s
    <3> QED
      BY <1>7, <3>1 DEF hide_window
  <2> HIDE DEF r
  <2>2. hide_window(s, w) = at(r, u, z)
    <3>1. hide_window(s, w)
          = [[[s EXCEPT !.d = r] EXCEPT !.xwl.managed = @ \ {id}, !.xwl.win[w].sid = None]
             EXCEPT !.seat.adrift = @ \/ seat.pointed = xwl.win[w].wl]
      BY <2>1 DEF at
    <3>2. [s EXCEPT !.d = r] = at(r, seat, x)
      BY AtSet
    <3>3. [at(r, seat, x) EXCEPT !.xwl.managed = @ \ {id}, !.xwl.win[w].sid = None] = at(r, seat, z)
      <4>1. [at(r, seat, x) EXCEPT !.xwl.managed = @ \ {id}, !.xwl.win[w].sid = None]
            = [at(r, seat, x) EXCEPT !.xwl = z]
        BY ZenonT(60) DEF at
      <4> HIDE DEF z
      <4>2. [at(r, seat, x) EXCEPT !.xwl = z] = at(r, seat, z)
        BY AtSet
      <4> QED
        BY <4>1, <4>2, ZenonT(60)
    <3>4. [at(r, seat, z) EXCEPT !.seat.adrift = @ \/ seat.pointed = xwl.win[w].wl] = at(r, u, z)
      <4> HIDE DEF z
      <4>1. [at(r, seat, z) EXCEPT !.seat.adrift = @ \/ seat.pointed = xwl.win[w].wl]
            = [at(r, seat, z) EXCEPT !.seat = u]
        BY DEF at
      <4> QED
        BY <4>1, AtSet
    <3> QED
      BY <3>1, <3>2, <3>3, <3>4, ZenonT(60)
  <2>3. z = y1
    <3>1. z = with_sid(x, w, None, M)
      BY <1>3 DEF with_sid, XwlRec
    <3>2. with_sid(x, w, None, M) = with_managed(x, with_win(x, w, v1), M)
      <4>1. w \in DOMAIN x.win /\ [x.win[w] EXCEPT !.sid = None] = v1
        BY <1>2, <1>3
      <4> HIDE DEF M, v1
      <4> QED
        BY <1>3, <4>1, SetSid
    <3> HIDE DEF z, v1, M
    <3> QED
      BY <3>1, <3>2, HeadHere, TakenManaged, TakenWin DEF x
  <2> HIDE DEF z
  <2>4. hide_window(s, w) = at(r, u, y1)
    BY <2>2, <2>3
  <2>5. v1 \in WinRec /\ v \in WinRec /\ [v1 EXCEPT !.mapped = FALSE] = v
    BY <1>2 DEF WinRec
  <2>6. /\ y1 \in XwlRec /\ y1.win[w] = v1 /\ w \in DOMAIN y1.win /\ y1.managed = M
    <3>1. with_win(xwl, w, v1) \in Windows /\ DOMAIN with_win(xwl, w, v1) = DOMAIN xwl.win
          /\ with_win(xwl, w, v1)[w] = v1
      <4> HIDE DEF v1
      <4> QED
        BY <1>2, <2>5, HeadHere, WithWin
    <3>2. M \in SUBSET Nat
      BY HeadHere
    <3> HIDE DEF v1, M
    <3> QED
      BY <1>2, <3>1, <3>2, HeadHere, WithHandled
  <2>7. with_unmapped(y1, w) = with_handled(xwl, xwl.x, with_win(xwl, w, v), M, xwl.early)
    <3>1. with_unmapped(y1, w) = with_managed(y1, with_win(y1, w, v), M)
      <4>1. with_unmapped(y1, w) = with_managed(y1, with_win(y1, w, [y1.win[w] EXCEPT !.mapped = FALSE]), y1.managed)
        <5> HIDE DEF y1, v1, M
        <5> QED
          BY <2>6, SetMapped
      <4> HIDE DEF y1, v1, M
      <4> QED
        BY <2>5, <2>6, <4>1
    <3>2. with_managed(y1, with_win(y1, w, v), M) = with_handled(xwl, xwl.x, with_win(xwl, w, v), M, xwl.early)
      <4> HIDE DEF v1
      <4>1. M \in SUBSET Nat
        BY HeadHere
      <4> HIDE DEF M
      <4> QED
        BY <1>2, <2>5, <4>1, HeadHere, HandledAgain, SMTT(60) DEF ChangesTwice
    <3> QED
      BY <3>1, <3>2
  <2> HIDE DEF y1
  <2>8. Becomes(at(r, u, with_unmapped(y1, w)))
    <3>1. unmapped_in(at(r, u, y1), w) = at(r, u, with_unmapped(y1, w))
      BY AtMapped
    <3> QED
      BY <1>5, <2>4, <3>1
  <2> QED
    BY <1>2, <1>7, <2>7, <2>8, BecomesAt DEF r
<1> QED
  BY <1>2, <1>6, <1>7

\* UnmapNotify keeps the invariant: the window is hidden, if it was shown.
LEMMA UnmapNotify ==
  ASSUME IInv, DispatchX, xwl.xq[1].type = "unmap"
  PROVE  IInv'
<1> DEFINE e == xwl.xq[1]
           w == e.window
           u == [seat EXCEPT !.adrift = @ \/ seat.pointed = xwl.win[w].wl]
           id == xwl.win[w].sid
           v == [xwl.win[w] EXCEPT !.mapped = FALSE, !.sid = None]
           W == with_win(xwl, w, v)
           M == IF id = None THEN xwl.managed ELSE xwl.managed \ {id}
           y == with_handled(xwl, xwl.x, W, M, xwl.early)
<1>1. xwl.xq # <<>>
  BY DEF DispatchX
<1> USE <1>1
<1>2. /\ w \in DOMAIN xwl.win
      /\ surf' = surf /\ out' = out
      /\ id = None => d' = d /\ seat' = seat
      /\ id # None => d' = surface_destroyed(d, id) /\ seat' = u
      /\ xwl' = y
  <2> HIDE DEF w, u, id, v
  <2>1. /\ w \in DOMAIN xwl.win
        /\ surf' = surf /\ out' = out
        /\ id = None => /\ d' = d /\ seat' = seat
                        /\ xwl' = with_handled(xwl, xwl.x, with_win(xwl, w, v), xwl.managed, xwl.early)
        /\ id # None => /\ d' = surface_destroyed(d, id) /\ seat' = u
                        /\ xwl' = with_handled(xwl, xwl.x, with_win(xwl, w, v), xwl.managed \ {id}, xwl.early)
    BY UnmapEffect DEF w, u, id, v
  <2> QED
    BY <2>1
<1>3. w \in XWindows /\ xwl.win[w] \in WinRec /\ xwl.win[w].mapped
  BY <1>2, HeadHere DEF expected, naming
<1>4. v \in WinRec /\ ~ v.mapped /\ v.sid = None /\ v.wl = xwl.win[w].wl
  BY <1>3 DEF WinRec
<1>5. M \in SUBSET Nat
  BY HeadHere
<1> HIDE DEF v
<1>6. /\ W \in Windows /\ DOMAIN W = DOMAIN xwl.win /\ W[w] = v
      /\ \A z \in DOMAIN xwl.win \ {w} : W[z] = xwl.win[z]
  <2>1. xwl \in XwlRec
    BY HeadHere
  <2> HIDE DEF w
  <2> QED
    BY <1>2, <1>4, <2>1, WithWin
<1> HIDE DEF W, M
<1>7. /\ y \in XwlRec /\ y.x = xwl.x /\ y.win = W /\ y.managed = M
      /\ y.early = xwl.early /\ y.again = xwl.again /\ y.names = xwl.names /\ y.up = xwl.up /\ y.made = xwl.made /\ y.wq = xwl.wq /\ y.xq = Tail(xwl.xq)
  BY <1>5, <1>6, HeadHere, WithHandled
<1> HIDE DEF y
<1>8. WinOthers(xwl, y, w)
  BY <1>6, <1>7, HeadHere DEF WinOthers
<1>9. Handled(xwl, y, w)
  BY <1>7, <1>8 DEF Handled, Told
<1>10. \A g \in XEvent : g.window = w /\ follows(e.type, g.type) => expected(y, g)
  BY <1>2, <1>4, <1>6, <1>7 DEF follows, expected, naming
<1>11. leaves(xwl, e) => rests(y, w)
  BY <1>2, <1>4, <1>6, <1>7 DEF leaves, rests
<1>12. Held(surf, y, w)
  BY <1>2, <1>3, <1>4, <1>6, <1>7, <1>9, HeadHere, HeldStays
<1>13. unshown(y.win[w])
  BY <1>4, <1>6, <1>7 DEF unshown
<1>14. CASE id = None
  <2>1. WindowInv(d, y)
    BY <1>3, <1>7, <1>8, <1>13, <1>14, HeadHere, WindowPlain DEF M
  <2> HIDE DEF w
  <2> QED
    BY <1>2, <1>3, <1>7, <1>9, <1>10, <1>11, <1>12, <1>14, <2>1, HeadHere, DispatchStep DEF w
<1>15. CASE id # None
  <2>1. id \in DOMAIN d.surfaces /\ d.surfaces[id].wl = xwl.win[w].wl /\ id \in xwl.managed
    BY <1>2, <1>15, HeadHere DEF WindowInv
  <2>2. d.surfaces[id].wl \notin Native
    BY <2>1, HeadHere DEF WindowInv
  <2>3. d' \in Display /\ Drops(d, d', id)
    <3>1. d \in Display
      BY HeadHere
    <3>2. d' = surface_destroyed(d, id)
      BY <1>2, <1>15
    <3> HIDE DEF id, w
    <3> QED
      BY <2>1, <3>1, <3>2, SurfaceDestroyed
  <2>4. /\ u \in SeatRec /\ SameKeyboard(seat, u) /\ u.pointers = seat.pointers /\ u.pointed = seat.pointed
        /\ ~ u.adrift => ~ seat.adrift /\ seat.pointed # xwl.win[w].wl
    BY HeadHere DEF SeatRec, SameKeyboard
  <2>5. seat' = u
    BY <1>2, <1>15
  <2> HIDE DEF u
  <2>6. NativeInv(d', surf) /\ PointerInv(d', surf, u, out) /\ FreshInv(d')
    <3>1. ~ u.adrift => ~ seat.adrift /\ seat.pointed # d.surfaces[id].wl
      BY <2>1, <2>4
    <3> HIDE DEF id
    <3> QED
      BY <2>1, <2>2, <2>3, <2>4, <3>1, HeadHere, DisplayDrops
  <2>7. WindowInv(d', y)
    <3>1. y.managed = xwl.managed \ {id}
      BY <1>7, <1>15 DEF M
    <3> HIDE DEF id
    <3>2. id = xwl.win[w].sid
      BY DEF id
    <3> QED
      BY <1>2, <1>3, <1>7, <1>8, <1>13, <1>15, <2>3, <3>1, <3>2, HeadHere, WindowHide
  <2> HIDE DEF w, id
  <2> QED
    BY <1>2, <1>3, <1>7, <1>9, <1>10, <1>11, <1>12, <2>3, <2>4, <2>5, <2>6, <2>7, HeadHere, DispatchStep DEF w
<1> QED
  BY <1>14, <1>15

\* The window is mapped; Xwayland is told.
with_mapping(x, w) == [x EXCEPT !.win[w].mapped = TRUE, !.x[w].st = "mapping"]
mapping_in(s, w) == [s EXCEPT !.xwl.win[w].mapped = TRUE, !.xwl.x[w].st = "mapping"]
X_mapping(x, w) == [x.x EXCEPT ![w] = [x.x[w] EXCEPT !.st = "mapping"]]

\* The window is mapped, and nothing else changes.
LEMMA AtMapping ==
  ASSUME NEW q, NEW t, NEW x, NEW w
  PROVE  mapping_in(at(q, t, x), w) = at(q, t, with_mapping(x, w))
<1>1. mapping_in(at(q, t, x), w) = [at(q, t, x) EXCEPT !.xwl = with_mapping(x, w)]
  BY DEF at, mapping_in, with_mapping
<1> QED
  BY <1>1, AtSet

\* That is after its event is taken.
LEMMA TakenMapping ==
  ASSUME NEW x \in XwlRec, x.xq # <<>>, NEW w \in DOMAIN x.win
  PROVE  with_mapping(taken(x), w)
         = with_handled(x, X_mapping(x, w), with_win(x, w, [x.win[w] EXCEPT !.mapped = TRUE]), x.managed, x.early)
BY Taken DEF with_mapping, taken, with_handled, X_mapping, with_win, XwlRec

\* What MapRequest does: the window is shown if its wl_surface is known.
LEMMA MapEffect ==
  ASSUME IInv, DispatchX, xwl.xq[1].type = "map", NEW w, w = xwl.xq[1].window,
         NEW n, n = xwl.win[w].wl, NEW v, v = [xwl.win[w] EXCEPT !.mapped = TRUE]
  PROVE  /\ w \in DOMAIN xwl.win
         /\ surf' = surf /\ out' = out /\ seat' = seat
         /\ n = None => /\ d' = d
                        /\ xwl' = with_handled(xwl, X_mapping(xwl, w), with_win(xwl, w, v), xwl.managed, xwl.early)
         /\ n # None => /\ d' = shown(d, n)
                        /\ xwl' = with_handled(xwl, X_mapping(xwl, w),
                                               with_win(xwl, w, with_id(v, d.next_id)),
                                               xwl.managed \cup {d.next_id}, xwl.early)
<1> DEFINE x == taken(xwl)
           s == at(d, seat, x)
           y == with_handled(xwl, X_mapping(xwl, w), with_win(xwl, w, v), xwl.managed, xwl.early)
<1>1. xwl.xq # <<>>
  BY DEF DispatchX
<1> USE <1>1
<1>2. w \in XWindows /\ w \in DOMAIN xwl.win /\ xwl.win[w] \in WinRec
  BY HeadHere DEF expected, naming
<1>3. x \in XwlRec /\ x.win = xwl.win
  BY HeadHere, Taken
<1>4. Becomes(handle_map_request(s, w))
  BY TakesHead DEF handle_x_event
<1>5. mapping_in(s, w) = at(d, seat, y)
  <2> HIDE DEF s, y
  <2>1. mapping_in(s, w) = at(d, seat, with_mapping(x, w))
    BY AtMapping DEF s
  <2> QED
    BY <1>2, <2>1, HeadHere, TakenMapping DEF x, y
<1> HIDE DEF x, y
<1>6. s.xwl.win = xwl.win
  BY <1>3 DEF at
<1> HIDE DEF s
<1>7. Becomes(IF n = None THEN mapping_in(s, w) ELSE show_window(mapping_in(s, w), w, n))
  BY <1>2, <1>4, <1>6 DEF handle_map_request, known, mapping_in
<1>8. CASE n = None
  <2>1. Becomes(at(d, seat, y))
    BY <1>5, <1>7, <1>8
  <2> QED
    BY <1>2, <1>8, <2>1, BecomesAt DEF y
<1>9. CASE n # None
  <2>1. X_mapping(xwl, w) \in [XWindows -> XRec]
    BY <1>2, HeadHere DEF X_mapping, XRec
  <2>2. v \in WinRec
    BY <1>2 DEF WinRec
  <2>3. show_window(at(d, seat, y), w, n)
        = at(shown(d, n), seat, with_handled(xwl, X_mapping(xwl, w), with_win(xwl, w, with_id(v, d.next_id)),
                                             xwl.managed \cup {d.next_id}, xwl.early))
    <3> DEFINE X == X_mapping(xwl, w)
               M == xwl.managed
               L == xwl.early
               z == v
    <3>1. xwl \in XwlRec /\ d \in Display /\ X \in [XWindows -> XRec] /\ M \in SUBSET Nat /\ L \in SUBSET XWindows
          /\ z \in WinRec
      BY <2>1, <2>2, HeadHere
    <3>2. y = with_handled(xwl, X, with_win(xwl, w, z), M, L)
      BY DEF y
    <3> HIDE DEF X, M, L, z
    <3>3. show_window(at(d, seat, with_handled(xwl, X, with_win(xwl, w, z), M, L)), w, n)
          = at(shown(d, n), seat, with_handled(xwl, X, with_win(xwl, w, with_id(z, d.next_id)), M \cup {d.next_id}, L))
      <4>1. Shows(xwl, w, X, z, M, L, d, seat, n)
        BY <1>2, <3>1, ShowWindow
      <4> QED
        BY <4>1 DEF Shows
    <3> QED
      BY <3>2, <3>3 DEF X, M, L, z
  <2>4. Becomes(at(shown(d, n), seat, with_handled(xwl, X_mapping(xwl, w),
                     with_win(xwl, w, with_id(v, d.next_id)), xwl.managed \cup {d.next_id}, xwl.early)))
    BY <1>5, <1>7, <1>9, <2>3
  <2> QED
    BY <1>2, <1>9, <2>4, BecomesAt
<1> QED
  BY <1>8, <1>9

\* MapRequest keeps the invariant.
LEMMA MapRequest ==
  ASSUME IInv, DispatchX, xwl.xq[1].type = "map"
  PROVE  IInv'
<1> DEFINE e == xwl.xq[1]
           w == e.window
           n == xwl.win[w].wl
           v1 == [xwl.win[w] EXCEPT !.mapped = TRUE]
           v == IF n = None THEN v1 ELSE with_id(v1, d.next_id)
           X == X_mapping(xwl, w)
           W == with_win(xwl, w, v)
           M == IF n = None THEN xwl.managed ELSE xwl.managed \cup {d.next_id}
           y == with_handled(xwl, X, W, M, xwl.early)
<1>1. xwl.xq # <<>>
  BY DEF DispatchX
<1> USE <1>1
<1>2. /\ w \in DOMAIN xwl.win
      /\ surf' = surf /\ out' = out /\ seat' = seat
      /\ n = None => d' = d
      /\ n # None => d' = shown(d, n)
      /\ xwl' = y
  <2> HIDE DEF w, n, v1
  <2>1. /\ w \in DOMAIN xwl.win
        /\ surf' = surf /\ out' = out /\ seat' = seat
        /\ n = None => /\ d' = d
                       /\ xwl' = with_handled(xwl, X_mapping(xwl, w), with_win(xwl, w, v1), xwl.managed, xwl.early)
        /\ n # None => /\ d' = shown(d, n)
                       /\ xwl' = with_handled(xwl, X_mapping(xwl, w), with_win(xwl, w, with_id(v1, d.next_id)),
                                              xwl.managed \cup {d.next_id}, xwl.early)
    BY MapEffect DEF w, n, v1
  <2> QED
    BY <2>1
<1>3. w \in XWindows /\ xwl.win[w] \in WinRec /\ ~ xwl.win[w].mapped /\ xwl.x[w] \in XRec
  BY <1>2, HeadHere DEF expected, naming
<1>a. xwl.win[w].sid = None /\ n \in XNames /\ xwl.x[w].st = "asked"
  BY <1>2, <1>3, HeadHere, HeadEvent DEF WindowInv, WinRec
<1>4. v \in WinRec /\ v.mapped /\ v.sid = (IF n = None THEN None ELSE d.next_id) /\ v.wl = n
  <2>1. v1 \in WinRec /\ v1.mapped /\ v1.sid = None /\ v1.wl = n
    BY <1>3, <1>a DEF WinRec
  <2>2. d.next_id \in Nat
    BY HeadHere, DisplayParts
  <2> HIDE DEF v1
  <2> QED
    BY <2>1, <2>2 DEF with_id, WinRec
<1>5. M \in SUBSET Nat /\ X \in [XWindows -> XRec]
  <2>1. d.next_id \in Nat
    BY HeadHere, DisplayParts
  <2> QED
    BY <1>3, <2>1, HeadHere DEF X_mapping, XRec
<1>b. X[w].st = "mapping" /\ X[w].wl = xwl.x[w].wl /\ \A z \in XWindows \ {w} : X[z] = xwl.x[z]
  BY <1>3, HeadHere DEF X_mapping, XRec
<1> HIDE DEF v, X
<1>6. /\ W \in Windows /\ DOMAIN W = DOMAIN xwl.win /\ W[w] = v
      /\ \A z \in DOMAIN xwl.win \ {w} : W[z] = xwl.win[z]
  <2>1. xwl \in XwlRec
    BY HeadHere
  <2> HIDE DEF w
  <2> QED
    BY <1>2, <1>4, <2>1, WithWin
<1> HIDE DEF W, M
<1>7. /\ y \in XwlRec /\ y.x = X /\ y.win = W /\ y.managed = M
      /\ y.early = xwl.early /\ y.again = xwl.again /\ y.names = xwl.names /\ y.up = xwl.up /\ y.made = xwl.made /\ y.wq = xwl.wq /\ y.xq = Tail(xwl.xq)
  BY <1>5, <1>6, HeadHere, WithHandled
<1> HIDE DEF y
<1>8. WinOthers(xwl, y, w)
  BY <1>6, <1>7, HeadHere DEF WinOthers
<1>9. Handled(xwl, y, w)
  BY <1>7, <1>8, <1>a, <1>b DEF Handled, Told
<1>10. \A g \in XEvent : g.window = w /\ follows(e.type, g.type) => expected(y, g)
  BY DEF follows, naming
<1>11. leaves(xwl, e) => rests(y, w)
  BY <1>2, <1>4, <1>6, <1>7, <1>b DEF leaves, rests
<1>12. Held(surf, y, w)
  BY <1>2, <1>3, <1>4, <1>6, <1>7, <1>9, HeadHere, HeldStays
<1>14. CASE n = None
  <2>1. WindowInv(d, y)
    <3>1. unshown(y.win[w])
      BY <1>4, <1>6, <1>7, <1>14 DEF unshown
    <3> QED
      BY <1>3, <1>7, <1>8, <1>14, <1>a, <3>1, HeadHere, WindowPlain DEF M
  <2> HIDE DEF w, n
  <2> QED
    BY <1>2, <1>3, <1>7, <1>9, <1>10, <1>11, <1>12, <1>14, <2>1, HeadHere, DispatchStep DEF w
<1>15. CASE n # None
  <2>1. n \in Range(XSurfaces)
    BY <1>15, <1>a DEF XNames
  <2>2. d' = shown(d, n) /\ y.managed = xwl.managed \cup {d.next_id}
    BY <1>2, <1>7, <1>15 DEF M
  <2>3. w \in DOMAIN y.win /\ y.win[w].sid = d.next_id /\ y.win[w].mapped /\ y.win[w].wl = n
    BY <1>2, <1>4, <1>6, <1>7, <1>15
  <2> HIDE DEF w, n
  <2>4. /\ d' \in Display /\ FreshInv(d') /\ NativeInv(d', surf) /\ PointerInv(d', surf, seat, out)
        /\ WindowInv(d', y)
    BY <1>2, <1>7, <1>8, <1>a, <2>1, <2>2, <2>3, DisplayShows
  <2> QED
    BY <1>2, <1>3, <1>7, <1>9, <1>10, <1>11, <1>12, <2>4, HeadHere, DispatchStep DEF w
<1> QED
  BY <1>14, <1>15

with_early(x, L) == [x EXCEPT !.early = L]
associated(x, w, n) == [x EXCEPT !.win[w].wl = n]
with_wl(v, n) == [v EXCEPT !.wl = n]

\* The wl_surface n of the window is noted if it is not there.
early_in(s, w, n) == IF alive(surf, n) THEN s ELSE [s EXCEPT !.xwl.early = @ \cup {w}]

\* A window is without its wl_surface after the event is taken,
LEMMA TakenEarly ==
  ASSUME NEW x \in XwlRec, x.xq # <<>>, NEW L
  PROVE  with_early(taken(x), L) = with_handled(x, x.x, x.win, x.managed, L)
BY DEF with_early, taken, with_handled, XwlRec

\* or it has another one.
LEMMA TakenAssociated ==
  ASSUME NEW x \in XwlRec, x.xq # <<>>, NEW w \in DOMAIN x.win, NEW n
  PROVE  associated(taken(x), w, n)
         = with_handled(x, x.x, with_win(x, w, with_wl(x.win[w], n)), x.managed, x.early)
BY Taken DEF associated, taken, with_handled, with_win, with_wl, XwlRec

\* The windows whose wl_surface was not there when it was named, after n was for w.
early_then(x, w, n) == IF alive(surf, n) THEN x.early ELSE x.early \cup {w}

\* It is noted, and nothing else changes.
LEMMA AtEarly ==
  ASSUME NEW q, NEW t, NEW x \in XwlRec, NEW w, NEW n
  PROVE  early_in(at(q, t, x), w, n) = at(q, t, with_early(x, early_then(x, w, n)))
<1>1. CASE alive(surf, n)
  <2>1. with_early(x, early_then(x, w, n)) = x
    BY <1>1 DEF with_early, early_then, XwlRec
  <2> QED
    BY <1>1, <2>1 DEF early_in
<1>2. CASE ~ alive(surf, n)
  <2>1. early_in(at(q, t, x), w, n) = [at(q, t, x) EXCEPT !.xwl = with_early(x, early_then(x, w, n))]
    BY <1>2 DEF at, with_early, early_in, early_then
  <2> QED
    BY <2>1, AtSet
<1> QED
  BY <1>1, <1>2

\* The message that names a wl_surface does not count.
ignored(e) == ~ alive(surf, e.wl) \/ (e.type = "serial" /\ xwl.win[e.window].wl # None)

\* A window whose wl_surface is named is known and mapped.
LEMMA MessageHere ==
  ASSUME IInv, DispatchX, xwl.xq[1].type \in naming, NEW w, w = xwl.xq[1].window, NEW n, n = xwl.xq[1].wl
  PROVE  /\ xwl.xq # <<>> /\ w \in XWindows /\ w \in DOMAIN xwl.win /\ xwl.win[w].mapped
         /\ xwl.win[w] \in WinRec /\ n \in Range(XSurfaces)
         /\ Becomes(handle_client_message(at(d, seat, taken(xwl)), w, xwl.xq[1].type, n))
<1>1. xwl.xq # <<>>
  BY DEF DispatchX
<1>2. xwl.xq[1].type \notin {"create", "map", "unmap", "destroy"}
  BY DEF naming
<1>3. w \in XWindows /\ w \in DOMAIN xwl.win /\ xwl.win[w].mapped /\ xwl.win[w] \in WinRec
  BY <1>1, <1>2, HeadHere DEF expected
<1>4. n \in Range(XSurfaces)
  BY <1>1, <1>2, HeadHere DEF XEvent
<1>5. Becomes(handle_x_event(at(d, seat, taken(xwl)), xwl.xq[1]))
  BY TakesHead
<1> QED
  BY <1>1, <1>2, <1>3, <1>4, <1>5 DEF handle_x_event

\* What the message does: nothing, or the window is shown, or it is shown with
\* another wl_surface.
LEMMA MessageEffect ==
  ASSUME IInv, DispatchX, xwl.xq[1].type \in naming, NEW w, w = xwl.xq[1].window, NEW n, n = xwl.xq[1].wl,
         NEW id, id = xwl.win[w].sid, NEW v, v = with_wl(xwl.win[w], n)
  PROVE  /\ surf' = surf /\ out' = out /\ seat' = seat
         /\ ignored(xwl.xq[1]) =>
              d' = d /\ xwl' = with_handled(xwl, xwl.x, xwl.win, xwl.managed, early_then(xwl, w, n))
         /\ ~ ignored(xwl.xq[1]) /\ id = None =>
              /\ d' = shown(d, n)
              /\ xwl' = with_handled(xwl, xwl.x, with_win(xwl, w, with_id(v, d.next_id)),
                                     xwl.managed \cup {d.next_id}, xwl.early)
         /\ ~ ignored(xwl.xq[1]) /\ id # None =>
              /\ d' = set_wl_surface_id(d, id, n)
              /\ xwl' = with_handled(xwl, xwl.x, with_win(xwl, w, v), xwl.managed, xwl.early)
<1> DEFINE e == xwl.xq[1]
           x == taken(xwl)
           s == at(d, seat, x)
           y == with_handled(xwl, xwl.x, with_win(xwl, w, v), xwl.managed, xwl.early)
<1>1. xwl.xq # <<>>
  BY DEF DispatchX
<1> USE <1>1
<1>2. w \in XWindows /\ w \in DOMAIN xwl.win /\ xwl.win[w].mapped /\ xwl.win[w] \in WinRec /\ n \in Range(XSurfaces)
  BY MessageHere
<1>3. x \in XwlRec /\ x.win = xwl.win /\ x.early = xwl.early
  BY HeadHere, Taken
<1>4. Becomes(handle_client_message(s, w, e.type, n))
  BY MessageHere
<1>5. s.xwl = x /\ s.surf = surf /\ s.d = d
  BY DEF at
<1>6. known(s, w) /\ (resolves(s, n) <=> alive(surf, n))
  <2> HIDE DEF s, x
  <2> QED
    BY <1>2, <1>3, <1>5 DEF known, resolves, alive
<1>7. CASE ignored(e)
  <2>1. handle_client_message(s, w, e.type, n)
        = early_in(s, w, n)
    <3> HIDE DEF s, x
    <3> QED
      BY <1>3, <1>5, <1>6, <1>7 DEF handle_client_message, ignored, early_in
  <2> HIDE DEF x
  <2> DEFINE L == early_then(xwl, w, n)
  <2>2. handle_client_message(s, w, e.type, n) = at(d, seat, with_early(x, L))
    <3>1. L = early_then(x, w, n)
      BY <1>3 DEF early_then
    <3> QED
      BY <1>3, <2>1, <3>1, AtEarly
  <2>3. with_early(x, L) = with_handled(xwl, xwl.x, xwl.win, xwl.managed, L)
    BY HeadHere, TakenEarly DEF x
  <2>4. Becomes(at(d, seat, with_handled(xwl, xwl.x, xwl.win, xwl.managed, L)))
    BY <1>4, <2>2, <2>3
  <2> HIDE DEF L
  <2> QED
    BY <1>7, <2>4, BecomesAt DEF L
<1>8. CASE ~ ignored(e)
  <2>1. Becomes(associate(s, w, n))
    <3> HIDE DEF s, x
    <3> QED
      BY <1>3, <1>4, <1>5, <1>6, <1>8 DEF handle_client_message, ignored
  <2>2. [s EXCEPT !.xwl.win[w].wl = n] = at(d, seat, y)
    <3>1. associated(x, w, n) = y
      BY <1>2, HeadHere, TakenAssociated
    <3> HIDE DEF x, y
    <3>2. [s EXCEPT !.xwl.win[w].wl = n] = at(d, seat, associated(x, w, n))
      <4>1. [s EXCEPT !.xwl.win[w].wl = n] = [s EXCEPT !.xwl = associated(x, w, n)]
        BY DEF at, associated
      <4>2. [s EXCEPT !.xwl = associated(x, w, n)] = at(d, seat, associated(x, w, n))
        BY AtSet
      <4> QED
        BY <4>1, <4>2, Zenon
    <3> QED
      BY <3>1, <3>2
  <2>3. surface_id(s, w) = id /\ s.xwl.win[w].mapped
    <3> HIDE DEF s, x
    <3> QED
      BY <1>2, <1>3, <1>5 DEF surface_id
  <2>4. CASE id = None
    <3>1. associate(s, w, n) = show_window(at(d, seat, y), w, n)
      <4> HIDE DEF s, x, y
      <4> QED
        BY <2>2, <2>3, <2>4 DEF associate
    <3>2. v \in WinRec
      BY <1>2 DEF WinRec, XNames, with_wl
    <3>3. Shows(xwl, w, xwl.x, v, xwl.managed, xwl.early, d, seat, n)
      BY <1>2, <3>2, HeadHere, ShowWindow
    <3>4. Becomes(at(shown(d, n), seat, with_handled(xwl, xwl.x, with_win(xwl, w, with_id(v, d.next_id)),
                                                     xwl.managed \cup {d.next_id}, xwl.early)))
      <4> HIDE DEF s, x
      <4> QED
        BY <2>1, <3>1, <3>3 DEF Shows
    <3> QED
      BY <1>8, <2>4, <3>4, BecomesAt
  <2>5. CASE id # None
    <3>1. associate(s, w, n) = [at(d, seat, y) EXCEPT !.d = set_wl_surface_id(@, id, n)]
      <4> HIDE DEF s, x, y
      <4> QED
        BY <2>2, <2>3, <2>5 DEF associate
    <3>2. [at(d, seat, y) EXCEPT !.d = set_wl_surface_id(@, id, n)] = at(set_wl_surface_id(d, id, n), seat, y)
      <4> HIDE DEF y
      <4> QED
        BY DEF at
    <3>3. Becomes(at(set_wl_surface_id(d, id, n), seat, y))
      BY <2>1, <3>1, <3>2
    <3> QED
      BY <1>8, <2>5, <3>3, BecomesAt
  <2> QED
    BY <2>4, <2>5
<1> QED
  BY <1>7, <1>8

\* The wl_surface a window had before is gone once its next one is there.
LEMMA OldIsGone ==
  ASSUME IInv, xwl.xq # <<>>, xwl.xq[1].type \in naming, NEW w, w = xwl.xq[1].window, NEW n, n = xwl.xq[1].wl,
         w \in DOMAIN xwl.win, alive(surf, n)
  PROVE  /\ has_now(xwl, w, n) \/ retired(surf, xwl.wq, n)
         /\ xwl.win[w].wl \in {None, n} \/ surf[xwl.win[w].wl].life = "dead"
<1>1. Named(surf, xwl, xwl.xq[1])
  BY HeadHere, HeadEvent
<1>2. \A i \in 1 .. Len(xwl.wq) : ~ pends(xwl.wq, i, "create", n)
  <2> SUFFICES ASSUME NEW i \in 1 .. Len(xwl.wq), pends(xwl.wq, i, "create", n) PROVE FALSE
    OBVIOUS
  <2>1. xwl.wq[i].type = "create" /\ xwl.wq[i].wl = n
    BY DEF pends
  <2>2. surf[n].life = "none"
    BY <2>1, HeadHere DEF OrderInv, MadeInv
  <2> QED
    BY <2>2 DEF alive
<1>3. superseded(surf, xwl.wq, xwl.win[w].wl, n) => surf[xwl.win[w].wl].life = "dead"
  BY <1>2 DEF superseded
<1> QED
  BY <1>1, <1>3 DEF Named

\* A message that does not count keeps the invariant.
LEMMA MessageIgnored ==
  ASSUME IInv, DispatchX, xwl.xq[1].type \in naming, ignored(xwl.xq[1])
  PROVE  IInv'
<1> DEFINE e == xwl.xq[1]
           w == e.window
           n == e.wl
           L == early_then(xwl, w, n)
           y == with_handled(xwl, xwl.x, xwl.win, xwl.managed, L)
<1>2. xwl.xq # <<>> /\ w \in XWindows /\ w \in DOMAIN xwl.win /\ xwl.win[w].mapped
  BY MessageHere
<1> USE <1>2
<1>3. surf' = surf /\ out' = out /\ seat' = seat /\ d' = d /\ xwl' = y
  BY MessageEffect
<1>4. /\ L \in SUBSET XWindows /\ xwl.early \subseteq L /\ L \subseteq xwl.early \cup {w}
      /\ w \in L \/ alive(surf, n)
  BY HeadHere DEF early_then
<1>5. unread(xwl, e) /\ expected(xwl, e)
  BY HeadHere DEF expected
<1> HIDE DEF L
<1>7. /\ y \in XwlRec /\ y.x = xwl.x /\ y.win = xwl.win /\ y.managed = xwl.managed
      /\ y.early = L /\ y.again = xwl.again /\ y.names = xwl.names /\ y.up = xwl.up /\ y.made = xwl.made /\ y.wq = xwl.wq /\ y.xq = Tail(xwl.xq)
  BY <1>4, HeadHere, WithHandled
<1> HIDE DEF y
<1>8. WinOthers(xwl, y, w)
  BY <1>7 DEF WinOthers
<1>9. Handled(xwl, y, w)
  BY <1>4, <1>7, <1>8 DEF Handled, Told
<1>10. \A g \in XEvent : g.window = w /\ follows(e.type, g.type) => expected(y, g)
  BY <1>7 DEF follows, expected, naming
<1>11. leaves(xwl, e) => rests(y, w)
  <2> SUFFICES ASSUME leaves(xwl, e) PROVE rests(y, w)
    OBVIOUS
  <2>1. y.x[w].st = "mapped" /\ y.x[w].wl = n
    BY <1>7 DEF leaves
  <2>2. in_vain(y, w)
    BY <1>4, <1>5, <1>7 DEF in_vain, ignored, unread
  <2>3. y.win[w].wl # n /\ (w \in y.again <=> y.win[w].wl # None)
    BY <1>5, <1>7 DEF unread
  <2> QED
    BY <1>7, <2>1, <2>2, <2>3 DEF rests, read
<1>12. Held(surf, y, w)
  BY <1>7, <1>9, HeadHere, HeldStays
<1>13. WindowInv(d, y)
  BY <1>7, HeadHere, WindowFrame, SameBacksSame
<1> HIDE DEF w
<1> QED
  BY <1>3, <1>7, <1>9, <1>10, <1>11, <1>12, <1>13, HeadHere, DispatchStep DEF w

\* So does one that counts.
LEMMA MessageCounts ==
  ASSUME IInv, DispatchX, xwl.xq[1].type \in naming, ~ ignored(xwl.xq[1])
  PROVE  IInv'
<1> DEFINE e == xwl.xq[1]
           w == e.window
           n == e.wl
           id == xwl.win[w].sid
           v1 == with_wl(xwl.win[w], n)
           v == IF id = None THEN with_id(v1, d.next_id) ELSE v1
           W == with_win(xwl, w, v)
           M == IF id = None THEN xwl.managed \cup {d.next_id} ELSE xwl.managed
           y == with_handled(xwl, xwl.x, W, M, xwl.early)
<1>2. /\ xwl.xq # <<>> /\ w \in XWindows /\ w \in DOMAIN xwl.win /\ xwl.win[w].mapped
      /\ xwl.win[w] \in WinRec /\ n \in Range(XSurfaces) /\ alive(surf, n)
  BY MessageHere DEF ignored
<1> USE <1>2
<1>3. /\ surf' = surf /\ out' = out /\ seat' = seat /\ xwl' = y
      /\ id = None => d' = shown(d, n)
      /\ id # None => d' = set_wl_surface_id(d, id, n)
  <2> HIDE DEF w, n, id, v1
  <2>1. /\ surf' = surf /\ out' = out /\ seat' = seat
        /\ id = None =>
             /\ d' = shown(d, n)
             /\ xwl' = with_handled(xwl, xwl.x, with_win(xwl, w, with_id(v1, d.next_id)),
                                    xwl.managed \cup {d.next_id}, xwl.early)
        /\ id # None =>
             /\ d' = set_wl_surface_id(d, id, n)
             /\ xwl' = with_handled(xwl, xwl.x, with_win(xwl, w, v1), xwl.managed, xwl.early)
    <3>1. w = xwl.xq[1].window /\ n = xwl.xq[1].wl /\ id = xwl.win[w].sid /\ v1 = with_wl(xwl.win[w], n)
      BY DEF w, n, id, v1
    <3> QED
      BY <3>1, MessageEffect, ZenonT(60)
  <2> QED
    BY <2>1
<1>a. d.next_id \in Nat \ {0} /\ id \in Nat \cup {None}
  BY HeadHere, DisplayParts DEF WinRec
<1>4. v \in WinRec /\ v.mapped /\ v.sid = (IF id = None THEN d.next_id ELSE id) /\ v.wl = n
  <2>1. v1 \in WinRec /\ v1.mapped /\ v1.sid = id /\ v1.wl = n
    BY DEF WinRec, with_wl, XNames
  <2> HIDE DEF v1
  <2> QED
    BY <1>a, <2>1 DEF with_id, WinRec
<1>5. M \in SUBSET Nat
  BY <1>a, HeadHere
<1> HIDE DEF v
<1>6. /\ W \in Windows /\ DOMAIN W = DOMAIN xwl.win /\ W[w] = v
      /\ \A z \in DOMAIN xwl.win \ {w} : W[z] = xwl.win[z]
  BY <1>4, HeadHere, WithWin
<1> HIDE DEF W, M
<1>7. /\ y \in XwlRec /\ y.x = xwl.x /\ y.win = W /\ y.managed = M
      /\ y.early = xwl.early /\ y.again = xwl.again /\ y.names = xwl.names /\ y.up = xwl.up /\ y.made = xwl.made /\ y.wq = xwl.wq /\ y.xq = Tail(xwl.xq)
  BY <1>5, <1>6, HeadHere, WithHandled
<1> HIDE DEF y
<1>8. WinOthers(xwl, y, w)
  BY <1>6, <1>7, HeadHere DEF WinOthers
<1>9. Handled(xwl, y, w)
  BY <1>7, <1>8 DEF Handled, Told
<1>10. \A g \in XEvent : g.window = w /\ follows(e.type, g.type) => expected(y, g)
  BY <1>4, <1>6, <1>7 DEF follows, expected, naming
<1>11. leaves(xwl, e) => rests(y, w)
  <2> SUFFICES ASSUME leaves(xwl, e) PROVE rests(y, w)
    OBVIOUS
  <2>1. y.x[w].st = "mapped" /\ y.x[w].wl = n
    BY <1>7 DEF leaves
  <2>2. y.win[w].wl = n /\ y.win[w].mapped /\ w \in DOMAIN y.win
    BY <1>4, <1>6, <1>7
  <2>3. unread(xwl, e)
    BY HeadHere DEF expected
  <2>4. ~ in_vain(y, w)
    BY <1>7, <2>3 DEF in_vain, unread, ignored
  <2> QED
    BY <2>1, <2>2, <2>4 DEF rests, read
<1>b. /\ has_now(xwl, w, n) \/ retired(surf, xwl.wq, n)
      /\ xwl.win[w].wl \in {None, n} \/ surf[xwl.win[w].wl].life = "dead"
  <2> HIDE DEF w, n
  <2> QED
    BY OldIsGone DEF w, n
<1>12. Held(surf, y, w)
  BY <1>4, <1>6, <1>7, <1>b DEF Held, has_now
<1>13. w \in DOMAIN y.win /\ y.win[w] = v
  BY <1>6, <1>7
<1>14. CASE id = None
  <2>2. d' = shown(d, n) /\ y.managed = xwl.managed \cup {d.next_id}
    BY <1>3, <1>7, <1>14 DEF M
  <2>3. y.win[w].sid = d.next_id /\ y.win[w].mapped /\ y.win[w].wl = n
    BY <1>4, <1>13, <1>14
  <2>a. xwl.win[w].sid = None
    BY <1>14
  <2> HIDE DEF w, n, id
  <2>4. /\ d' \in Display /\ FreshInv(d') /\ NativeInv(d', surf) /\ PointerInv(d', surf, seat, out)
        /\ WindowInv(d', y)
    BY <1>7, <1>8, <1>13, <2>2, <2>3, <2>a, DisplayShows
  <2> QED
    BY <1>3, <1>7, <1>9, <1>10, <1>11, <1>12, <2>4, HeadHere, DispatchStep DEF w
<1>15. CASE id # None
  <2>1. id \in DOMAIN d.surfaces /\ d.surfaces[id].wl = xwl.win[w].wl /\ id \in xwl.managed /\ xwl.win[w].wl # None
    BY <1>15, HeadHere DEF WindowInv
  <2>2. d.surfaces[id].wl \notin Native /\ n \notin Native /\ n \in Wl
    BY <2>1, HeadHere, XApart DEF WindowInv
  <2>3. d' \in Display /\ Moves(d, d', id, n)
    <3>1. d \in Display
      BY HeadHere
    <3>2. d' = set_wl_surface_id(d, id, n)
      BY <1>3, <1>15
    <3> HIDE DEF id, n, w
    <3> QED
      BY <2>1, <2>2, <3>1, <3>2, SetWlSurfaceId
  <2>4. NativeInv(d', surf) /\ PointerInv(d', surf, seat, out) /\ FreshInv(d')
    <3>1. d.surfaces[id].wl = n \/ surf[d.surfaces[id].wl].life = "dead"
      BY <1>b, <2>1
    <3> HIDE DEF id, n, w
    <3> QED
      BY <2>1, <2>2, <2>3, <3>1, HeadHere, DisplayMoves
  <2>5. WindowInv(d', y)
    <3>1. y.managed = xwl.managed /\ y.win[w].sid = id /\ y.win[w].wl = n
          /\ y.win[w].mapped = xwl.win[w].mapped /\ id = xwl.win[w].sid
      <4>1. v.mapped \in BOOLEAN /\ xwl.win[w].mapped \in BOOLEAN
        BY <1>4 DEF WinRec
      <4> QED
        BY <1>4, <1>7, <1>13, <1>15, <4>1 DEF M
    <3> HIDE DEF id, n, w
    <3> QED
      BY <1>7, <1>8, <1>13, <1>15, <2>3, <3>1, HeadHere, WindowMove
  <2> HIDE DEF w, id
  <2> QED
    BY <1>3, <1>7, <1>9, <1>10, <1>11, <1>12, <2>3, <2>4, <2>5, HeadHere, DispatchStep DEF w
<1> QED
  BY <1>14, <1>15

\* An X event keeps the invariant, whatever it overtakes.
LEMMA DispatchXKeeps ==
  ASSUME IInv, DispatchX
  PROVE  IInv'
<1>1. xwl.xq # <<>>
  BY DEF DispatchX
<1>2. xwl.xq[1].type \in {"create", "map", "unmap", "destroy"} \cup naming
  BY <1>1, HeadHere DEF XEvent
<1> QED
  BY <1>2, CreateNotify, MapRequest, UnmapNotify, DestroyNotify, MessageIgnored, MessageCounts

\* The invariant holds when the display server starts.
LEMMA InitHolds == Init => IInv
<1> SUFFICES ASSUME Init PROVE IInv
  OBVIOUS
<1>1. PICK uses \in {"keyboard", "pointer"} : out = new_output(uses)
  BY DEF Init
<1>2. PICK names \in Protocols : xwl = launch(names)
  BY DEF Init
<1>3. /\ d.surfaces = no_surfaces /\ DOMAIN d.surfaces = {} /\ d.next_id = 1 /\ d \in Display
  <2>1. no_surfaces \in [{} -> SurfaceRec] /\ DOMAIN no_surfaces = {}
    BY DEF no_surfaces
  <2>2. no_surfaces \in Surfaces
    BY <2>1, SurfacesMap
  <2> QED
    BY <2>1, <2>2 DEF Init, display_state, Display
<1>4. /\ surf \in [Wl -> SurfRec]
      /\ \A n \in Wl : surf[n].life = "none" /\ surf[n].role = "none"
  BY DEF Init, new_wl_surface, SurfRec
<1>5. /\ seat \in SeatRec /\ seat.focused = None /\ seat.pointed = None /\ seat.entered = {}
      /\ seat.down = {} /\ seat.cut = {}
  <2>1. new_devices \in [Clients -> Nat]
    BY DEF new_devices
  <2> QED
    BY <2>1 DEF Init, new_seat, SeatRec
<1>6. out \in OutRec /\ out.over = None /\ ~ out.kept
  BY <1>1 DEF new_output, OutRec
<1>7. /\ xwl \in XwlRec /\ xwl.up /\ DOMAIN xwl.win = {} /\ xwl.managed = {} /\ xwl.xq = <<>>
      /\ xwl.wq = <<>> /\ xwl.made = 0 /\ xwl.early = {} /\ xwl.again = {}
      /\ \A w \in XWindows : xwl.x[w].st = "none" /\ xwl.x[w].wl = None
  <2>1. [w \in {} |-> None] \in Windows /\ DOMAIN [w \in {} |-> None] = {}
    <3>1. [w \in {} |-> None] \in [{} -> WinRec] /\ {} \in SUBSET XWindows
      OBVIOUS
    <3> QED
      BY <3>1 DEF Windows
  <2>2. [w \in XWindows |-> [st |-> "none", wl |-> None]] \in [XWindows -> XRec]
    BY DEF XRec, XNames
  <2>3. names \in naming
    BY SurfaceAssumption DEF naming
  <2> QED
    BY <1>2, <2>1, <2>2, <2>3 DEF launch, XwlRec
<1>8. Typed
  BY <1>3, <1>4, <1>5, <1>6, <1>7 DEF Typed
<1>9. KeyboardInv(surf, seat) /\ KeyInv(seat, out) /\ FreshInv(d) /\ PointerInv(d, surf, seat, out)
  BY <1>3, <1>5, <1>6, NoneApart DEF KeyboardInv, KeyInv, FreshInv, PointerInv, alive
<1>10. NativeInv(d, surf) /\ WindowInv(d, xwl)
  BY <1>3, <1>4, <1>7, XApart DEF NativeInv, WindowInv
<1>11. Len(xwl.xq) = 0 /\ Len(xwl.wq) = 0
  BY <1>7
<1>12. EventInv(xwl)
  BY <1>7, <1>11 DEF EventInv, rests
<1>13. OrderInv(surf, xwl)
  <2>1. Len(XSurfaces) \in Nat
    BY SurfaceAssumption
  <2> QED
    BY <1>4, <1>7, <1>11, <2>1, XApart DEF OrderInv, MadeInv, OldInv
<1> QED
  BY <1>8, <1>9, <1>10, <1>12, <1>13 DEF IInv, Sound

\* Every step keeps it.
LEMMA NextKeeps == IInv /\ [Next]_vars => IInv'
<1> SUFFICES ASSUME IInv, [Next]_vars PROVE IInv'
  OBVIOUS
<1>1. ASSUME NEW n \in Native, SurfaceRequest(n) \/ XdgSurfaceRequest(n) \/ ToplevelRequest(n)
      PROVE  IInv'
  BY <1>1, NativeRequests
<1>2. ASSUME NEW c \in Shy, Device(c)
      PROVE  IInv'
  BY <1>2, SurfaceAssumption, DeviceKeeps
<1>3. ASSUME NEW w \in XWindows, XClient(w) \/ Realize(w)
      PROVE  IInv'
  BY <1>3, XClientKeeps, RealizeKeeps
<1>4. CASE XwaylandDies
  BY <1>4, XwaylandDiesKeeps
<1>5. CASE DispatchWl
  BY <1>5, DispatchWlKeeps
<1>6. CASE DispatchX
  BY <1>6, DispatchXKeeps
<1>7. CASE Keyboard
  BY <1>7, KeyboardKeeps
<1>8. CASE Pointer
  BY <1>8, PointerKeeps
<1>9. CASE UNCHANGED vars
  BY <1>9 DEF vars, IInv, Typed, Sound
<1> QED
  BY <1>1, <1>2, <1>3, <1>4, <1>5, <1>6, <1>7, <1>8, <1>9 DEF Next

\* It holds always.
LEMMA InvHolds == Spec => []IInv
BY InitHolds, NextKeeps, PTL DEF Spec

\* It implies that the surfaces are sound,
LEMMA KnowsSurfaces ==
  ASSUME IInv
  PROVE  SurfacesSound
<1>1. \A n : resolves(here, n) <=> alive(surf, n)
  BY DEF resolves, alive, here
<1>2. \A n : keyboard_for(here, n) <=> keyed(seat, n)
  BY DEF keyboard_for, keyed, here
<1>3. TypeOK
  <2>1. seat \in SeatRec /\ KeyboardInv(surf, seat) /\ KeyInv(seat, out) /\ FreshInv(d)
        /\ PointerInv(d, surf, seat, out)
    BY DEF IInv, Typed, Sound
  <2>2. seat.focused \in Wl \cup {None} /\ seat.pointed \in Wl \cup {None}
    BY <2>1, SeatParts
  <2>3. seat.entered \cup seat.down \subseteq {n \in Wl : resolves(here, n) /\ keyboard_for(here, n)}
    BY <1>1, <1>2, <2>1 DEF KeyboardInv, alive
  <2>4. out.over \in 1 .. (d.next_id - 1) \cup {None} /\ (out.kept => out.key)
    BY <2>1 DEF PointerInv, KeyInv
  <2> QED
    BY <2>1, <2>2, <2>3, <2>4 DEF TypeOK, FreshInv
<1>4. ASSUME NEW n \in Native
      PROVE  Cardinality({id \in DOMAIN d.surfaces : d.surfaces[id].wl = n})
             = IF surf[n].role = "toplevel" THEN 1 ELSE 0
  <2> DEFINE S == {id \in DOMAIN d.surfaces : d.surfaces[id].wl = n}
  <2>1. NativeInv(d, surf)
    BY DEF IInv, Sound
  <2>2. CASE surf[n].role = "toplevel"
    <3>1. PICK id \in DOMAIN d.surfaces : d.surfaces[id].wl = n
      BY <2>1, <2>2 DEF NativeInv
    <3>2. S = {id}
      BY <2>1, <3>1 DEF NativeInv
    <3> QED
      BY <2>2, <3>2, FS_Singleton
  <2>3. CASE surf[n].role # "toplevel"
    <3>1. S = {}
      BY <2>1, <2>3 DEF NativeInv
    <3> QED
      BY <2>3, <3>1, FS_EmptySet
  <2> QED
    BY <2>2, <2>3
<1>5. Backed
  <2>1. WindowInv(d, xwl)
    BY DEF IInv, Sound
  <2>2. {surface_id(here, w) : w \in DOMAIN xwl.win} = {xwl.win[w].sid : w \in DOMAIN xwl.win}
    BY DEF surface_id, here
  <2> QED
    BY <1>4, <2>1, <2>2 DEF Backed, WindowInv
<1> QED
  BY <1>3, <1>5 DEF SurfacesSound

\* that events go where they should,
LEMMA KnowsSeat ==
  ASSUME IInv
  PROVE  SeatMatches
<1>1. \A n : resolves(here, n) <=> alive(surf, n)
  BY DEF resolves, alive, here
<1>2. \A n : keyboard_for(here, n) <=> keyed(seat, n)
  BY DEF keyboard_for, keyed, here
<1>3. KeyboardInv(surf, seat) /\ KeyInv(seat, out) /\ PointerInv(d, surf, seat, out)
  BY DEF IInv, Sound
<1>4. KeyboardMatches
  BY <1>1, <1>2, <1>3 DEF KeyboardMatches, KeyboardInv
<1>5. PointerMatches
  BY <1>1, <1>3 DEF PointerMatches, PointerInv, wl_surface_id_for_surface, has_surface, here
<1>6. NoStuckKey
  BY <1>3 DEF NoStuckKey, KeyInv
<1> QED
  BY <1>4, <1>5, <1>6 DEF SeatMatches

\* and that X windows are shown.
LEMMA KnowsWindows ==
  ASSUME IInv
  PROVE  XwaylandShown
<1> SUFFICES ASSUME xwl.up, Quiet, NEW w \in DOMAIN xwl.win
             PROVE  LET id == surface_id(here, w)
                        wl == wl_surface_id_for_surface(here, id)
                    IN  /\ xwl.x[w].st = "unmapped" => id = None
                        /\ xwl.x[w].st = "mapped" /\ ~ unnamed(w) => id # None /\ wl = xwl.x[w].wl
                        /\ xwl.x[w].st = "mapped" /\ unnamed(w) =>
                             IF w \in xwl.again THEN id # None /\ surf[wl].life = "dead" ELSE id = None
  BY DEF XwaylandShown
<1>1. surface_id(here, w) = xwl.win[w].sid
  BY DEF surface_id, here
<1>2. xwl \in XwlRec /\ EventInv(xwl) /\ OrderInv(surf, xwl) /\ WindowInv(d, xwl)
  BY DEF IInv, Typed, Sound
<1>3. w \in XWindows /\ Len(xwl.xq) = 0
  BY <1>2, XwlParts DEF Quiet
<1>4. rests(xwl, w)
  BY <1>2, <1>3 DEF EventInv
<1>5. xwl.x[w].st = "mapped" => xwl.x[w].wl # None
  <2>1. xwl.x[w].st = "mapped" => made(xwl, xwl.x[w].wl)
    BY <1>2, <1>3 DEF OrderInv, MadeInv
  <2>2. ASSUME made(xwl, None) PROVE FALSE
    <3>1. PICK k \in 1 .. xwl.made : XSurfaces[k] = None
      BY <2>2 DEF made
    <3>2. xwl.made \in Nat /\ xwl.made <= Len(XSurfaces) /\ XSurfaces \in Seq(Range(XSurfaces))
      BY <1>2, XwlParts, SurfaceAssumption DEF OrderInv, MadeInv
    <3>3. k \in 1 .. Len(XSurfaces)
      BY <3>2
    <3>4. XSurfaces[k] \in Range(XSurfaces)
      BY <3>2, <3>3
    <3> QED
      BY <3>1, <3>4, XApart
  <2> QED
    BY <2>1, <2>2
<1>6. xwl.win[w].sid # None =>
        wl_surface_id_for_surface(here, surface_id(here, w)) = xwl.win[w].wl
  BY <1>1, <1>2 DEF WindowInv, wl_surface_id_for_surface, has_surface, here
<1>7. xwl.win[w].sid # None <=> xwl.win[w].mapped /\ xwl.win[w].wl # None
  BY <1>2 DEF WindowInv
<1>8. xwl.x[w].st = "unmapped" => xwl.win[w].sid = None
  BY <1>4, <1>7 DEF rests
<1>9. ASSUME xwl.x[w].st = "mapped", ~ unnamed(w)
      PROVE  xwl.win[w].sid # None /\ xwl.win[w].wl = xwl.x[w].wl
  BY <1>4, <1>5, <1>7, <1>9 DEF rests, read, in_vain, unnamed
<1>10. ASSUME xwl.x[w].st = "mapped", unnamed(w)
       PROVE  IF w \in xwl.again THEN xwl.win[w].sid # None /\ surf[xwl.win[w].wl].life = "dead"
              ELSE xwl.win[w].sid = None
  <2>1. /\ xwl.win[w].wl # xwl.x[w].wl /\ (w \in xwl.again <=> xwl.win[w].wl # None)
        /\ xwl.win[w].mapped
    BY <1>4, <1>10 DEF rests, read, in_vain, unnamed
  <2>2. Held(surf, xwl, w) /\ Len(xwl.wq) = 0
    BY <1>2 DEF OrderInv, OldInv, Quiet
  <2>3. xwl.win[w].wl # None => surf[xwl.win[w].wl].life = "dead"
    BY <2>1, <2>2 DEF Held, has_now, retired
  <2> QED
    BY <1>7, <2>1, <2>3
<1> QED
  BY <1>1, <1>6, <1>8, <1>9, <1>10

\* For any number of clients, surfaces, windows and events on their way: the
\* window manager is told of exactly one surface for every toplevel and for
\* every X window that is shown (add_surface, surface_destroyed), and the
\* references of seat and output are to surfaces there are.
THEOREM SurfacesAreSound == Spec => []SurfacesSound
<1>1. IInv => SurfacesSound
  BY KnowsSurfaces
<1> QED
  BY <1>1, InvHolds, PTL

\* Keys go to the one surface that was told it has the keyboard, buttons to the
\* surface under the pointer, and no surface keeps a key that is up (seat.cpp,
\* output_x11.cpp), in whatever order surfaces, devices and clients go, but for
\* a surface whose client gave up one of its keyboards while the surface had
\* the focus (remove_keyboard), until the surface is told something again.
THEOREM SeatAlwaysMatches == Spec => []SeatMatches
<1>1. IInv => SeatMatches
  BY KnowsSeat
<1> QED
  BY <1>1, InvHolds, PTL

\* In whatever order the two connections of Xwayland are read, an unmapped X
\* window ends up hidden, and a mapped one shown with the wl_surface it has
\* (xwm.cpp); but when that was named before it was there, or by a serial while
\* the window had one from an earlier mapping, with the dead one it had, or not
\* at all if it had none (handle_client_message, which does not try again).
THEOREM XwaylandIsShown == Spec => []XwaylandShown
<1>1. IInv => XwaylandShown
  BY KnowsWindows
<1> QED
  BY <1>1, InvHolds, PTL
=============================================================================
