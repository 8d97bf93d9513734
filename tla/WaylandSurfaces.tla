--------------------------- MODULE WaylandSurfaces ----------------------------
(***************************************************************************)
(* The client side of the display server (libwlserver): wl_surfaces and    *)
(* their buffers (compositor.cpp), toplevels (xdg_shell.cpp), keyboard and *)
(* pointer focus (seat.cpp), the devices (output_x11.cpp), and X windows   *)
(* through Xwayland (xwm.cpp, xwayland_shell.cpp, xwayland.cpp).           *)
(*                                                                         *)
(* One request, event or command is a step.  Xwayland speaks over two      *)
(* connections, read in any order: Wayland requests and X events.  The     *)
(* window manager is part of the environment: it may ask for anything      *)
(* about any surface it was told of, and has no connection of its own here *)
(* (see module DisplayServerBackend).  Clients follow the protocol: one    *)
(* toplevel at a time for a surface, no buffer destroyed before its commit.*)
(***************************************************************************)
EXTENDS DisplayState, FiniteSets

CONSTANTS
  Owner,      \* the client of each wl_surface that is not Xwayland's
  Xwayland,   \* Xwayland as a client
  Shy,        \* clients that may be without keyboard and pointer
  XWindows,   \* X windows
  XSurfaces,  \* the wl_surfaces Xwayland makes, in this order
  Protocols,  \* how Xwayland names the wl_surface of a window: "serial", "id"
  MaxDevices, \* bound on the keyboards, and on the pointers, of a client
  MaxIds,     \* bound on the surfaces of DisplayState
  MaxX        \* bound on what Xwayland sends ahead

Native  == DOMAIN Owner
Wl      == Native \cup Range(XSurfaces)
Clients == Range(Owner) \cup {Xwayland}

ASSUME SurfaceAssumption ==
  /\ {MaxDevices, MaxIds, MaxX} \subseteq Nat /\ Native \cap Range(XSurfaces) = {}
  /\ Shy \subseteq Clients /\ Protocols \subseteq {"serial", "id"}
  /\ XSurfaces \in Seq(Range(XSurfaces)) /\ IsInjective(XSurfaces)
  /\ None \notin Nat \cup Wl

VARIABLES
  d,     \* DisplayState, without a window manager's connection
  surf,  \* per wl_surface [life, buffer, role, mapped]: role is that of its
         \*   xdg objects: "none", "xdg_surface", "toplevel"
  seat,  \* [keyboards, pointers: how many each client has in keyboards_ and
         \*   pointers_; focused, pointed: focused_surface_, pointer_surface_],
         \*   what clients know: entered, the surfaces told they have the
         \*   keyboard, down, those that take the key for pressed; and three
         \*   histories: mute, the keyboard was meant for a client that has
         \*   none; cut, surfaces that had the keyboard when their client gave
         \*   up another of its keyboards, and were told nothing since; adrift,
         \*   the pointer is no longer over the surface the seat points to, and
         \*   the seat was not told
  out,   \* OutputX11 and the key: [over: pointer_surface_, kept: the key is in
         \*   intercepted_keys_, key: it is down]; uses, the device used in this
         \*   behaviour: keyboard and pointer have no state in common
  xwl    \* [up, names: how Xwayland names surfaces, x: its windows, win:
         \*   windows_ of XWindowManager, managed: managed_surface_ids_, xq, wq:
         \*   X events and Wayland requests of Xwayland, made: wl_surfaces it
         \*   made; and two histories: early, windows whose wl_surface was not there
         \*   when the X event that names it was read; again, windows that had
         \*   one from an earlier mapping when they got theirs]

vars == <<d, surf, seat, out, xwl>>

client_of(n) == IF n \in Native THEN Owner[n] ELSE Xwayland
here == [d |-> d, surf |-> surf, seat |-> seat, out |-> out, xwl |-> xwl]

Becomes(s) ==
  /\ d' = s.d /\ surf' = s.surf /\ seat' = s.seat /\ out' = s.out /\ xwl' = s.xwl
-----------------------------------------------------------------------------
(* Seat.                                                                   *)

resolves(s, n) == n \in Wl /\ s.surf[n].life = "alive"
\* Of several devices of a client it is always the first one that is used.
keyboard_for(s, n) == s.seat.keyboards[client_of(n)] > 0
pointer_for(s, n)  == s.seat.pointers[client_of(n)] > 0

\* The surface is told that it has lost the keyboard.
send_leave(s, n) ==
  IF resolves(s, n) /\ keyboard_for(s, n)
  THEN [s EXCEPT !.seat.entered = @ \ {n}, !.seat.down = @ \ {n}, !.seat.cut = @ \ {n}] ELSE s

\* The previous surface loses the keyboard even if the next one has none.  The
\* next one is told that no key is pressed.
send_keyboard_enter(s, n) ==
  LET left == send_leave(s, s.seat.focused)
  IN  IF ~ resolves(s, n) \/ s.seat.focused = n THEN s
      ELSE IF ~ keyboard_for(s, n) THEN [left EXCEPT !.seat.mute = TRUE]
      ELSE [left EXCEPT !.seat.focused = n, !.seat.entered = @ \cup {n}, !.seat.down = @ \ {n},
                        !.seat.cut = @ \ {n}, !.seat.mute = FALSE]

send_keyboard_leave(s, n) ==
  send_leave([s EXCEPT !.seat.focused = IF @ = n THEN None ELSE @], n)

send_key(s, pressed) ==
  LET n == s.seat.focused
  IN  IF ~ resolves(s, n) THEN [s EXCEPT !.seat.focused = None]
      ELSE IF ~ keyboard_for(s, n) THEN s
      ELSE [s EXCEPT !.seat.down = IF pressed THEN @ \cup {n} ELSE @ \ {n}]

send_pointer_enter(s, n) ==
  IF n \in {None, s.seat.pointed} THEN s
  ELSE IF resolves(s, n) /\ pointer_for(s, n)
  THEN [s EXCEPT !.seat.pointed = n, !.seat.adrift = FALSE]
  ELSE [s EXCEPT !.seat.adrift = @ \/ s.seat.pointed # None]

send_pointer_leave(s, n) ==
  IF s.seat.pointed = n /\ (resolves(s, n) => pointer_for(s, n))
  THEN [s EXCEPT !.seat.pointed = None, !.seat.adrift = FALSE] ELSE s

\* send_pointer_motion, send_pointer_button.
send_pointer(s) ==
  IF resolves(s, s.seat.pointed) THEN s ELSE [s EXCEPT !.seat.pointed = None, !.seat.adrift = FALSE]

\* Whichever of its keyboards a client gives up, its surface is no longer in
\* focus.  What its surfaces were told goes only with the one in use, the first.
\* left: how many it still has.
remove_keyboard(s, c, left, used) ==
  LET had == {n \in {s.seat.focused} : resolves(s, n) /\ client_of(n) = c}
      kept == {n \in Wl : used => client_of(n) # c}
  IN  [s EXCEPT !.seat.keyboards[c] = left, !.seat.focused = IF had = {} THEN @ ELSE None,
                !.seat.entered = @ \cap kept, !.seat.down = @ \cap kept,
                !.seat.cut = (@ \cup had) \cap kept]

remove_pointer(s, c, left) ==
  [s EXCEPT !.seat.pointers[c] = left,
            !.seat.pointed = IF resolves(s, @) /\ client_of(@) = c THEN None ELSE @]
-----------------------------------------------------------------------------
(* Compositor and XdgShell.                                                *)

create_surface(s, n) == [s EXCEPT !.surf[n].life = "alive"]

\* The resource is gone; the toplevel that refers to it is not.
destroy_surface(s, n) ==
  [s EXCEPT !.surf[n].life = "dead", !.surf[n].buffer = FALSE,
            !.seat.entered = @ \ {n}, !.seat.down = @ \ {n}, !.seat.cut = @ \ {n}]

\* The connection of its client has closed.
client_gone(r) ==
  IF r.life = "alive" THEN [r EXCEPT !.life = "dead", !.buffer = FALSE] ELSE r

surface_id_from_toplevel(s, n) ==
  CHOOSE id \in DOMAIN s.d.surfaces : s.d.surfaces[id].wl = n

get_toplevel(s, n) ==
  [s EXCEPT !.surf[n].role = "toplevel", !.surf[n].mapped = FALSE, !.d = add_surface(@, n)]

\* Mutant: a toplevel that was never shown is forgotten silently.
toplevel_dropped(s, n, role) ==
  [s EXCEPT !.surf[n].role = role, !.surf[n].mapped = FALSE,
            !.d = IF s.surf[n].mapped THEN surface_destroyed(@, surface_id_from_toplevel(s, n)) ELSE @]

\* toplevel_resource_destroy, on_xdg_surface_destroyed: role is what is left.
toplevel_destroyed(s, n, role) ==
  [s EXCEPT !.surf[n].role = role, !.surf[n].mapped = FALSE,
            !.d = surface_destroyed(@, surface_id_from_toplevel(s, n)),
            !.seat.adrift = @ \/ s.seat.pointed = n]

xdg_surface_destroyed(s, n) ==
  IF s.surf[n].role = "toplevel" THEN toplevel_destroyed(s, n, "none")
  ELSE [s EXCEPT !.surf[n].role = "none"]

\* The first commit with a buffer maps the toplevel; nothing unmaps it.
on_surface_commit(s, n) ==
  LET id     == surface_id_from_toplevel(s, n)
      mapped == IF s.surf[n].mapped THEN s.d ELSE surface_mapped(s.d, id)
  IN  IF s.surf[n].role # "toplevel" \/ ~ s.surf[n].buffer THEN s
      ELSE [s EXCEPT !.surf[n].mapped = TRUE, !.d = surface_committed(mapped, id, TRUE)]

\* attach: the buffer that comes with the commit, if any does.
commit(s, n, attach) ==
  on_surface_commit([s EXCEPT !.surf[n].buffer = IF attach = "keep" THEN @ ELSE attach = "buffer"], n)
-----------------------------------------------------------------------------
(* XWindowManager.                                                         *)

known(s, w) == w \in DOMAIN s.xwl.win
surface_id(s, w) == s.xwl.win[w].sid

handle_create_notify(s, w) ==
  [s EXCEPT !.xwl.win = put(@, w, [mapped |-> FALSE, wl |-> None, sid |-> None])]

\* add_surface, set_wl_surface_id, surface_mapped, surface_committed.
show_window(s, w, n) ==
  LET id == s.d.next_id
  IN  [s EXCEPT !.d = surface_committed(surface_mapped(set_wl_surface_id(
                        add_surface(@, None), id, n), id), id, TRUE),
                !.xwl.win[w].sid = id, !.xwl.managed = @ \cup {id}]

\* The window is mapped; what it was associated with before still counts.
handle_map_request(s, w) ==
  LET mapped == [s EXCEPT !.xwl.win[w].mapped = TRUE, !.xwl.x[w].st = "mapping"]
  IN  IF ~ known(s, w) THEN s
      ELSE IF s.xwl.win[w].wl = None THEN mapped
      ELSE show_window(mapped, w, s.xwl.win[w].wl)

hide_window(s, w) ==
  IF surface_id(s, w) = None THEN s
  ELSE [s EXCEPT !.d = surface_destroyed(@, surface_id(s, w)),
                 !.xwl.managed = @ \ {surface_id(s, w)}, !.xwl.win[w].sid = None,
                 !.seat.adrift = @ \/ s.seat.pointed = s.xwl.win[w].wl]

handle_unmap_notify(s, w) ==
  IF ~ known(s, w) THEN s
  ELSE IF ~ s.xwl.win[w].mapped THEN s
  ELSE [hide_window(s, w) EXCEPT !.xwl.win[w].mapped = FALSE]

handle_destroy_notify(s, w) ==
  IF ~ known(s, w) THEN s
  ELSE [hide_window(s, w) EXCEPT !.xwl.win = Restrict(@, DOMAIN @ \ {w})]

\* Mutant: a window that is mapped already is not shown.
associate_only(s, w, n) == [s EXCEPT !.xwl.win[w].wl = n]

associate(s, w, n) ==
  LET next == [s EXCEPT !.xwl.win[w].wl = n]
  IN  IF s.xwl.win[w].mapped /\ surface_id(s, w) = None THEN show_window(next, w, n)
      ELSE IF surface_id(s, w) = None THEN next
      ELSE [next EXCEPT !.d = set_wl_surface_id(@, surface_id(s, w), n)]

\* WL_SURFACE_SERIAL is tried once, and only for a window without a surface;
\* WL_SURFACE_ID always counts.
handle_client_message(s, w, how, n) ==
  IF ~ known(s, w) THEN s
  ELSE IF ~ resolves(s, n) THEN [s EXCEPT !.xwl.early = @ \cup {w}]
  ELSE IF how = "serial" /\ s.xwl.win[w].wl # None THEN s
  ELSE associate(s, w, n)

handle_x_event(s, e) ==
  CASE e.type = "create"  -> handle_create_notify(s, e.window)
    [] e.type = "map"     -> handle_map_request(s, e.window)
    [] e.type = "unmap"   -> handle_unmap_notify(s, e.window)
    [] e.type = "destroy" -> handle_destroy_notify(s, e.window)
    [] OTHER              -> handle_client_message(s, e.window, e.type, e.wl)
-----------------------------------------------------------------------------
(* DisplayServerListener and OutputX11.                                    *)

SetSurfaceActivated(s, id, activated) ==
  IF ~ has_surface(s.d, id) THEN s
  ELSE IF activated THEN send_keyboard_enter(s, s.d.surfaces[id].wl)
  ELSE send_keyboard_leave(s, s.d.surfaces[id].wl)

wl_surface_id_for_surface(s, id) ==
  IF has_surface(s.d, id) THEN s.d.surfaces[id].wl ELSE None

handle_key_press(s) ==
  IF s.d.intercepts # {} THEN [s EXCEPT !.out.kept = TRUE] ELSE send_key(s, TRUE)

\* Mutant: what is intercepted now decides, not what was when the key went down.
release_by_list(s) ==
  IF s.d.intercepts # {} THEN [s EXCEPT !.out.kept = FALSE] ELSE send_key(s, FALSE)

handle_key_release(s) ==
  IF s.out.kept THEN [s EXCEPT !.out.kept = FALSE] ELSE send_key(s, FALSE)

\* The button is down over id, or over nothing.
handle_button_press(s, id) ==
  IF s.d.grabbed THEN s
  ELSE IF id \in {None, s.out.over} THEN send_pointer(s)
  ELSE send_pointer(send_pointer_enter([s EXCEPT !.out.over = id],
                                       wl_surface_id_for_surface(s, id)))

handle_motion_notify(s, id) ==
  LET left == send_pointer_leave([s EXCEPT !.out.over = id],
                                 wl_surface_id_for_surface(s, s.out.over))
      next == IF id = s.out.over THEN s
              ELSE send_pointer_enter(left, wl_surface_id_for_surface(s, id))
  IN  IF s.d.grabbed THEN s ELSE IF id = None THEN next ELSE send_pointer(next)
-----------------------------------------------------------------------------
(* Actions.                                                                *)

new_wl_surface == [life |-> "none", buffer |-> FALSE, role |-> "none", mapped |-> FALSE]

new_devices == [c \in Clients |-> IF c \in Shy THEN 0 ELSE 1]

new_seat == [keyboards |-> new_devices, pointers |-> new_devices, focused |-> None, pointed |-> None,
             entered |-> {}, down |-> {}, mute |-> FALSE, cut |-> {}, adrift |-> FALSE]

new_output(uses) == [uses |-> uses, over |-> None, kept |-> FALSE, key |-> FALSE]

\* XWayland::launch, and XWindowManager once Xwayland is ready.
launch(names) ==
  [up |-> TRUE, names |-> names, x |-> [w \in XWindows |-> [st |-> "none", wl |-> None]],
   win |-> [w \in {} |-> None], managed |-> {}, xq |-> <<>>, wq |-> <<>>, made |-> 0,
   early |-> {}, again |-> {}]

Init ==
  /\ d = display_state /\ surf = [n \in Wl |-> new_wl_surface] /\ seat = new_seat
  /\ \E uses \in {"keyboard", "pointer"} : out = new_output(uses)
  /\ \E names \in Protocols : xwl = launch(names)

\* Wayland clients: requests to a wl_surface, to its xdg_surface and to its
\* xdg_toplevel, whose titles and states change nothing here.
SurfaceRequest(n) ==
  \/ surf[n].life = "none" /\ Becomes(create_surface(here, n))
  \/ /\ surf[n].life = "alive"
     /\ \/ \E attach \in {"keep", "buffer", "null"} : Becomes(commit(here, n, attach))
        \/ Becomes(destroy_surface(here, n))
  \/ surf[n].buffer /\ Becomes([here EXCEPT !.surf[n].buffer = FALSE])

XdgSurfaceRequest(n) ==
  \/ /\ surf[n].life = "alive"
     /\ \/ surf[n].role = "none" /\ Becomes([here EXCEPT !.surf[n].role = "xdg_surface"])
        \/ surf[n].role = "xdg_surface" /\ d.next_id <= MaxIds /\ Becomes(get_toplevel(here, n))
  \/ surf[n].role # "none" /\ Becomes(xdg_surface_destroyed(here, n))

ToplevelRequest(n) ==
  surf[n].role = "toplevel" /\ Becomes(toplevel_destroyed(here, n, "xdg_surface"))

\* add_keyboard, add_pointer, and the release of any of them.
Device(c) ==
  \/ /\ out.uses = "keyboard"
     /\ \/ seat.keyboards[c] < MaxDevices /\ Becomes([here EXCEPT !.seat.keyboards[c] = @ + 1])
        \/ seat.keyboards[c] > 0 /\ Becomes(remove_keyboard(here, c, seat.keyboards[c] - 1, TRUE))
        \/ seat.keyboards[c] > 1 /\ Becomes(remove_keyboard(here, c, seat.keyboards[c] - 1, FALSE))
  \/ /\ out.uses = "pointer"
     /\ \/ seat.pointers[c] < MaxDevices /\ Becomes([here EXCEPT !.seat.pointers[c] = @ + 1])
        \/ seat.pointers[c] > 0 /\ Becomes(remove_pointer(here, c, seat.pointers[c] - 1))

\* Xwayland and its clients.
send_x(s, e)  == [s EXCEPT !.xwl.xq = Append(@, e)]
send_wl(s, e) == [s EXCEPT !.xwl.wq = Append(@, e)]
event(type, w) == [type |-> type, window |-> w]

\* The wl_surface of a window is destroyed when the window is unmapped.
unrealize(s, w) ==
  send_x(send_wl([s EXCEPT !.xwl.x[w] = [st |-> "unmapped", wl |-> None]],
                 [type |-> "destroy", wl |-> s.xwl.x[w].wl]), event("unmap", w))

XClient(w) ==
  LET st == xwl.x[w].st IN
  /\ xwl.up /\ Len(xwl.xq) < MaxX /\ Len(xwl.wq) < MaxX
  /\ \/ st = "none" /\ Becomes(send_x([here EXCEPT !.xwl.x[w].st = "unmapped"], event("create", w)))
     \/ st = "unmapped" /\ Becomes(send_x([here EXCEPT !.xwl.x[w].st = "asked"], event("map", w)))
     \/ st = "mapped" /\ Becomes(unrealize(here, w))
     \/ /\ st \in {"unmapped", "mapped"}
        /\ LET s == IF st = "mapped" THEN unrealize(here, w) ELSE here
           IN  Becomes(send_x([s EXCEPT !.xwl.x[w].st = "gone"], event("destroy", w)))

\* Xwayland maps the window, makes its wl_surface and names it.
Realize(w) ==
  /\ xwl.up /\ xwl.x[w].st = "mapping" /\ xwl.made < Len(XSurfaces)
  /\ LET n == XSurfaces[xwl.made + 1]
         s == [here EXCEPT !.xwl.made = @ + 1, !.xwl.x[w] = [st |-> "mapped", wl |-> n],
                           !.xwl.early = @ \ {w},
                           !.xwl.again = IF xwl.win[w].wl = None THEN @ \ {w} ELSE @ \cup {w}]
     IN  Becomes(send_x(send_wl(s, [type |-> "create", wl |-> n]),
                        [type |-> xwl.names, window |-> w, wl |-> n]))

\* ready_callback reported the start; nobody watches for the end.  The
\* resources of Xwayland go, its windows stay in windows_.  What it sent and
\* was not read is taken for lost with it.
XwaylandDies ==
  /\ xwl.up
  /\ LET s == remove_pointer(remove_keyboard(here, Xwayland, 0, TRUE), Xwayland, 0)
     IN  Becomes([s EXCEPT !.surf = [n \in Wl |-> IF n \in Native THEN @[n] ELSE client_gone(@[n])],
                           !.xwl.up = FALSE, !.xwl.xq = <<>>, !.xwl.wq = <<>>])

\* The display server reads what Xwayland sent.
DispatchWl ==
  /\ xwl.wq # <<>>
  /\ LET e == Head(xwl.wq)
         s == [here EXCEPT !.xwl.wq = Tail(@)]
     IN  Becomes(IF e.type = "create" THEN create_surface(s, e.wl) ELSE destroy_surface(s, e.wl))

DispatchX ==
  /\ xwl.xq # <<>> /\ d.next_id <= MaxIds
  /\ Becomes(handle_x_event([here EXCEPT !.xwl.xq = Tail(@)], Head(xwl.xq)))

\* The window manager and the user.
Shown ==
  \E id \in DOMAIN d.surfaces : Becomes([here EXCEPT !.d.surfaces[id].visible = ~ @])

Keyboard ==
  /\ out.uses = "keyboard"
  /\ \/ \E id \in 1 .. (d.next_id - 1), on \in BOOLEAN : Becomes(SetSurfaceActivated(here, id, on))
     \/ Becomes([here EXCEPT !.d.intercepts = {"key"} \ @])
     \/ ~ out.key /\ Becomes(handle_key_press([here EXCEPT !.out.key = TRUE]))
     \/ out.key /\ Becomes(handle_key_release([here EXCEPT !.out.key = FALSE]))

Pointer ==
  /\ out.uses = "pointer"
  /\ \/ Shown \/ Becomes([here EXCEPT !.d.grabbed = ~ @])
     \/ \E id \in under_pointer(d) \cup {None} :
          \/ Becomes(handle_button_press(here, id))
          \/ Becomes(handle_motion_notify(here, id))

\* Other clients do not depend on what Xwayland has sent: they wait for it to
\* be read, which bounds the interleavings.
Quiet == xwl.xq = <<>> /\ xwl.wq = <<>>

Next ==
  \/ Quiet /\ \E n \in Native : SurfaceRequest(n) \/ XdgSurfaceRequest(n) \/ ToplevelRequest(n)
  \/ Quiet /\ \E c \in Shy : Device(c)
  \/ \E w \in XWindows : XClient(w) \/ Realize(w)
  \/ XwaylandDies \/ DispatchWl \/ DispatchX \/ Keyboard \/ Pointer

Spec == Init /\ [][Next]_vars
-----------------------------------------------------------------------------
(* Properties.                                                             *)

\* DisplayState's surfaces, the seat's and the output's refer to each other.
TypeOK ==
  /\ DOMAIN d.surfaces \subseteq 1 .. (d.next_id - 1)
  /\ seat.focused \in Wl \cup {None} /\ seat.pointed \in Wl \cup {None}
  /\ seat.entered \cup seat.down \subseteq {n \in Wl : resolves(here, n) /\ keyboard_for(here, n)}
  /\ out.over \in 1 .. (d.next_id - 1) \cup {None} /\ (out.kept => out.key)

\* The window manager is told of a surface for every toplevel and every X
\* window that is shown, and of nothing else, in whatever order a client or
\* Xwayland gives up the objects behind it.
Backed ==
  /\ \A n \in Native : Cardinality({id \in DOMAIN d.surfaces : d.surfaces[id].wl = n})
                       = IF surf[n].role = "toplevel" THEN 1 ELSE 0
  /\ xwl.managed = {surface_id(here, w) : w \in DOMAIN xwl.win} \ {None}
  /\ xwl.managed = {id \in DOMAIN d.surfaces : d.surfaces[id].wl \notin Native}

\* The surfaces the window manager is told of are sound, and those there are.
SurfacesSound == TypeOK /\ Backed

\* Keys go to the one surface that was told it has the keyboard; others may only
\* think they have it because their client gave up another of its keyboards.
KeyboardMatches ==
  ~ seat.mute =>
    seat.entered \ seat.cut = {n \in {seat.focused} : resolves(here, n) /\ keyboard_for(here, n)}

\* A button goes to the surface the output has the pointer over.
PointerMatches ==
  resolves(here, seat.pointed) /\ pointer_for(here, seat.pointed) /\ ~ seat.adrift
  => wl_surface_id_for_surface(here, out.over) = seat.pointed

\* No surface takes a key for pressed that is not: the bindings may change
\* while the key is down.  Again only a client that gave up a keyboard meanwhile
\* misses the release.
NoStuckKey == ~ out.key => seat.down \subseteq seat.cut

\* Keyboard and pointer events go where the seat and the output say, in pairs.
SeatMatches == KeyboardMatches /\ PointerMatches /\ NoStuckKey

\* The wl_surface of the window was named in vain: nobody looks for it again
\* when the request that makes it was not read yet, and a serial is ignored for
\* a window that has a wl_surface from an earlier mapping.
unnamed(w) == w \in xwl.early \/ (xwl.names = "serial" /\ w \in xwl.again)

\* Once both connections of Xwayland are read, in whatever order, a window that
\* is not mapped is not shown; one that is mapped is shown with the wl_surface
\* it has now; if that was named in vain, it is shown with the dead one of an
\* earlier mapping, or not at all if there was none.
XwaylandShown ==
  xwl.up /\ Quiet =>
    \A w \in DOMAIN xwl.win :
      LET id == surface_id(here, w)
          wl == wl_surface_id_for_surface(here, id)
      IN  /\ xwl.x[w].st = "unmapped" => id = None
          /\ xwl.x[w].st = "mapped" /\ ~ unnamed(w) => id # None /\ wl = xwl.x[w].wl
          /\ xwl.x[w].st = "mapped" /\ unnamed(w) =>
               IF w \in xwl.again THEN id # None /\ surf[wl].life = "dead" ELSE id = None
=============================================================================
