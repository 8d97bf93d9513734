---------------------------- MODULE DisplayState -----------------------------
(***************************************************************************)
(* The display server's state (libwlserver/src/runtime/display_state.cpp,  *)
(* overlay_manager.cpp) as operators from a record d to the d they leave:  *)
(*   surfaces     per id [mapped, sized, visible, raised, border, place,   *)
(*                wl]: wl is the wl_surface (or toplevel) behind it        *)
(*   next_id      next_surface_id_; ids are never used again               *)
(*   seat         the surface that has the keyboard                        *)
(*   intercepts   keys kept for the window manager                         *)
(*   grabbed      the pointer is the window manager's                      *)
(*   overlays     per overlay of the window manager: has it been drawn     *)
(*   client, chan the control connection in use, and all there have been   *)
(* A rectangle is abstracted as in CoreDispatch; sized says that width and *)
(* height are not zero.  Titles and application ids are left out.          *)
(***************************************************************************)
EXTENDS Naturals, Sequences, SequencesExt, Functions

CONSTANTS None,      \* no surface, no connection
          Unplaced,  \* the position of a surface nobody configured
          Backlog    \* messages a connection holds before send() fails

\* f[x] = v: an element of a map is inserted or replaced.
put(f, x, v) == [y \in DOMAIN f \cup {x} |-> IF y = x THEN v ELSE f[y]]

new_surface(wl) ==
  [mapped |-> FALSE, sized |-> FALSE, visible |-> FALSE, raised |-> FALSE,
   border |-> "none", place |-> Unplaced, wl |-> wl]

no_surfaces == [id \in {} |-> new_surface(None)]

display_state ==
  [surfaces |-> no_surfaces, next_id |-> 1, seat |-> None, intercepts |-> {},
   grabbed |-> FALSE, overlays |-> [o \in {} |-> FALSE], client |-> None,
   chan |-> <<>>]

has_surface(d, id) == id \in DOMAIN d.surfaces
-----------------------------------------------------------------------------
(* BackendControlServer: the control connection.                           *)

\* What was sent can still be read, as long as somebody has the other end.
close_server_end(c) ==
  [c EXCEPT !.ds = "closed", !.down = <<>>, !.up = IF c.wm = "closed" THEN <<>> ELSE @]
close_manager_end(c) ==
  [c EXCEPT !.wm = "closed", !.up = <<>>, !.down = IF c.ds = "closed" THEN <<>> ELSE @]

\* Mutant: the grabs of the window manager outlive it.
disconnect_only(d) ==
  IF d.client = None THEN d
  ELSE [d EXCEPT !.chan[d.client] = close_server_end(@), !.client = None]

disconnect_client(d) ==
  IF d.client = None THEN d
  ELSE [d EXCEPT !.intercepts = {}, !.grabbed = FALSE,
                 !.chan[d.client] = close_server_end(@), !.client = None]

\* send_event: the socket does not block, a full one ends the connection.
send_event(d, m) ==
  IF d.client = None THEN d
  ELSE IF Len(d.chan[d.client].up) >= Backlog \/ d.chan[d.client].wm = "closed"
  THEN disconnect_client(d)
  ELSE [d EXCEPT !.chan[d.client].up = Append(@, m)]
-----------------------------------------------------------------------------
(* What clients do to surfaces, reported to the window manager.            *)

add_surface(d, wl) ==
  send_event([d EXCEPT !.surfaces = put(@, d.next_id, new_surface(wl)), !.next_id = @ + 1],
             [type |-> "created", id |-> d.next_id])

surface_mapped(d, id) ==
  IF ~ has_surface(d, id) THEN d
  ELSE send_event([d EXCEPT !.surfaces[id].mapped = TRUE], [type |-> "mapped", id |-> id])

surface_destroyed(d, id) ==
  IF ~ has_surface(d, id) THEN d
  ELSE [send_event(d, [type |-> "destroyed", id |-> id]) EXCEPT
          !.surfaces = Restrict(@, DOMAIN @ \ {id})]

surface_committed(d, id, sized) ==
  IF ~ has_surface(d, id) THEN d
  ELSE send_event([d EXCEPT !.surfaces[id].sized = sized],
                  [type |-> "committed", id |-> id, sized |-> sized])

set_wl_surface_id(d, id, wl) ==
  IF has_surface(d, id) THEN [d EXCEPT !.surfaces[id].wl = wl] ELSE d
-----------------------------------------------------------------------------
(* What the window manager asks for.                                       *)

configure_surface(d, id, place) ==
  IF has_surface(d, id)
  THEN [d EXCEPT !.surfaces[id].place = place, !.surfaces[id].sized = TRUE] ELSE d

set_surface_visible(d, id, visible) ==
  IF has_surface(d, id) THEN [d EXCEPT !.surfaces[id].visible = visible] ELSE d

set_surface_stacking(d, id, raised) ==
  IF has_surface(d, id) THEN [d EXCEPT !.surfaces[id].raised = raised] ELSE d

set_surface_border(d, id, border) ==
  IF has_surface(d, id) THEN [d EXCEPT !.surfaces[id].border = border] ELSE d

create_overlay(d, o) ==
  send_event([d EXCEPT !.overlays = put(@, o, FALSE)], [type |-> "expose", id |-> o])

update_overlay(d, o) ==
  IF o \in DOMAIN d.overlays THEN [d EXCEPT !.overlays[o] = TRUE] ELSE d

destroy_overlay(d, o) == [d EXCEPT !.overlays = Restrict(@, DOMAIN @ \ {o})]

\* surface_at: what the pointer can be over.
under_pointer(d) == {id \in DOMAIN d.surfaces : d.surfaces[id].mapped /\ d.surfaces[id].visible}
=============================================================================
