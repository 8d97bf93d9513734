------------------------ MODULE DisplayServerBackend -------------------------
(***************************************************************************)
(* The Wayland build: the window manager's DisplayServerBackend            *)
(* (backends/wayland) around Core, the display server's                    *)
(* BackendControlServer (libwlserver/src/ipc), and the SEQPACKET           *)
(* connection between the two processes.                                   *)
(*                                                                         *)
(* The window manager is killed and started again at any moment; the       *)
(* display server and its clients go on, and the next window manager       *)
(* attaches to what it finds.  One tick of the window manager (messages,   *)
(* posted events, one frame) is a step: what it sends is read by the       *)
(* server in any portions.  The server's loop captures with poll() what is *)
(* readable, and serves it some steps later.                               *)
(***************************************************************************)
EXTENDS CoreDispatch, DisplayState

CONSTANTS
  MaxSurfaces,  \* bound on the surfaces clients create
  MaxConns,     \* bound on the window managers started
  MaxOverlays,  \* bound on the bars one window manager creates
  Bindings,     \* the key bindings, in the order they are grabbed
  MaxKeyIntercepts,  \* kMaxKeyIntercepts: the keys a message has room for
  Rule,         \* the workspace a window rule sends a surface to, or 0
  MaxBurst      \* bound on what clients and user do while messages are unread

ASSUME DisplayAssumption ==
  /\ {MaxSurfaces, MaxConns, MaxOverlays, MaxBurst, Backlog} \subseteq Nat /\ MaxOverlays > 0
  /\ Bindings \in Seq({"switch", "next", "previous"}) /\ MaxKeyIntercepts \in Nat
  /\ Rule \in [1 .. MaxSurfaces -> Nat] /\ NoWindow = None /\ None \notin Nat

VARIABLES
  core,   \* Core, see module CoreDispatch; effects is empty between ticks
  wm,     \* the backend: [pc, conn, surfaces, prev_focused, configured,
          \*               overlay, next_overlay, dragging, astray]; astray is
          \*               history: the focus was given to a hidden window
  ds,     \* the display server, see module DisplayState
  ready,  \* what poll() reported: [polled, accept, client]
  left,   \* history: surfaces an earlier window manager left visible
  burst   \* how much was done while messages were unread

vars == <<core, wm, ds, ready, left, burst>>

started == wm.pc = "run"
-----------------------------------------------------------------------------
(* The window manager.  s is a record [core, wm, out]: out is what it      *)
(* sends, oldest first.                                                    *)

\* Runtime::start with the output the snapshot named.
fresh_core(mons, c) ==
  [wsman |-> init_from_defs(mons, c), settings |-> c,
   workspaces |-> [ws \in DOMAIN c.pins |-> empty_workspace],
   window |-> [w \in {} |-> new_window], window_workspace |-> [w \in {} |-> 0],
   effects |-> <<>>]

backend ==
  [pc |-> "down", conn |-> None, surfaces |-> [id \in {} |-> [mapped |-> FALSE]],
   prev_focused |-> NoWindow, configured |-> [w \in {} |-> Own], overlay |-> 0,
   next_overlay |-> 1, dragging |-> NoWindow, astray |-> FALSE]

\* The messages: what each is about and, for a command, its value.  Outputs,
\* titles, application ids, pointer motion, unmaps (which nothing sends),
\* closing and warping are left out.
Surface == 1 .. MaxSurfaces
Overlay == 1 .. MaxOverlays
Place   == {Own} \cup {TileOn(o) : o \in Outputs} \cup {WholeOf(o) : o \in Outputs}

session_messages == {"hello", "request", "begin", "end"}

event_messages ==
  [created |-> Surface, mapped |-> Surface, destroyed |-> Surface, committed |-> Surface,
   key |-> Range(Bindings), button |-> Surface, enter |-> Surface, expose |-> Overlay]

command_messages ==
  [configure |-> Place, visible |-> BOOLEAN, border |-> {"focused", "unfocused"},
   activated |-> BOOLEAN, stacking |-> BOOLEAN, intercepts |-> SUBSET Range(Bindings),
   grab |-> BOOLEAN, overlay |-> {TRUE}, update |-> {TRUE}, drop |-> {TRUE}]

is_event(m) ==
  IF m.type \in DOMAIN event_messages THEN m.id \in event_messages[m.type]
  ELSE m.type \in session_messages
is_command(m) ==
  IF m.type \in DOMAIN command_messages THEN m.value \in command_messages[m.type]
  ELSE m.type \in session_messages

send(s, m) == [s EXCEPT !.out = Append(@, m)]
set(type, id, value) == [type |-> type, id |-> id, value |-> value]

\* set_keyboard_intercepts: of the keys grabbed so far the first ones are sent,
\* as many as the message holds.
intercepts_sent(n) == {Bindings[i] : i \in {j \in 1 .. n : j <= MaxKeyIntercepts}}

\* A rule moves the window before it is mapped.
invoke_rules(k, w) == IF Rule[w] = 0 THEN k ELSE MoveWindowToWorkspace(k, w, Rule[w])

focus_if_shown(k, w) == IF is_visible(k, w) THEN FocusWindow(k, w) ELSE k

\* EnsureWindow, metadata and geometry, the rules, MapWindow, ReconcileNow,
\* and the focus if the window is visible.
manage_surface(s, id) ==
  [s EXCEPT !.wm.surfaces[id].managed = TRUE,
            !.core = focus_if_shown(reconcile(MapWindow(
                       invoke_rules(EnsureWindow(@, id, 0), id), id)), id)]

manageable(s, id) ==
  /\ s.wm.pc = "run"
  /\ s.wm.surfaces[id].mapped /\ s.wm.surfaces[id].sized /\ ~ s.wm.surfaces[id].managed

manage_if_ready(s, id) == IF manageable(s, id) THEN manage_surface(s, id) ELSE s

\* The focus moves on to the window Core now derives, or to the next one.
refocus_after(k, was_focused) ==
  LET next == Workspace_focused(k, k.workspaces[current_ws(k)])
  IN  IF ~ was_focused THEN k
      ELSE IF next # NoWindow /\ is_visible(k, next) THEN FocusWindow(k, next)
      ELSE FocusStep(k, 1)

destroyed_core(k, w) ==
  LET was_focused == Workspace_focused(k, k.workspaces[current_ws(k)]) = w
      was_visible == is_workspace_visible(k, workspace_of_window(k, w))
      next        == RemoveWindowFromAllWorkspaces(k, w)
  IN  IF was_visible THEN refocus_after(reconcile(next), was_focused) ELSE next

on_destroyed(s, id) ==
  [s EXCEPT !.core = IF s.wm.surfaces[id].managed THEN destroyed_core(@, id) ELSE @,
            !.wm = [s.wm EXCEPT !.surfaces = Restrict(@, DOMAIN @ \ {id}),
                                !.configured = Restrict(@, DOMAIN @ \ {id}),
                                !.prev_focused = IF @ = id THEN NoWindow ELSE @]]

focus_visible(k, w) ==
  IF find_window_in_all(k, w) /\ is_visible(k, w) THEN FocusWindow(k, w) ELSE k

\* The bindings: keys run a command when the posted events are drained.
run_binding(k, key) ==
  CASE key = "switch"   -> SwitchWorkspace(k, IF current_ws(k) = 1 THEN 2 ELSE 1, 0)
    [] key = "next"     -> FocusStep(k, 1)
    [] key = "previous" -> FocusStep(k, -1)

\* A press with the modifier makes the window float and grabs the pointer,
\* the release, or the end of the window, ends the drag.  The motion between
\* them is in module X11Input.
float_window(k, w) ==
  IF k.window[w].floating THEN k ELSE reconcile([k EXCEPT !.window[w].floating = TRUE])

drag_window(s, k, w) ==
  send([s EXCEPT !.core = FocusWindow(k, w),
                 !.wm = [s.wm EXCEPT !.dragging = w,
                                     !.astray = s.wm.astray \/ ~ is_visible(k, w)]],
       set("grab", None, TRUE))

start_drag(s, w) == drag_window(s, float_window(s.core, w), w)

\* The release leaves the window on the workspace that is shown.
drop_window(s, w) ==
  IF ~ find_window_in_all(s.core, w) \/ workspace_of_window(s.core, w) = current_ws(s.core)
  THEN s ELSE [s EXCEPT !.core = MoveWindowToWorkspace(@, w, current_ws(@))]

stop_drag(s) ==
  IF s.wm.dragging = NoWindow THEN s
  ELSE send([s EXCEPT !.wm.dragging = NoWindow], set("grab", None, FALSE))

\* drain_events: what the messages posted, after all of them were read.
drain(s, m) ==
  LET w == s.wm.dragging IN
  CASE m.type = "key" -> [s EXCEPT !.core = run_binding(@, m.id)]
    [] /\ m.type = "button" /\ m.value = "drag"
       /\ find_window_in_all(s.core, m.id) /\ ~ covers(s.core, m.id) -> start_drag(s, m.id)
    [] m.type = "button" /\ m.value = "release" -> stop_drag(drop_window(s, w))
    [] m.type = "destroyed" /\ m.id = w -> stop_drag(s)
    [] m.type = "expose" /\ m.id = s.wm.overlay -> send(s, set("update", m.id, TRUE))
    [] OTHER -> s

\* dispatch_control_message.  Before the backend is started only the mirror
\* of the surfaces changes.
on_message(s, m) ==
  LET known == m.type \in {"mapped", "committed", "destroyed"} /\ m.id \in DOMAIN s.wm.surfaces
  IN  CASE m.type = "begin" ->
             [s EXCEPT !.wm = [@ EXCEPT !.surfaces = backend.surfaces, !.prev_focused = NoWindow]]
        [] m.type = "created" ->
             [s EXCEPT !.wm.surfaces =
                put(@, m.id, [mapped |-> FALSE, sized |-> FALSE, managed |-> FALSE])]
        [] known /\ m.type = "mapped" ->
             manage_if_ready([s EXCEPT !.wm.surfaces[m.id].mapped = TRUE], m.id)
        [] known /\ m.type = "committed" ->
             manage_if_ready([s EXCEPT !.wm.surfaces[m.id].sized = m.sized], m.id)
        [] known /\ m.type = "destroyed" -> on_destroyed(s, m.id)
        [] m.type = "enter" \/ (m.type = "button" /\ m.value # "release") ->
             [s EXCEPT !.core = focus_visible(@, m.id)]
        [] OTHER -> s

set_border(s, w, border) ==
  IF find_window_in_all(s.core, w) THEN send(s, set("border", w, border)) ELSE s

deactivate(s, w) ==
  IF w = NoWindow THEN s ELSE set_border(send(s, set("activated", w, FALSE)), w, "unfocused")

\* Mutant: the surface that had the focus is not told.
focus_without_leave(s, e) ==
  [set_border(send(s, set("activated", e.window, TRUE)), e.window, "focused")
   EXCEPT !.wm.prev_focused = e.window]

focus_effect(s, e) ==
  LET next == IF s.wm.prev_focused = e.window THEN s ELSE deactivate(s, s.wm.prev_focused)
  IN  [set_border(send(next, set("activated", e.window, TRUE)), e.window, "focused")
       EXCEPT !.wm.prev_focused = e.window]

configure(s, w) ==
  [send(s, set("configure", w, s.core.window[w].place)) EXCEPT
     !.wm.configured = put(@, w, s.core.window[w].place)]

render_effect(s, e) ==
  CASE e.kind = "map" /\ find_window_in_all(s.core, e.window) ->
         set_border(send(configure(s, e.window), set("visible", e.window, TRUE)),
                    e.window, "unfocused")
    [] e.kind = "unmap" -> send(s, set("visible", e.window, FALSE))
    [] e.kind = "focus" -> focus_effect(s, e)
    [] e.kind = "root"  -> [deactivate(s, s.wm.prev_focused) EXCEPT !.wm.prev_focused = NoWindow]
    [] e.kind \in {"raise", "lower"} -> send(s, set("stacking", e.window, e.kind = "raise"))
    [] OTHER -> s

\* A window whose geometry changed has a pending flush: it is configured, and
\* its border is drawn again.  The code flushes at the UpdateWindow effect or
\* with the map; flushing after the effects sends the same geometry.
flush_window(s, w) ==
  IF w \in DOMAIN s.wm.configured /\ s.wm.configured[w] = s.core.window[w].place THEN s
  ELSE set_border(configure(s, w), w,
                  IF w = s.wm.prev_focused THEN "focused" ELSE "unfocused")

render_frame(s) ==
  LET applied == FoldLeft(render_effect, [s EXCEPT !.core.effects = <<>>], s.core.effects)
      flushed == FoldLeft(flush_window, applied, SetToSeq(DOMAIN applied.core.window))
  IN  [flushed EXCEPT !.wm.astray = @ /\ flushed.wm.prev_focused = NoWindow]

\* bootstrap_snapshot reads up to SnapshotEnd.
snapshot_end(up) == {i \in DOMAIN up : up[i].type = "end"}
-----------------------------------------------------------------------------
(* The display server.                                                     *)

\* DisplayServerListener: the seat's focus.  Every client has a keyboard.
set_surface_activated(d, id, activated) ==
  IF ~ has_surface(d, id) THEN d
  ELSE [d EXCEPT !.seat = IF activated THEN id ELSE IF @ = id THEN None ELSE @]

describe_surface(d, id) ==
  LET made   == send_event(d, [type |-> "created", id |-> id])
      mapped == IF d.surfaces[id].mapped
                THEN send_event(made, [type |-> "mapped", id |-> id]) ELSE made
  IN  IF d.surfaces[id].sized
      THEN send_event(mapped, [type |-> "committed", id |-> id, sized |-> TRUE]) ELSE mapped

\* Mutant: only what is on the screen is described.
describe_visible(d, id) ==
  IF has_surface(d, id) /\ d.surfaces[id].visible THEN describe_surface(d, id) ELSE d

describe(d, id) == IF has_surface(d, id) THEN describe_surface(d, id) ELSE d

\* The surfaces in the order of their ids, between two marks.
send_snapshot(d) ==
  send_event(FoldLeft(describe, send_event(d, [type |-> "begin"]),
                      [i \in 1 .. d.next_id - 1 |-> i]),
             [type |-> "end"])

on_command(d, m) ==
  CASE m.type = "hello"      -> send_event(d, [type |-> "hello"])
    [] m.type = "request"    -> send_snapshot(d)
    [] m.type = "configure"  -> configure_surface(d, m.id, m.value)
    [] m.type = "visible"    -> set_surface_visible(d, m.id, m.value)
    [] m.type = "activated"  -> set_surface_activated(d, m.id, m.value)
    [] m.type = "stacking"   -> set_surface_stacking(d, m.id, m.value)
    [] m.type = "border"     -> set_surface_border(d, m.id, m.value)
    [] m.type = "intercepts" -> [d EXCEPT !.intercepts = m.value]
    [] m.type = "grab"       -> [d EXCEPT !.grabbed = m.value]
    [] m.type = "overlay"    -> create_overlay(d, m.id)
    [] m.type = "update"     -> update_overlay(d, m.id)
    [] m.type = "drop"       -> destroy_overlay(d, m.id)

\* Every waiting connection is accepted; each replaces the one before.
accept(d, c) == [disconnect_client(d) EXCEPT !.client = c, !.chan[c].ds = "client"]

accept_pending(d) ==
  FoldLeft(accept, d, Keep([c \in DOMAIN d.chan |-> c],
                           {c \in DOMAIN d.chan : d.chan[c].ds = "backlog"}))

\* dispatch_one_message: recv() on the client of the moment, which need not
\* be the one poll() reported.  Nothing to read is an error.
dispatch_one(d, i) ==
  LET c == d.client IN
  CASE c = None -> d
    [] c # None /\ d.chan[c].down = <<>> -> disconnect_client(d)
    [] OTHER -> on_command([d EXCEPT !.chan[c].down = Tail(@)], Head(d.chan[c].down))

\* dispatch_pending has read n messages when it finds no more.
dispatch_pending(d, n) == FoldLeft(dispatch_one, d, [i \in 1 .. n |-> i])
-----------------------------------------------------------------------------
(* Actions.                                                                *)

Init ==
  \E mons \in MonitorLists, c \in Configs :
    /\ core = fresh_core(mons, c) /\ wm = backend
    /\ ds = display_state /\ ready = [polled |-> FALSE, accept |-> FALSE, client |-> FALSE]
    /\ left = {} /\ burst = 0

here == [core |-> core, wm |-> wm, out |-> <<>>]

\* The window manager's state becomes s, what it sent is in the socket.
Sends(s) ==
  /\ core' = s.core /\ wm' = s.wm
  /\ ds' = [ds EXCEPT !.chan[wm.conn].down = @ \o s.out]

\* The process is gone, for whatever reason; the kernel closes its end.
Down ==
  /\ wm' = backend /\ core' = fresh_core(core.wsman.monitors, core.settings)
  /\ ds' = [ds EXCEPT !.chan[wm.conn] = close_manager_end(@)]
  /\ UNCHANGED <<ready, left>>

\* The constructor: connect() succeeds when the listener's queue has room.
Connect ==
  /\ wm.pc = "down" /\ Len(ds.chan) < MaxConns
  /\ wm' = [wm EXCEPT !.pc = "hello", !.conn = Len(ds.chan) + 1]
  /\ ds' = [ds EXCEPT !.chan = Append(@, [up |-> <<>>, down |-> <<>>,
                                          wm |-> "open", ds |-> "backlog"])]
  /\ UNCHANGED <<core, ready, left>>

Hello ==
  /\ wm.pc = "hello" /\ ds.chan[wm.conn].ds # "closed"
  /\ Sends([core |-> core, wm |-> [wm EXCEPT !.pc = "boot"],
            out |-> <<[type |-> "hello"], [type |-> "request"]>>])
  /\ UNCHANGED <<ready, left>>

\* bootstrap_snapshot, then Runtime::start: keys are grabbed, the bar is
\* created and drawn, and on_start manages the surfaces in the order of a hash map.
Start ==
  /\ wm.pc = "boot" /\ snapshot_end(ds.chan[wm.conn].up) # {}
  /\ LET up    == ds.chan[wm.conn].up
         n     == CHOOSE i \in snapshot_end(up) : \A j \in snapshot_end(up) : i <= j
         known == FoldLeft(on_message, here, SubSeq(up, 1, n))
         setup == [core |-> known.core,
                   wm   |-> [known.wm EXCEPT !.pc = "run", !.overlay = 1, !.next_overlay = 2],
                   out  |-> [i \in DOMAIN Bindings |->
                               set("intercepts", None, intercepts_sent(i))]
                            \o <<set("overlay", 1, TRUE), set("update", 1, TRUE)>>]
         ids   == DOMAIN known.wm.surfaces
     IN  /\ \E order \in SetToSeqs(ids) :
              LET s == render_frame(FoldLeft(manage_if_ready, setup, order))
              IN  /\ core' = s.core /\ wm' = s.wm
                  /\ ds' = [ds EXCEPT !.chan[wm.conn].up = SubSeq(up, n + 1, Len(up)),
                                      !.chan[wm.conn].down = @ \o s.out]
         /\ left' = {id \in ids : has_surface(ds, id) /\ ds.surfaces[id].visible}
  /\ UNCHANGED ready

\* A tick that reads n messages: pump_events, drain_events, render_frame.
Tick(n) ==
  /\ started /\ ds.chan[wm.conn].ds # "closed"
  /\ LET up  == ds.chan[wm.conn].up
         now == SubSeq(up, 1, n)
         s   == render_frame(FoldLeft(drain, FoldLeft(on_message, here, now), now))
     IN  /\ core' = s.core /\ wm' = s.wm
         /\ ds' = [ds EXCEPT !.chan[wm.conn].up = SubSeq(up, n + 1, Len(up)),
                             !.chan[wm.conn].down = @ \o s.out]
  /\ UNCHANGED <<ready, left>>

\* A reload or a change of the outputs builds the bar anew.
RebuildBar ==
  /\ started /\ ds.chan[wm.conn].ds # "closed"
  /\ wm.next_overlay <= MaxOverlays
  /\ Sends([core |-> core,
            wm   |-> [wm EXCEPT !.overlay = wm.next_overlay, !.next_overlay = wm.next_overlay + 1],
            out  |-> <<set("drop", wm.overlay, TRUE), set("overlay", wm.next_overlay, TRUE),
                       set("update", wm.next_overlay, TRUE)>>])
  /\ UNCHANGED <<ready, left>>

\* No snapshot within three seconds.
BootTimeout == wm.pc = "boot" /\ snapshot_end(ds.chan[wm.conn].up) = {} /\ Down

\* recv() or send() finds the connection closed.
Lost == wm.pc # "down" /\ ds.chan[wm.conn].ds = "closed" /\ Down

Kill == wm.pc # "down" /\ Down

readable ==
  [polled |-> TRUE, accept |-> \E c \in DOMAIN ds.chan : ds.chan[c].ds = "backlog",
   client |-> ds.client # None /\ (\/ ds.chan[ds.client].down # <<>>
                                   \/ ds.chan[ds.client].wm = "closed")]

\* The server's poll(), when it reports something.
Poll ==
  /\ ~ ready.polled /\ (readable.accept \/ readable.client) /\ ready' = readable
  /\ UNCHANGED <<core, wm, ds, left>>

\* The rest of the loop.  dispatch_pending reads at least once, and then as
\* long as there is something to read: a closed connection is found closed.
\* What a tick of the window manager sends is read together.
reads(d) ==
  IF ~ ready.client \/ d.client = None THEN 0
  ELSE IF d.chan[d.client].down = <<>> \/ d.chan[d.client].wm = "closed"
  THEN Len(d.chan[d.client].down) + 1 ELSE Len(d.chan[d.client].down)

Serve ==
  LET d == IF ready.accept THEN accept_pending(ds) ELSE ds
  IN
  /\ ready.polled
  /\ ds' = dispatch_pending(d, reads(d))
  /\ ready' = [polled |-> FALSE, accept |-> FALSE, client |-> FALSE]
  /\ left' = {id \in left : has_surface(ds', id) /\ ds'.surfaces[id].visible}
  /\ UNCHANGED <<core, wm>>

\* Clients and the user, whom the loop hears in any pass.
Acts(d) == ds' = d /\ UNCHANGED <<core, wm, ready, left>>

\* A toplevel is created, gets its first buffer and is destroyed; the map and
\* the size are two messages.
ClientCreates     == ds.next_id <= MaxSurfaces /\ Acts(add_surface(ds, None))
ClientMaps(id)    == /\ ~ ds.surfaces[id].mapped
                     /\ Acts(surface_committed(surface_mapped(ds, id), id, TRUE))

ClientDestroys(id) ==
  Acts([surface_destroyed(ds, id) EXCEPT !.seat = IF @ = id THEN None ELSE @])

\* OutputX11: an intercepted key, the pointer entering a surface, a button
\* (any of several) pressed or released.  During a grab it is about the surface
\* the pointer was on, that of the drag, which may have been hidden since.  What
\* surface a release is about nobody reads, and with no drag to end, begun or
\* on its way, it changes nothing.
Key(key) == key \in ds.intercepts /\ Acts(send_event(ds, [type |-> "key", id |-> key]))
Enter(id) == /\ ~ ds.grabbed /\ id \in under_pointer(ds)
             /\ Acts(send_event(ds, [type |-> "enter", id |-> id]))

aimed == IF ds.grabbed THEN DOMAIN ds.surfaces \cap {wm.dragging} ELSE under_pointer(ds)

pressed ==
  ds.client # None /\ \E i \in DOMAIN ds.chan[ds.client].up : ds.chan[ds.client].up[i].type = "button"

Button(id, how) ==
  /\ id \in aimed
  /\ how = "release" => (wm.dragging # NoWindow \/ pressed) /\ \A i \in aimed : id <= i
  /\ Acts(send_event(ds, set("button", id, how)))

Outside ==
  \/ ClientCreates \/ RebuildBar
  \/ \E id \in DOMAIN ds.surfaces :
       ClientMaps(id) \/ ClientDestroys(id) \/ Enter(id)
       \/ \E how \in {"drag", "release"} : Button(id, how)
  \/ \E key \in Range(Bindings) : Key(key)

Inside ==
  \/ Connect \/ Hello \/ Start \/ BootTimeout \/ Lost \/ Kill \/ Poll \/ Serve
  \/ \E n \in 1 .. IF wm.conn = None THEN 0 ELSE Len(ds.chan[wm.conn].up) : Tick(n)

unread(d) == d.client # None /\ (d.chan[d.client].up # <<>> \/ d.chan[d.client].down # <<>>)

Next ==
  \/ Inside /\ burst' = IF unread(ds') THEN burst ELSE 0
  \/ burst < MaxBurst /\ Outside /\ burst' = IF unread(ds') THEN burst + 1 ELSE 0

Spec == Init /\ [][Next]_vars
-----------------------------------------------------------------------------
(* Properties.                                                             *)

\* What backend and display server keep of each other exists: the surfaces of
\* Core are known to the backend, the seat's surface to the server, nothing but
\* messages of backend_protocol.hpp is on the channel, each in its direction,
\* and render_frame leaves no effect for later.
TypeOK ==
  /\ wm.pc \in {"down", "hello", "boot", "run"}
  /\ wm.conn \in DOMAIN ds.chan \cup {None} /\ ds.client \in DOMAIN ds.chan \cup {None}
  /\ core.effects = <<>> /\ DOMAIN core.window \subseteq DOMAIN wm.surfaces
  /\ ds.seat \in DOMAIN ds.surfaces \cup {None}
  /\ ds.intercepts \subseteq Range(Bindings) /\ left \subseteq Surface
  /\ \A c \in DOMAIN ds.chan :
       /\ \A i \in DOMAIN ds.chan[c].up : is_event(ds.chan[c].up[i])
       /\ \A i \in DOMAIN ds.chan[c].down : is_command(ds.chan[c].down[i])

\* Everything that was sent has been read.
AtRest ==
  /\ started /\ ds.client = wm.conn
  /\ ds.chan[wm.conn].up = <<>> /\ ds.chan[wm.conn].down = <<>>

\* The window manager's surfaces are the server's, whichever came and went
\* while there was no window manager, or while it was attaching; those with a
\* mapped toplevel, and no others, are windows of Core.
MirrorMatches ==
  AtRest =>
    /\ DOMAIN wm.surfaces = DOMAIN ds.surfaces
    /\ DOMAIN core.window = {id \in DOMAIN ds.surfaces : ds.surfaces[id].mapped}
    /\ \A id \in DOMAIN core.window : wm.surfaces[id].managed

\* What the processes keep of each other exists, and is the same.
MirrorSound == TypeOK /\ MirrorMatches

\* What Core shows is on the screen where Core placed it; what it hides is
\* not, unless an earlier window manager left it there.
ScreenMatches ==
  AtRest =>
    \A id \in DOMAIN core.window \cap DOMAIN ds.surfaces :
      /\ is_visible(core, id) =>
           ds.surfaces[id].visible /\ ds.surfaces[id].place = core.window[id].place
      /\ ~ is_visible(core, id) /\ id \notin left => ~ ds.surfaces[id].visible

\* The keyboard is where Core derives the focus, and the border says so,
\* unless a drag of a window hidden in the same tick asked for the focus.
FocusMatches ==
  LET f == Workspace_focused(core, core.workspaces[current_ws(core)])
  IN  AtRest /\ f # NoWindow /\ is_visible(core, f) /\ ~ wm.astray =>
        /\ ds.seat = f
        /\ \A id \in DOMAIN core.window :
             is_visible(core, id) => (ds.surfaces[id].border = "focused" <=> id = f)

\* Keys and pointer belong to the window manager that is attached: never to
\* one that is gone, and always to the one that asked for them.  Of the keys
\* it bound the server has the first MaxKeyIntercepts; the others, which no
\* message has room for, are left to the clients.
GrabsMatch ==
  /\ ds.client = None => ds.intercepts = {} /\ ~ ds.grabbed
  /\ AtRest => ds.intercepts = intercepts_sent(Len(Bindings)) /\ ds.grabbed = (wm.dragging # NoWindow)

\* The bar of the window manager is on the screen, and drawn.
BarDrawn == AtRest => wm.overlay \in DOMAIN ds.overlays /\ ds.overlays[wm.overlay]

\* Surfaces, focus and bar are on the screen as Core has them.
DisplayMatches == ScreenMatches /\ FocusMatches /\ BarDrawn
=============================================================================
