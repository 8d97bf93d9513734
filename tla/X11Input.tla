------------------------------ MODULE X11Input -------------------------------
(***************************************************************************)
(* Pointer, keys and geometry of the X11 window manager: the event handlers*)
(* of backends/x11/src/backend/events.cpp for them, the drags and bindings *)
(* of modules/keybindings, and the flushing of geometry to the X server.   *)
(*                                                                         *)
(* A tick is one step: the events read so far, the events they post, one   *)
(* frame.  Clients and user act between ticks, and what they do is seen    *)
(* when it has come to the head of the queue.  Of a rectangle the output   *)
(* it is on is kept; position and size are flushed together.               *)
(***************************************************************************)
EXTENDS X11Backend

CONSTANT Fixed   \* windows that may be of fixed size, and ask to cover their monitor

ASSUME InputAssumption == Fixed \subseteq Windows

VARIABLES
  input,  \* the window manager: [drag, op, key_down, dirty]: the window being
          \*   dragged and how, the key taken to be down, pending_window_flushes
  dev     \* the X server: [geo, fixed, buttons, button, grab, at, key], and three
          \*   histories: fired, how often the binding ran in the latest press that
          \*   was read: "no", "once", "again" if it may run once more since a
          \*   FocusOut came, "twice" if it ran without one; torn, the press lost its grab or its release; loose, the
          \*   tiled windows that a drag has moved

allVars == <<core, x, queue, input, dev>>

OwnOn(o) == [how |-> "own", output |-> o]

\* A grab of the pointer: none, one that a press on a window started, or one
\* asked for by the window manager.
Grab(how, w) == [how |-> how, on |-> w]
NoGrab     == Grab("none", NoWindow)
ActiveGrab == Grab("active", NoWindow)
-----------------------------------------------------------------------------
(* s is a record [core, x, queue, input, dev, posts]: posts are the events *)
(* waiting for drain_events.                                               *)

post(s, e) == [s EXCEPT !.posts = Append(@, e)]

\* What arrange and restack have placed, whether it moved or not.
placed(k) == {w \in DOMAIN k.window : is_visible(k, w) /\ k.window[w].place.how # "own"}

moved(k, next) ==
  {w \in DOMAIN k.window \cap DOMAIN next.window : next.window[w].place # k.window[w].place}

\* next follows s by commands that arrange: its geometry is to be flushed.
arranged(s, next) ==
  IF next.core = s.core THEN next
  ELSE [next EXCEPT !.input.dirty = (@ \cup placed(next.core) \cup moved(s.core, next.core))
                                    \cap DOMAIN next.core.window,
                    !.dev.loose = @ \ placed(next.core)]

SetWindowPosition(s, w, place) ==
  IF ~ find_window_in_all(s.core, w) THEN s
  ELSE [s EXCEPT !.core.window[w].place = place, !.input.dirty = @ \cup {w}]

\* Mutant: what the X server reports always wins.
sync_always(s, w, place) ==
  IF find_window_in_all(s.core, w) THEN [s EXCEPT !.core.window[w].place = place] ELSE s

\* A ConfigureNotify is older than what waits to be flushed.
SyncWindowFromConfigureNotify(s, w, place) ==
  IF find_window_in_all(s.core, w) /\ w \notin s.input.dirty
  THEN [s EXCEPT !.core.window[w].place = place] ELSE s

x_configure(s, w, place) ==
  IF w \notin s.x.alive \/ s.dev.geo[w] = place THEN s
  ELSE [s EXCEPT !.dev.geo[w] = place,
                 !.queue = Append(@, [type |-> "configured", window |-> w, place |-> place])]

take_window_flushes(s) ==
  FoldLeft(LAMBDA acc, w : x_configure(acc, w, acc.core.window[w].place),
           [s EXCEPT !.input.dirty = {}], SetToSeq(s.input.dirty))

\* The passive grab of a window ends with the window on the screen.
release_dead_grab(s) ==
  IF s.dev.grab.how = "passive" /\ s.dev.grab.on \notin s.x.mapped
  THEN [s EXCEPT !.dev.grab = NoGrab] ELSE s

\* A focus that moved is reported to the window that lost it.
tell_focus_out(s, before) ==
  IF before \in s.x.selected /\ before # s.x.input
  THEN [s EXCEPT !.queue = Append(@, [type |-> "focusout", window |-> before])] ELSE s

render_frame(s) ==
  LET applied == apply_core_backend_effects(s)
  IN  tell_focus_out(take_window_flushes([applied EXCEPT
        !.input.dirty = @ \cup moved(s.core, applied.core)]), s.x.input)
-----------------------------------------------------------------------------
(* Event handlers of the backend.                                          *)

\* A fixed-size window floats, on the monitor of its workspace.
ensure_floating(k, w, fixed) ==
  LET next == EnsureWindow(k, w, 0)
      m    == monitor_of(next.wsman, next.window_workspace[w])
  IN  IF w \notin fixed \/ find_window_in_all(k, w) THEN next
      ELSE [next EXCEPT !.window[w].floating = TRUE,
                        !.window[w].place = OwnOn(next.wsman.monitors[m])]

on_map_request(s, w) ==
  LET next == handle_map_request([s EXCEPT !.core = ensure_floating(@, w, s.dev.fixed)], w, 0, 0)
  IN  post([arranged(s, next) EXCEPT !.input.dirty = @ \cup {w}],
           [type |-> "mapped", window |-> w])

\* Our own unmaps are not posted.
on_unmap_notify(s, w) ==
  LET ours == find_window_in_all(s.core, w) /\ s.core.window[w].pending_wm_unmaps > 0
      next == handle_unmap_notify(s, w)
  IN  IF ours THEN next ELSE post(arranged(s, next), [type |-> "unmapped", window |-> w])

on_destroy_notify(s, w) ==
  LET next == handle_destroy_notify(s, w)
  IN  post(arranged(s, next), [type |-> "unmapped", window |-> w])

\* evaluate_fullscreen_like_request: a tiled fixed-size window that asks for
\* the whole monitor becomes borderless and is pinned to it.
promote(s, w) ==
  arranged(s, [s EXCEPT !.core = reconcile(
    pin_fullscreen_to_monitor(SetWindowBorderless(@, w), w, @.window_workspace[w]))])

\* Windows pinned to the monitor and tiled ones are told where they are;
\* floating ones go where they ask.
handle_configure_request(s, w, o) ==
  CASE ~ find_window_in_all(s.core, w) -> x_configure(s, w, OwnOn(o))
    [] find_window_in_all(s.core, w) /\ covers(s.core, w) -> s
    [] find_window_in_all(s.core, w) /\ ~ covers(s.core, w) /\ s.core.window[w].floating ->
         SetWindowPosition(s, w, OwnOn(o))
    [] OTHER -> IF w \in s.dev.fixed THEN promote(s, w) ELSE s

\* The pointer's monitor becomes the focused one.
focus_pointer(s, o) ==
  LET k == focus_monitor_at_point(s.core, monitor_index_by_name(s.core.wsman.monitors, o))
  IN  [s EXCEPT !.core = k, !.input.dirty = @ \cup moved(s.core, k)]

\* Mutant: the release that comes with a repeat counts.
key_release_always(s, repeat) == [s EXCEPT !.input.key_down = FALSE]

\* The release of a repeat is followed by its press; with any other the press
\* is over.
handle_key_release(s, repeat) ==
  IF repeat THEN s
  ELSE [s EXCEPT !.input.key_down = FALSE, !.dev.fired = IF @ = "again" THEN "once" ELSE @]

\* The binding runs in the same tick, when the event is drained.
handle_key_press(s, repeat) ==
  LET next == IF repeat THEN s ELSE [s EXCEPT !.dev.fired = "no"]
  IN  IF s.input.key_down THEN next
      ELSE post([next EXCEPT !.input.key_down = TRUE,
                             !.dev.fired = IF @ = "once" THEN "twice" ELSE "once"],
                [type |-> "key"])

\* FocusOut: the release may have been missed.
handle_focus_event(s) ==
  [s EXCEPT !.input.key_down = FALSE,
            !.dev.fired = IF @ = "once" /\ s.input.key_down THEN "again" ELSE @]

handle_event(s, e) ==
  CASE e.type = "request"    -> on_map_request(s, e.window)
    [] e.type = "map"        -> handle_map_notify(s, e.window)
    [] e.type = "unmap"      -> on_unmap_notify(s, e.window)
    [] e.type = "destroy"    -> on_destroy_notify(s, e.window)
    [] e.type = "configure"  -> handle_configure_request(s, e.window, e.at)
    [] e.type = "configured" -> SyncWindowFromConfigureNotify(s, e.window, e.place)
    [] e.type = "press"      -> post(focus_pointer(s, e.at), e)
    [] e.type = "release"    -> post(s, e)
    [] e.type = "motion"     -> post(focus_pointer(s, e.at), e)
    [] e.type = "keypress"   -> handle_key_press(focus_pointer(s, e.at), e.repeat)
    [] e.type = "keyrelease" -> handle_key_release(focus_pointer(s, e.at), e.repeat)
    [] e.type = "focusout"   -> handle_focus_event(s)

\* Of the motions read together the last one is handled, after all the rest.
pump_events(s, events) ==
  LET moves == SelectSeq(events, LAMBDA e : e.type = "motion")
      rest  == SelectSeq(events, LAMBDA e : e.type # "motion")
  IN  FoldLeft(handle_event, s, IF moves = <<>> THEN rest ELSE Append(rest, Last(moves)))
-----------------------------------------------------------------------------
(* KeybindingsModule: the handlers of the posted events.                   *)

stop_drag(s) ==
  IF s.input.drag = NoWindow THEN s
  ELSE [s EXCEPT !.input.drag = NoWindow, !.input.op = "none",
                 !.dev.grab = NoGrab, !.dev.torn = FALSE]

\* Mutant: a window that is gone is dragged on.
cancel_never(s, w) == s

maybe_cancel_drag_for_window(s, w) == IF s.input.drag = w THEN stop_drag(s) ELSE s

\* The window floats, the pointer is grabbed, the window gets the focus.
start_drag(s, w, op) ==
  LET k == IF s.core.window[w].floating THEN s.core
           ELSE reconcile([s.core EXCEPT !.window[w].floating = TRUE])
  IN  [arranged(s, [s EXCEPT !.core = FocusWindow(k, w)]) EXCEPT
         !.input.drag = w, !.input.op = op, !.dev.grab = ActiveGrab]

\* Windows in fullscreen and borderless ones are left alone.
on_press(s, w, op) ==
  IF ~ find_window_in_all(s.core, w) \/ covers(s.core, w) THEN s
  ELSE IF op = "float"
  THEN arranged(s, [s EXCEPT !.core = reconcile([@ EXCEPT !.window[w].floating = ~ @])])
  ELSE start_drag(s, w, op)

\* Mutant: the window stays on the workspace it came from.
drop_nowhere(s) == s

\* A window that was moved joins the workspace shown where it is now.
drop_window(s) ==
  LET w == s.input.drag
      m == monitor_index_by_name(s.core.wsman.monitors, s.core.window[w].place.output)
  IN  IF s.input.op # "move" \/ ~ find_window_in_all(s.core, w) THEN s
      ELSE IF m = 0 THEN s
      ELSE IF s.core.wsman.active_ws[m] \in {0, s.core.window_workspace[w]} THEN s
      ELSE arranged(s, [s EXCEPT !.core = MoveWindowToWorkspace(@, w, @.wsman.active_ws[m])])

on_release(s) == stop_drag(drop_window(s))

on_motion(s, o) ==
  LET w == s.input.drag
  IN  IF ~ find_window_in_all(s.core, w) THEN s
      ELSE SetWindowPosition(
             [s EXCEPT !.dev.loose = IF s.core.window[w].floating THEN @ ELSE @ \cup {w}],
             w, OwnOn(IF s.input.op = "move" THEN o ELSE s.core.window[w].place.output))

\* The backend's handler of WorkspaceSwitched releases every grab.
on_workspace_switched(s, ws) ==
  ewmh_on_workspace_switched(
    [s EXCEPT !.dev.grab = NoGrab, !.dev.torn = @ \/ s.input.drag # NoWindow], ws)

\* The binding shows the next workspace.
on_key(s) ==
  LET ws == (current_ws(s.core) % Len(s.core.workspaces)) + 1
  IN  arranged(s, on_workspace_switched(
        [s EXCEPT !.core = SwitchWorkspace(@, ws, 0)], ws))

on_posted(s, e) ==
  CASE e.type = "mapped"   -> [s EXCEPT !.dev.buttons = @ \cup ({e.window} \cap s.x.alive)]
    [] e.type = "unmapped" -> maybe_cancel_drag_for_window(s, e.window)
    [] e.type = "press"    -> on_press(s, e.window, e.op)
    [] e.type = "release"  -> on_release(s)
    [] e.type = "motion"   -> on_motion(s, e.at)
    [] e.type = "key"      -> on_key(s)

drain_events(s) == FoldLeft(on_posted, [s EXCEPT !.posts = <<>>], s.posts)
-----------------------------------------------------------------------------
(* Actions.                                                                *)

now == [core |-> core, x |-> x, queue |-> queue, input |-> input, dev |-> dev, posts |-> <<>>]

InputInit ==
  /\ Init
  /\ input = [drag |-> NoWindow, op |-> "none", key_down |-> FALSE, dirty |-> {}]
  /\ \E fixed \in SUBSET Fixed : LET o == core.wsman.monitors[1] IN
       dev = [geo |-> [w \in Windows |-> OwnOn(o)], fixed |-> fixed, buttons |-> {}, button |-> FALSE,
              grab |-> NoGrab, at |-> o, key |-> FALSE, fired |-> "once",
              torn |-> FALSE, loose |-> {}]

\* One tick, that reads the n oldest events.
Tick(n) ==
  LET s == release_dead_grab(render_frame(drain_events(
             pump_events([now EXCEPT !.queue = SubSeq(@, n + 1, Len(@))], SubSeq(queue, 1, n)))))
  IN  Becomes(s) /\ input' = s.input /\ dev' = s.dev

\* Clients.
Client(A) ==
  /\ A /\ UNCHANGED input
  /\ dev' = [dev EXCEPT !.grab = IF @.how = "passive" /\ @.on \notin x'.mapped THEN NoGrab ELSE @,
                        !.buttons = @ \cap x'.alive, !.loose = @ \cap x'.alive]

ClientConfigure(w, o) ==
  /\ CanAct /\ w \in x.alive
  /\ queue' = Append(queue, [type |-> "configure", window |-> w, at |-> o])
  /\ UNCHANGED <<core, x, input, dev>>

\* The user.  An event of the devices is queued.
Device(d, events) ==
  /\ CanAct /\ dev' = d /\ queue' = queue \o events /\ UNCHANGED <<core, x, input>>

\* A bound button goes down on a window: its passive grab becomes active.
Press(w, op) ==
  /\ ~ dev.button /\ dev.grab = NoGrab /\ w \in dev.buttons \cap x.mapped
  /\ dev.at = dev.geo[w].output
  /\ Device([dev EXCEPT !.button = TRUE, !.grab = Grab("passive", w),
                        !.torn = @ /\ input.drag # NoWindow],
            <<[type |-> "press", window |-> w, op |-> op, at |-> dev.at]>>)

\* The grab of a drag does not report presses.
PressUnseen ==
  ~ dev.button /\ dev.grab = ActiveGrab /\ Device([dev EXCEPT !.button = TRUE], <<>>)

\* Without a grab the release goes to somebody else.
Release ==
  /\ dev.button
  /\ Device([dev EXCEPT !.button = FALSE, !.grab = IF @.how = "passive" THEN NoGrab ELSE @,
                        !.torn = @ \/ dev.grab = NoGrab],
            IF dev.grab = NoGrab THEN <<>> ELSE <<[type |-> "release", window |-> NoWindow]>>)

\* Motion is reported to the root as long as nobody else takes it.
Motion(o) ==
  /\ o # dev.at \/ dev.grab = ActiveGrab
  /\ \A i \in DOMAIN queue : queue[i].type = "motion" => queue[i].at # o
  /\ Device([dev EXCEPT !.at = o], <<[type |-> "motion", window |-> NoWindow, at |-> o]>>)

KeyDown ==
  /\ ~ dev.key
  /\ Device([dev EXCEPT !.key = TRUE],
            <<[type |-> "keypress", window |-> NoWindow, at |-> dev.at, repeat |-> FALSE]>>)

KeyRepeat ==
  /\ dev.key
  /\ Device(dev, <<[type |-> "keyrelease", window |-> NoWindow, at |-> dev.at, repeat |-> TRUE],
                   [type |-> "keypress", window |-> NoWindow, at |-> dev.at, repeat |-> TRUE]>>)

KeyUp ==
  /\ dev.key
  /\ Device([dev EXCEPT !.key = FALSE],
            <<[type |-> "keyrelease", window |-> NoWindow, at |-> dev.at, repeat |-> FALSE]>>)

InputNext ==
  \/ \E n \in 1 .. Len(queue) : Tick(n)
  \/ \E w \in Windows :
       \/ Client(ClientMap(w)) \/ Client(ClientUnmap(w, FALSE)) \/ Client(ClientDestroy(w))
       \/ \E o \in Range(core.wsman.monitors) : ClientConfigure(w, o)
       \/ \E op \in {"move", "resize", "float"} : Press(w, op)
  \/ PressUnseen \/ Release \/ KeyDown \/ KeyRepeat \/ KeyUp
  \/ \E o \in Range(core.wsman.monitors) : Motion(o)

InputSpec == InputInit /\ [][InputNext]_allVars
-----------------------------------------------------------------------------
(* Properties.                                                             *)

AtRest == queue = <<>>

\* A drag has an operation exactly if it has a window, only managed windows
\* wait for a flush, and a passive grab is on a window that is mapped.
InputTypeOK ==
  /\ input.drag \in Windows \cup {NoWindow} /\ (input.drag = NoWindow <=> input.op = "none")
  /\ input.dirty \subseteq DOMAIN core.window
  /\ dev.buttons \subseteq x.alive /\ dev.grab \in {NoGrab, ActiveGrab} \cup {Grab("passive", w) : w \in x.mapped}

\* The window being dragged is a managed one: a drag does not outlive its
\* window, however the window went away.
DragHasWindow == AtRest => input.drag \in DOMAIN core.window \cup {NoWindow}

\* The pointer is grabbed for a drag and for nothing else.
GrabMatchesDrag ==
  AtRest => /\ dev.grab = ActiveGrab => input.drag # NoWindow
            /\ input.drag # NoWindow /\ ~ dev.torn => dev.grab = ActiveGrab

\* A drag ends with the button, unless its grab or its release was taken.
DragEnds == AtRest /\ ~ dev.button /\ ~ dev.torn => input.drag = NoWindow

\* A drag has its window and its grab, and ends with its button.
DragSound == InputTypeOK /\ DragHasWindow /\ GrabMatchesDrag /\ DragEnds

\* The X server has every window where Core takes it to be.
GeometryMatches ==
  AtRest => \A w \in DOMAIN core.window :
              is_visible(core, w) => dev.geo[w] = core.window[w].place

\* No late report of the X server takes a window out of its tile.
TiledInPlace ==
  AtRest => \A w \in DOMAIN core.window :
              is_visible(core, w) /\ ~ core.window[w].floating /\ ~ covers(core, w)
              /\ w \notin dev.loose =>
                core.window[w].place =
                  TileOn(core.wsman.monitors[monitor_of(core.wsman, core.window_workspace[w])])

\* Core and the X server agree on geometry, and on the one Core arranged.
GeometrySound == GeometryMatches /\ TiledInPlace

\* Every press of the key runs its binding exactly once, however long the key
\* is held; only a FocusOut while it is held lets a repeat run it again, once
\* for each.  A key that is up is not taken to be down.
KeysMatch ==
  /\ dev.fired # "twice"
  /\ AtRest => dev.fired # "no" /\ (input.key_down => dev.key)

\* A window that was moved and dropped is on a workspace that is shown.
DroppedIsShown ==
  [][input.drag # NoWindow /\ input.op = "move" /\ input'.drag = NoWindow
     /\ find_window_in_all(core', input.drag) /\ ~ dev.key
     => is_workspace_visible(core', core'.window_workspace[input.drag])]_allVars
=============================================================================
