---------------------------- MODULE CoreDispatch -----------------------------
(***************************************************************************)
(* Core's reducers (core/src/core/core_dispatch.cpp) and the window half   *)
(* of WorkspaceManager.  Core's state is a record k:                       *)
(*   wsman             the state of module WorkspaceManager                *)
(*   settings          the configuration in force                          *)
(*   workspaces[ws]    [windows, current, fullscreen]; current is 0 when   *)
(*                     empty, fullscreen is WorkspaceMode::Fullscreen      *)
(*   window[w]         the WindowState of every managed window             *)
(*   window_workspace  the index from window to workspace                  *)
(*   effects           pending_backend_effects, oldest first               *)
(* A command is an operator from k to the k it leaves.  The rectangle of a *)
(* window is abstracted to its place: its own, a tile of an output, or the *)
(* whole of an output.  Borders, sizes and pending flushes are left out,   *)
(* and with them the UpdateWindow, WarpPointer and CloseWindow effects;    *)
(* so are hidden_explicitly, which only adoption after a restart sets, and *)
(* self-managed clients (Wine, Proton), whose geometry Core leaves alone.  *)
(***************************************************************************)
EXTENDS WorkspaceManager, SequencesExt

CONSTANT NoWindow   \* NO_WINDOW

Own        == [how |-> "own",  output |-> NoOutput]
TileOn(o)  == [how |-> "tile", output |-> o]
WholeOf(o) == [how |-> "full", output |-> o]

\* What window_factory creates; the last field is X11Window's counter.
new_window ==
  [mapped |-> FALSE, hidden_by_workspace |-> FALSE, floating |-> FALSE,
   fullscreen |-> FALSE, borderless |-> FALSE, suppress_focus_once |-> FALSE,
   place |-> Own, place_before_fullscreen |-> Own, pending_wm_unmaps |-> 0]

is_visible(k, w) == k.window[w].mapped /\ ~ k.window[w].hidden_by_workspace
covers(k, w) == k.window[w].fullscreen \/ k.window[w].borderless

find_window_in_all(k, w) == w \in DOMAIN k.window
workspace_of_window(k, w) ==
  IF w \in DOMAIN k.window_workspace THEN k.window_workspace[w] ELSE 0
is_workspace_visible(k, ws) == ws \in Range(k.wsman.active_ws)

\* f[x] = v: an element of a map is inserted or replaced.
insert(f, x, v) == [y \in DOMAIN f \cup {x} |-> IF y = x THEN v ELSE f[y]]

emit_backend_effect(k, kind, w) ==
  [k EXCEPT !.effects = Append(@, [kind |-> kind, window |-> w])]
-----------------------------------------------------------------------------
(* Workspace: one list of windows with a cursor.                           *)

empty_workspace == [windows |-> <<>>, current |-> 0, fullscreen |-> FALSE]

Workspace_add_window(s, w) ==
  [s EXCEPT !.windows = Append(@, w), !.current = IF @ = 0 THEN 1 ELSE @]

\* Mutant: the cursor is left where it is.
remove_window_cursor_kept(s, w) ==
  LET i == index_of(s.windows, w)
  IN  IF i = 0 THEN s ELSE [s EXCEPT !.windows = RemoveAt(@, i)]

\* A cursor behind the removed window moves with its window; a cursor on it
\* goes to the window that takes its place, or to the new last one.
Workspace_remove_window(s, w) ==
  LET i    == index_of(s.windows, w)
      rest == RemoveAt(s.windows, i)
  IN  IF i = 0 THEN s
      ELSE [s EXCEPT !.windows = rest,
                     !.current = IF @ > i \/ @ > Len(rest) THEN @ - 1 ELSE @]

\* Windows the cursor may rest on: the visible ones, or all if none is.
selectable(k, s) ==
  LET visible == {w \in Range(s.windows) : is_visible(k, w)}
  IN  IF visible = {} THEN Range(s.windows) ELSE visible

\* The window under the cursor if it is one of ok, else the first of those.
cursor_or_first(s, ok) ==
  IF s.current \in DOMAIN s.windows /\ s.windows[s.current] \in Range(ok)
  THEN s.windows[s.current] ELSE ok[1]

Workspace_focused(k, s) ==
  IF s.windows = <<>> THEN NoWindow
  ELSE cursor_or_first(s, Keep(s.windows, selectable(k, s)))

\* Position j of a list of n that goes around.
wrap(j, n) == IF j > n THEN j - n ELSE IF j < 1 THEN j + n ELSE j

\* focus_next and focus_prev: the nearest selectable tiled window going
\* around the list in direction dir, else the nearest selectable one.
Workspace_focus_step(k, s, dir) ==
  LET n     == Len(s.windows)
      base  == IF dir = 1 \/ s.current \in 1 .. n THEN s.current ELSE 1
      at(i) == wrap(base + dir * i, n)
      ok    == {i \in 1 .. n : s.windows[at(i)] \in selectable(k, s)}
      tiled == {i \in ok : ~ k.window[s.windows[at(i)]].floating}
      from  == IF tiled = {} THEN ok ELSE tiled
  IN  IF n = 0 THEN s
      ELSE [s EXCEPT !.current = at(Min(from))]

\* zoom_focused: the focused tiled window changes places with the master,
\* the master with the next tiled one.
zoom_at(s, f, tiled) ==
  LET first == Min(tiled)
      other == IF f = first THEN Min(tiled \ {f}) ELSE first
  IN  IF f \notin tiled \/ tiled = {f} THEN s
      ELSE [s EXCEPT !.windows = [@ EXCEPT ![f] = s.windows[other],
                                           ![other] = s.windows[f]],
                     !.current = other]

Workspace_zoom(k, s) ==
  zoom_at(s, index_of(s.windows, Workspace_focused(k, s)),
          {i \in DOMAIN s.windows : ~ k.window[s.windows[i]].floating})
-----------------------------------------------------------------------------
(* WorkspaceManager: windows.                                              *)

\* The workspace of the focused monitor, else the first one any monitor shows.
current_ws(k) ==
  LET shows(m) == active_ws_of_monitor(k.wsman, m)
      some == {m \in DOMAIN k.wsman.monitors : shows(m) > 0}
  IN  IF k.wsman.focused_monitor \in some THEN shows(k.wsman.focused_monitor)
      ELSE IF some = {} THEN 1 ELSE shows(CHOOSE m \in some : \A n \in some : m <= n)

\* The window leaves the list of workspace old, if any, and is added to that of ws.
relist(lists, old, ws, w) ==
  List([i \in DOMAIN lists |-> IF i = ws THEN Workspace_add_window(lists[i], w)
                               ELSE IF i = old THEN Workspace_remove_window(lists[i], w)
                               ELSE lists[i]])

move_window_to(k, ws, w) ==
  LET old == workspace_of_window(k, w)
  IN  IF old = ws \/ ~ is_ws_valid(k.wsman, ws) THEN k
      ELSE [k EXCEPT !.workspaces = relist(@, old, ws, w),
                     !.window_workspace = insert(@, w, ws)]

create_window(k, w, ws) ==
  LET active == active_ws_of_monitor(k.wsman, k.wsman.focused_monitor)
      target == IF is_ws_valid(k.wsman, ws) THEN ws
                ELSE IF is_ws_valid(k.wsman, active) THEN active ELSE 1
  IN  move_window_to(
        [k EXCEPT !.window = insert(@, w, new_window)], target, w)

remove_window_from_all(k, w) ==
  LET ws == workspace_of_window(k, w)
  IN  IF ws = 0 THEN k
      ELSE [k EXCEPT !.workspaces[ws] = Workspace_remove_window(@, w),
                     !.window = Restrict(@, DOMAIN @ \ {w}),
                     !.window_workspace = Restrict(@, DOMAIN @ \ {w})]

\* Mutant: the windows are lost from the lists, the index keeps them.
drop_workspace_windows(k, c) ==
  [k EXCEPT !.workspaces = List([ws \in DOMAIN c.pins |->
                                   IF ws > Len(@) THEN empty_workspace ELSE @[ws]])]

\* The windows of the workspaces that a list of count workspaces drops.
dropped_windows(k, count) ==
  FlattenSeq(SubSeq([ws \in DOMAIN k.workspaces |-> k.workspaces[ws].windows],
                    count + 1, Len(k.workspaces)))

\* Those of them whose fallback is ws.
taken_over(k, count, ws) ==
  Keep(dropped_windows(k, count),
       {w \in Range(dropped_windows(k, count)) :
          fallback_for(k.wsman, k.window_workspace[w], count) = ws})

Workspace_append(s, more) ==
  [s EXCEPT !.windows = @ \o more,
            !.current = IF @ = 0 /\ more # <<>> THEN 1 ELSE @]

kept_workspaces(k, count) ==
  [ws \in 1 .. count |->
     IF ws > Len(k.workspaces) THEN empty_workspace
     ELSE Workspace_append(k.workspaces[ws], taken_over(k, count, ws))]

kept_index(k, count) ==
  [w \in DOMAIN k.window_workspace |->
     IF w \in Range(dropped_windows(k, count))
     THEN fallback_for(k.wsman, k.window_workspace[w], count) ELSE k.window_workspace[w]]

\* update_workspace_defs: the windows of dropped workspaces are appended, in
\* order, to their fallback; their visibility is not looked at here.
update_workspace_windows(k, c) ==
  [k EXCEPT !.workspaces = List(kept_workspaces(k, Len(c.pins))),
            !.window_workspace = kept_index(k, Len(c.pins))]

focus_window(k, w) ==
  LET ws == k.window_workspace[w]
  IN  [k EXCEPT !.workspaces[ws].current = index_of(k.workspaces[ws].windows, w),
                !.wsman = focus_workspace(@, ws)]
-----------------------------------------------------------------------------
(* Core: the private steps the commands are made of.                       *)

\* Mutant: windows are hidden, none is shown again.
sync_hides_only(k) ==
  LET hide == {w \in DOMAIN k.window : /\ is_visible(k, w)
                                       /\ ~ is_workspace_visible(k, k.window_workspace[w])}
  IN  [k EXCEPT
         !.window = [w \in DOMAIN @ |->
                       [@[w] EXCEPT !.hidden_by_workspace = @ \/ w \in hide]],
         !.effects = @ \o [i \in DOMAIN SetToSeq(hide) |->
                             [kind |-> "unmap", window |-> SetToSeq(hide)[i]]]]

\* Windows of hidden workspaces are hidden, the others shown; the effects
\* follow the order of the workspaces and of their lists.
sync_workspace_visibility(k) ==
  LET order   == FlattenSeq([ws \in DOMAIN k.workspaces |-> k.workspaces[ws].windows])
      on(w)   == is_workspace_visible(k, k.window_workspace[w])
      hide(w) == ~ on(w) /\ is_visible(k, w)
      show(w) == on(w) /\ k.window[w].hidden_by_workspace
      changed == Keep(order, {w \in Range(order) : hide(w) \/ show(w)})
  IN  [k EXCEPT
         !.window = [w \in DOMAIN k.window |->
                       [k.window[w] EXCEPT !.hidden_by_workspace = ~ on(w),
                                           !.mapped = @ \/ show(w)]],
         !.effects = k.effects \o [i \in DOMAIN changed |->
                        [kind |-> IF hide(changed[i]) THEN "unmap" ELSE "map",
                         window |-> changed[i]]]]

\* Mutant: windows that cover the monitor are tiled like the others.
arrange_covering_too(k) ==
  LET on(w) == k.wsman.monitors[monitor_of(k.wsman, k.window_workspace[w])]
      shown == {w \in DOMAIN k.window :
                  is_workspace_visible(k, k.window_workspace[w]) /\ is_visible(k, w)}
  IN  [k EXCEPT !.window = [w \in DOMAIN @ |->
         [@[w] EXCEPT !.place = IF w \in shown THEN TileOn(on(w)) ELSE @]]]

\* A tiling layout places every visible tiled window of the shown workspaces.
arrange(k) ==
  LET on(w) == k.wsman.monitors[monitor_of(k.wsman, k.window_workspace[w])]
      tiled == {w \in DOMAIN k.window :
                  /\ is_workspace_visible(k, k.window_workspace[w]) /\ is_visible(k, w)
                  /\ ~ k.window[w].floating /\ ~ covers(k, w)}
  IN  [k EXCEPT !.window = [w \in DOMAIN k.window |->
         [k.window[w] EXCEPT !.place = IF w \in tiled THEN TileOn(on(w)) ELSE @]]]

pin_fullscreen_to_monitor(k, w, ws) ==
  LET m == monitor_of(k.wsman, ws)
  IN  IF m = 0 THEN k
      ELSE [k EXCEPT !.window[w].place = WholeOf(k.wsman.monitors[m])]

\* In Fullscreen mode the focused window is pinned if it covers the monitor,
\* and raised; covering windows it is not one of are lowered.
restack(k, ws, f, cover) ==
  IF covers(k, f)
  THEN emit_backend_effect(pin_fullscreen_to_monitor(k, f, ws), "raise", f)
  ELSE [k EXCEPT !.effects = Append(@, [kind |-> "raise", window |-> f])
                               \o [i \in DOMAIN cover |->
                                     [kind |-> "lower", window |-> cover[i]]]]

\* Enters Fullscreen mode for the windows of cover, or leaves it.
set_mode(k, ws, cover) ==
  LET moded == [k EXCEPT !.workspaces[ws].fullscreen = cover # <<>>]
  IN  IF cover = <<>> THEN moded
      ELSE restack(moded, ws, Workspace_focused(k, k.workspaces[ws]), cover)

evaluate_workspace_fullscreen(k, ws) ==
  IF ~ is_ws_valid(k.wsman, ws) THEN k
  ELSE set_mode(k, ws, Keep(k.workspaces[ws].windows,
                            {w \in DOMAIN k.window : is_visible(k, w) /\ covers(k, w)}))

\* The window gets the focus if it is visible, else the root does.
focus_target(k, target) ==
  IF find_window_in_all(k, target) /\ is_visible(k, target)
  THEN evaluate_workspace_fullscreen(
         emit_backend_effect(focus_window(k, target), "focus", target),
         k.window_workspace[target])
  ELSE emit_backend_effect(k, "root", NoWindow)

\* Every change of focus goes through here.  NoWindow asks for the best
\* visible window of the current workspace.
focus(k, w) ==
  focus_target(k, IF w = NoWindow THEN Workspace_focused(k, k.workspaces[current_ws(k)])
                  ELSE w)

reconcile(k) == focus(arrange(sync_workspace_visibility(k)), NoWindow)
-----------------------------------------------------------------------------
(* Core::dispatch, one operator per command.                               *)

FocusWindow(k, w) == IF find_window_in_all(k, w) THEN focus(k, w) ELSE k

\* The monitor whose focus matters is the hint, not the owner switch_to
\* prefers, when the caller gives one.
SwitchWorkspace(k, ws, hint) ==
  LET owner  == IF hint > 0 THEN hint ELSE monitor_of(k.wsman, ws)
      target == IF owner > 0 THEN owner ELSE k.wsman.focused_monitor
      shown  == arrange(sync_workspace_visibility(
                  [k EXCEPT !.wsman = switch_to(@, ws, hint, k.settings)]))
      moved  == IF target = k.wsman.focused_monitor THEN focus(shown, NoWindow) ELSE shown
  IN  IF ~ is_ws_valid(k.wsman, ws) \/ k.wsman.monitors = <<>> THEN k
      ELSE evaluate_workspace_fullscreen(moved, ws)

\* A covering window fits its new monitor; both workspaces are evaluated.
refit_moved(k, w, src, ws) ==
  IF ~ covers(k, w) THEN k
  ELSE evaluate_workspace_fullscreen(
         evaluate_workspace_fullscreen(pin_fullscreen_to_monitor(k, w, ws), src), ws)

\* The focus follows a window that moved to a workspace that is shown.
focus_moved(k, w, ws) ==
  focus(k, IF /\ is_workspace_visible(k, ws) /\ is_visible(k, w)
              /\ ~ k.window[w].suppress_focus_once
           THEN w ELSE NoWindow)

MoveWindowToWorkspace(k, w, ws) ==
  IF ~ is_ws_valid(k.wsman, ws) \/ ~ find_window_in_all(k, w) THEN k
  ELSE focus_moved(
         refit_moved(arrange(sync_workspace_visibility(move_window_to(k, ws, w))),
                     w, workspace_of_window(k, w), ws), w, ws)

MapWindow(k, w) ==
  LET next == [k EXCEPT !.window[w].mapped = TRUE]
  IN  IF ~ k.window[w].mapped /\ is_visible(next, w)
      THEN emit_backend_effect(next, "map", w) ELSE next

enter_fullscreen(k, w, m) ==
  arrange([k EXCEPT !.window[w] = [k.window[w] EXCEPT
    !.place_before_fullscreen =
        IF k.window[w].fullscreen THEN @ ELSE k.window[w].place,
    !.fullscreen = TRUE,
    !.place = IF k.wsman.monitors = <<>> THEN @
              ELSE WholeOf(k.wsman.monitors[IF m > 0 THEN m ELSE 1])]])

leave_fullscreen(k, w) ==
  arrange([k EXCEPT
    !.window[w].fullscreen = FALSE,
    !.window[w].place = IF k.window[w].floating
                        THEN k.window[w].place_before_fullscreen ELSE @])

focus_or_evaluate(k, w, ws) ==
  IF is_workspace_visible(k, ws) /\ is_visible(k, w) THEN focus(k, w)
  ELSE evaluate_workspace_fullscreen(k, ws)

SetWindowFullscreen(k, w, enabled) ==
  LET ws == k.window_workspace[w]
  IN  IF ~ find_window_in_all(k, w) THEN k
      ELSE IF enabled
      THEN focus_or_evaluate(enter_fullscreen(k, w, monitor_of(k.wsman, ws)), w, ws)
      ELSE IF ~ k.window[w].fullscreen THEN k
      ELSE evaluate_workspace_fullscreen(leave_fullscreen(k, w), ws)

EnsureWindow(k, w, ws) ==
  IF find_window_in_all(k, w) THEN move_window_to(k, ws, w) ELSE create_window(k, w, ws)

SetWindowMapped(k, w, mapped) ==
  IF find_window_in_all(k, w) THEN [k EXCEPT !.window[w].mapped = mapped] ELSE k

SetWindowHiddenByWorkspace(k, w, hidden) ==
  IF find_window_in_all(k, w) THEN [k EXCEPT !.window[w].hidden_by_workspace = hidden] ELSE k

SetWindowBorderless(k, w) ==
  evaluate_workspace_fullscreen([k EXCEPT !.window[w].borderless = TRUE],
                                k.window_workspace[w])

RemoveWindowFromAllWorkspaces(k, w) ==
  LET ws   == workspace_of_window(k, w)
      next == remove_window_from_all(k, w)
  IN  IF ws = 0 THEN next ELSE evaluate_workspace_fullscreen(next, ws)

focus_if_visible(k, w) ==
  focus(k, IF w # NoWindow /\ is_visible(k, w) THEN w ELSE NoWindow)

focus_cursor(k, ws) == focus_if_visible(k, Workspace_focused(k, k.workspaces[ws]))

FocusStep(k, dir) ==
  LET ws == current_ws(k)
  IN  focus_cursor([k EXCEPT !.workspaces[ws] = Workspace_focus_step(k, @, dir)], ws)

\* Mutant: the monitor changes, the keyboard stays.
focus_monitor_only(k, m) ==
  IF k.wsman.active_ws[m] = 0 THEN k ELSE [k EXCEPT !.wsman.focused_monitor = m]

FocusMonitor(k, m) ==
  IF ~ is_mon_valid(k.wsman, m) \/ k.wsman.active_ws[m] = 0 \/ m = k.wsman.focused_monitor
  THEN k
  ELSE focus([k EXCEPT !.wsman.focused_monitor = m], NoWindow)

\* The pointer is over monitor m.
focus_monitor_at_point(k, m) ==
  IF m = k.wsman.focused_monitor THEN k
  ELSE focus([k EXCEPT !.wsman.focused_monitor = m], NoWindow)

Zoom(k) == LET ws == current_ws(k)
           IN  arrange([k EXCEPT !.workspaces[ws] = Workspace_zoom(k, @)])

ToggleFocusedWindowFloating(k) ==
  LET w == Workspace_focused(k, k.workspaces[current_ws(k)])
  IN  IF w = NoWindow THEN k
      ELSE arrange([k EXCEPT !.window[w].floating = ~ @])

\* Mutant: the workspaces are not assigned again after the monitors changed.
topology_unassigned(k, mons) == reconcile([k EXCEPT !.wsman = set_monitors(@, mons)])

ApplyMonitorTopology(k, mons) ==
  reconcile([k EXCEPT !.wsman = assign_workspaces(set_monitors(@, mons), k.settings)])

consume_window_suppress_focus_once(k, w) ==
  [k EXCEPT !.window[w].suppress_focus_once = FALSE]

apply_settings(k, c) ==
  LET kept == update_workspace_windows(k, c)
  IN  [kept EXCEPT !.settings = c,
                   !.wsman = assign_workspaces(update_workspace_defs(@, c), c)]

\* The tail of Runtime::process_pending_reload, and the on_reload_applied of
\* the backend: the Core it leaves, and the workspaces whose
\* WorkspaceSwitched event waits for drain_events.
restore_shown(k, saved) ==
  LET todo == Keep([i \in DOMAIN k.wsman.monitors |-> i],
                   {i \in DOMAIN saved : is_ws_valid(k.wsman, saved[i])})
  IN  [core     |-> focus(IF todo = <<>> THEN arrange(k)
                          ELSE FoldLeft(LAMBDA acc, i : SwitchWorkspace(acc, saved[i], i),
                                        k, todo), NoWindow),
       switched |-> [i \in DOMAIN todo |-> saved[todo[i]]]]

redisplay(k, mons) ==
  restore_shown(ApplyMonitorTopology(k, mons), k.wsman.active_ws)

\* A reload whose configuration validates.
reload(k, c, mons) == redisplay(apply_settings(k, c), mons)
=============================================================================
