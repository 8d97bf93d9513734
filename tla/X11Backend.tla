----------------------------- MODULE X11Backend ------------------------------
(***************************************************************************)
(* The X11 backend around Core: the event handlers of                      *)
(* backends/x11/src/backend/events.cpp, the effects that render_frame      *)
(* applies (loop.cpp), and the parts of ewmh.cpp that act on Core.         *)
(*                                                                         *)
(* The X server and its clients are external.  A request takes effect when *)
(* it is issued; what it causes is seen when the event it queues reaches   *)
(* the head of the queue, so clients and the window manager run apart.  A  *)
(* managed window reports every map, unmap and destroy twice: the root     *)
(* selects SubstructureNotify and the window itself StructureNotify.       *)
(***************************************************************************)
EXTENDS CoreDispatch

CONSTANTS
  Windows,     \* the top-level windows clients create
  Covering,    \* those that are fixed-size and cover their monitor
  Commands,    \* the user commands considered
  Remaps,      \* TRUE: clients may map a window that is managed already
  Faithful,    \* windows whose clients map them once and never unmap them
  Withdrawals, \* how clients unmap: TRUE sends ICCCM's synthetic event too
  Calm,        \* TRUE: nobody acts while events or effects are pending
  MaxQueue,    \* bound on the queued events when anyone acts
  MaxEffects,  \* bound on the pending effects when anyone acts
  MaxUnmaps    \* bound on the unmaps a window may expect when anyone acts

ASSUME X11Assumption ==
  /\ IsFiniteSet(Windows) /\ NoWindow \notin Windows /\ Covering \cup Faithful \subseteq Windows
  /\ Calm \in BOOLEAN /\ Remaps \in BOOLEAN /\ Withdrawals \subseteq BOOLEAN
  /\ MaxQueue \in Nat /\ MaxEffects \in Nat /\ MaxUnmaps \in Nat
  /\ Commands \subseteq {"switch", "move", "step", "pointer", "monitor", "float",
                         "zoom", "fullscreen", "reload", "plug"}

VARIABLES
  core,    \* Core, see module CoreDispatch
  x,       \* the X server: [alive, mapped, selected, fs_state, input, stack]
  queue    \* events on their way to the window manager, oldest first

vars == <<core, x, queue>>
-----------------------------------------------------------------------------
(* The X server.  s is a record [core, x, queue].                          *)

copies(s, type, w) ==
  [i \in 1 .. (IF w \in s.x.selected THEN 2 ELSE 1) |-> [type |-> type, window |-> w]]

x_map(s, w) ==
  IF w \notin s.x.alive \/ w \in s.x.mapped THEN s
  ELSE [s EXCEPT !.x.mapped = @ \cup {w}, !.queue = @ \o copies(s, "map", w)]

x_unmap(s, w) ==
  IF w \notin s.x.mapped THEN s
  ELSE [s EXCEPT !.x.mapped = @ \ {w}, !.queue = @ \o copies(s, "unmap", w),
                 !.x.input = IF @ = w THEN NoWindow ELSE @]

x_select(s, w) == [s EXCEPT !.x.selected = @ \cup ({w} \cap s.x.alive)]

x_focus(s, w) == [s EXCEPT !.x.input = IF w \in s.x.mapped THEN w ELSE @]
-----------------------------------------------------------------------------
(* EWMH: fullscreen requests carried by _NET_WM_STATE.                     *)

should_apply_fullscreen_now(k, w) ==
  ~ k.window[w].hidden_by_workspace /\ is_workspace_visible(k, k.window_workspace[w])

\* The window's _NET_WM_STATE; a window that is gone has none.
x_fullscreen(s, w, enabled) ==
  [s EXCEPT !.x.fs_state = IF enabled THEN @ \cup ({w} \cap s.x.alive) ELSE @ \ {w}]

ewmh_apply_fullscreen(s, w, enabled) ==
  x_fullscreen([s EXCEPT !.core = SetWindowFullscreen(@, w, enabled)], w, enabled)

ewmh_on_window_mapped(s, w) ==
  IF /\ ~ s.core.window[w].borderless
     /\ w \in s.x.fs_state /\ should_apply_fullscreen_now(s.core, w)
  THEN ewmh_apply_fullscreen(s, w, TRUE) ELSE s

\* A window that asked for fullscreen while hidden gets it when it is shown.
ewmh_on_workspace_switched(s, ws) ==
  LET waiting == Keep(s.core.workspaces[ws].windows,
                      {w \in DOMAIN s.core.window \cap s.x.fs_state :
                         ~ s.core.window[w].hidden_by_workspace /\ ~ covers(s.core, w)})
  IN  FoldLeft(LAMBDA acc, w : ewmh_apply_fullscreen(acc, w, TRUE), s, waiting)

\* drain_events after a reload.
drain_switched(s, r) ==
  FoldLeft(ewmh_on_workspace_switched, [s EXCEPT !.core = r.core], r.switched)

\* _NET_WM_STATE asks to enter or leave fullscreen.
handle_fullscreen_message(s, w, enabled) ==
  IF ~ find_window_in_all(s.core, w) THEN s
  ELSE IF s.core.window[w].borderless
          \/ (enabled /\ ~ should_apply_fullscreen_now(s.core, w))
  THEN x_fullscreen(s, w, enabled)
  ELSE ewmh_apply_fullscreen(s, w, enabled)
-----------------------------------------------------------------------------
(* X11Window's counter of its own unmaps, and the effects of a frame.      *)

note_wm_unmap(k, w) == [k EXCEPT !.window[w].pending_wm_unmaps = @ + 2]

\* Mutant: the counter is tested, never decremented.
consume_nothing(k, w) == k

consume_wm_unmap(k, w) == [k EXCEPT !.window[w].pending_wm_unmaps = @ - 1]

\* A borderless window is pinned again before it is mapped.
apply_effect(s, e) ==
  LET w   == e.window
      pin == IF s.core.window[w].borderless
             THEN [s EXCEPT !.core = pin_fullscreen_to_monitor(@, w, @.window_workspace[w])]
             ELSE s
  IN  IF ~ find_window_in_all(s.core, w) /\ e.kind # "root" THEN s
      ELSE CASE e.kind = "map"   -> ewmh_on_window_mapped(x_map(x_select(pin, w), w), w)
             [] e.kind = "unmap" -> x_unmap([s EXCEPT !.core = note_wm_unmap(@, w)], w)
             [] e.kind = "focus" -> x_focus(s, w)
             [] e.kind = "root"  -> [s EXCEPT !.x.input = NoWindow]
             [] e.kind = "raise" -> [s EXCEPT !.x.stack = Append(Keep(@, Range(@) \ {w}), w)]
             [] e.kind = "lower" -> [s EXCEPT !.x.stack = <<w>> \o Keep(@, Range(@) \ {w})]

\* Mutant: the effects are applied and stay in the list.
apply_keeping_effects(s) == FoldLeft(apply_effect, s, s.core.effects)

\* take_backend_effects empties the list first: what an effect dispatches to
\* Core waits for the next frame.
apply_core_backend_effects(s) ==
  FoldLeft(apply_effect, [s EXCEPT !.core.effects = <<>>], s.core.effects)
-----------------------------------------------------------------------------
(* Event handlers.  rule is the workspace the user's window rules move a   *)
(* new window to, hint the one shown where a covering window first asked   *)
(* to be; 0 when there is none.                                            *)

\* A rule moves the window and asks that it not be focused once.
invoke_window_rules(k, w, rule) ==
  IF rule = 0 THEN k
  ELSE MoveWindowToWorkspace([k EXCEPT !.window[w].suppress_focus_once = TRUE], w, rule)

\* A covering window becomes borderless and is pinned to its monitor.
promote_to_borderless(k, w) ==
  LET ws == k.window_workspace[w]
  IN  IF w \notin Covering \/ monitor_of(k.wsman, ws) = 0 THEN k
      ELSE IF k.window[w].borderless THEN pin_fullscreen_to_monitor(k, w, ws)
      ELSE IF k.window[w].floating THEN k
      ELSE pin_fullscreen_to_monitor(SetWindowBorderless(k, w), w, ws)

\* On a hidden workspace the window is mapped and unmapped at once, so that
\* the client starts; otherwise Core maps it with the next frame.
show_or_flash(s, w) ==
  IF is_workspace_visible(s.core, s.core.window_workspace[w])
  THEN [s EXCEPT !.core = MapWindow(SetWindowHiddenByWorkspace(@, w, FALSE), w)]
  ELSE [x_unmap([x_map(s, w) EXCEPT !.core = note_wm_unmap(@, w)], w) EXCEPT
          !.core = SetWindowMapped(SetWindowHiddenByWorkspace(@, w, TRUE), w, FALSE)]

\* A new window that is visible is focused, unless a rule asked otherwise.
focus_new_window(k, w) ==
  focus(consume_window_suppress_focus_once(k, w),
        IF /\ is_workspace_visible(k, k.window_workspace[w]) /\ is_visible(k, w)
           /\ ~ k.window[w].suppress_focus_once
        THEN w ELSE NoWindow)

handle_map_request(s, w, rule, hint) ==
  [ewmh_on_window_mapped(
     show_or_flash(x_select([s EXCEPT !.core =
       promote_to_borderless(
         invoke_window_rules(EnsureWindow(@, w, hint), w, rule), w)], w), w), w)
   EXCEPT !.core = focus_new_window(arrange(@), w)]

\* Mutant: a map always means that the window is shown.
map_notify_shows(s, w) ==
  [s EXCEPT !.core = SetWindowHiddenByWorkspace(SetWindowMapped(@, w, TRUE), w, FALSE)]

\* While an unmap of our own is pending, the map is taken to precede it.
handle_map_notify(s, w) ==
  LET pending == find_window_in_all(s.core, w) /\ s.core.window[w].pending_wm_unmaps > 0
      k       == SetWindowMapped(s.core, w, ~ pending)
      active  == is_workspace_visible(k, workspace_of_window(k, w))
  IN  [s EXCEPT !.core = IF ~ pending /\ active
                         THEN SetWindowHiddenByWorkspace(k, w, FALSE) ELSE k]

unmanage(k, w) ==
  LET visible == is_workspace_visible(k, workspace_of_window(k, w))
      next    == RemoveWindowFromAllWorkspaces(k, w)
  IN  IF visible THEN arrange(next) ELSE next

\* An unmap of our own is ignored; a client that unmaps its window withdraws
\* it, except that a plain window on a hidden workspace stays managed.
handle_unmap_notify(s, w) ==
  LET k == s.core
      gone == SetWindowMapped(k, w, FALSE)
  IN  IF ~ find_window_in_all(k, w) THEN s
      ELSE IF k.window[w].pending_wm_unmaps > 0 THEN [s EXCEPT !.core = consume_wm_unmap(k, w)]
      ELSE IF ~ covers(k, w) /\ k.window[w].hidden_by_workspace THEN [s EXCEPT !.core = gone]
      ELSE [s EXCEPT !.core = unmanage(gone, w)]

\* Mutant: only windows on a shown workspace are unmanaged.
destroy_visible_only(s, w) ==
  IF is_workspace_visible(s.core, workspace_of_window(s.core, w))
  THEN [s EXCEPT !.core = unmanage(@, w)] ELSE s

handle_destroy_notify(s, w) ==
  IF find_window_in_all(s.core, w) THEN [s EXCEPT !.core = unmanage(@, w)] ELSE s

handle_enter_notify(k, w) ==
  IF find_window_in_all(k, w) /\ is_visible(k, w) THEN FocusWindow(k, w) ELSE k
-----------------------------------------------------------------------------
(* Actions.                                                                *)

here == [core |-> core, x |-> x, queue |-> queue]

Becomes(s) == core' = s.core /\ x' = s.x /\ queue' = s.queue

Settled == queue = <<>> /\ core.effects = <<>>

CanAct == IF Calm THEN Settled
          ELSE /\ Len(queue) <= MaxQueue /\ Len(core.effects) <= MaxEffects
               /\ \A w \in DOMAIN core.window : core.window[w].pending_wm_unmaps <= MaxUnmaps

\* A window manager that has just started, with no client mapped yet.
Init ==
  \E mons \in MonitorLists, c \in Configs :
    /\ core = [wsman |-> init_from_defs(mons, c), settings |-> c,
               workspaces |-> [ws \in DOMAIN c.pins |-> empty_workspace],
               window |-> [w \in {} |-> new_window],
               window_workspace |-> [w \in {} |-> 0], effects |-> <<>>]
    /\ x = [alive |-> Windows, mapped |-> {}, selected |-> {}, fs_state |-> {},
            input |-> NoWindow, stack |-> SetToSeq(Windows)]
    /\ queue = <<>>

\* A client maps its window: the request is redirected to us.
ClientMap(w) ==
  /\ CanAct /\ w \in x.alive \ x.mapped
  /\ (Remaps /\ w \notin Faithful) \/ ~ find_window_in_all(core, w)
  /\ [type |-> "request", window |-> w] \notin Range(queue)
  /\ queue' = Append(queue, [type |-> "request", window |-> w])
  /\ UNCHANGED <<core, x>>

\* A client unmaps its window, with or without the synthetic UnmapNotify
\* that ICCCM asks of a withdrawal.
ClientUnmap(w, synthetic) ==
  /\ CanAct /\ w \in x.alive \ Faithful
  /\ w \in x.mapped \/ (synthetic /\ find_window_in_all(core, w))
  /\ LET s == x_unmap(here, w)
     IN  Becomes([s EXCEPT !.queue = IF synthetic
                    THEN Append(@, [type |-> "unmap", window |-> w]) ELSE @])

ClientDestroy(w) ==
  /\ CanAct /\ w \in x.alive
  /\ LET s == x_unmap(here, w)
     IN  Becomes([s EXCEPT !.queue = @ \o copies(s, "destroy", w),
                    !.x.alive = @ \ {w}, !.x.selected = @ \ {w}, !.x.fs_state = @ \ {w}])

\* Only the ConfigureRequests of a window not yet managed are remembered.
hints(w) == {0} \cup IF w \in Covering /\ ~ find_window_in_all(core, w)
                    THEN Range(core.wsman.active_ws) ELSE {}

\* pump_events: the oldest event is handled.
PumpEvent ==
  /\ queue # <<>>
  /\ LET e == Head(queue)
         s == [here EXCEPT !.queue = Tail(@)]
     IN  \/ /\ e.type = "request"
            /\ \E rule \in {0} \cup DOMAIN core.workspaces, hint \in hints(e.window) :
                 Becomes(handle_map_request(s, e.window, rule, hint))
         \/ e.type = "map"     /\ Becomes(handle_map_notify(s, e.window))
         \/ e.type = "unmap"   /\ Becomes(handle_unmap_notify(s, e.window))
         \/ e.type = "destroy" /\ Becomes(handle_destroy_notify(s, e.window))

RenderFrame ==
  /\ core.effects # <<>>
  /\ Becomes(apply_core_backend_effects(here))

\* A command of a key binding, a pager, a bar or Lua.
Command(name, k) == CanAct /\ name \in Commands /\ core' = k /\ UNCHANGED <<x, queue>>

SwitchTo(ws) ==
  /\ CanAct /\ "switch" \in Commands
  /\ Becomes(ewmh_on_workspace_switched([here EXCEPT !.core = SwitchWorkspace(@, ws, 0)], ws))

Reload(c, mons) ==
  /\ CanAct /\ "reload" \in Commands
  /\ Becomes(drain_switched(here, reload(core, c, mons)))

Fullscreen(w, enabled) ==
  /\ CanAct /\ "fullscreen" \in Commands
  /\ Becomes(handle_fullscreen_message(here, w, enabled))

Next ==
  \/ PumpEvent
  \/ RenderFrame
  \/ \E w \in Windows :
       \/ ClientMap(w)
       \/ \E synthetic \in Withdrawals : ClientUnmap(w, synthetic)
       \/ ClientDestroy(w)
       \/ \E enabled \in BOOLEAN : Fullscreen(w, enabled)
       \/ Command("pointer", handle_enter_notify(core, w))
       \/ \E ws \in DOMAIN core.workspaces :
            find_window_in_all(core, w) /\ Command("move", MoveWindowToWorkspace(core, w, ws))
  \/ \E ws \in DOMAIN core.workspaces : SwitchTo(ws)
  \/ \E dir \in {1, -1} : Command("step", FocusStep(core, dir))
  \/ \E m \in DOMAIN core.wsman.monitors :
       \/ Command("monitor", FocusMonitor(core, m))
       \/ Command("pointer", focus_monitor_at_point(core, m))
  \/ Command("zoom", Zoom(core))
  \/ Command("float", ToggleFocusedWindowFloating(core))
  \/ \E mons \in MonitorLists : Command("plug", ApplyMonitorTopology(core, mons))
  \/ \E c \in Configs, mons \in MonitorLists : Reload(c, mons)

Spec == Init /\ [][Next]_vars

\* Runtime::tick polls, pumps and renders for ever: weak fairness of both, with
\* ENABLED <<PumpEvent>>_vars and ENABLED <<RenderFrame>>_vars spelled out.
FairSpec ==
  /\ Spec
  /\ []<>(queue = <<>>) \/ []<><<PumpEvent>>_vars
  /\ []<>(core.effects = <<>> \/ apply_core_backend_effects(here) = here)
     \/ []<><<RenderFrame>>_vars
-----------------------------------------------------------------------------
(* Properties.                                                             *)

\* The counters of consume_wm_unmap never go below zero, nothing a client
\* destroyed stays mapped or selected, and the stack has every window once.
TypeOK ==
  /\ core.settings \in Configs
  /\ DOMAIN core.window \subseteq Windows
  /\ \A w \in DOMAIN core.window : core.window[w].pending_wm_unmaps \in Nat
  /\ x.mapped \cup x.selected \cup x.fs_state \subseteq x.alive
  /\ x.input \in Windows \cup {NoWindow}
  /\ Range(x.stack) = Windows /\ Len(x.stack) = Cardinality(Windows)
  /\ Range(queue) \subseteq [type : {"request", "map", "unmap", "destroy"}, window : Windows]

\* Every managed window is in one list, once, the list of the workspace the
\* index gives; every cursor points into its list.
WindowsIndexed ==
  /\ DOMAIN core.window = DOMAIN core.window_workspace
  /\ Range(core.window_workspace) \subseteq DOMAIN core.workspaces
  /\ DOMAIN core.workspaces = DOMAIN core.wsman.ws_owner
  /\ \A ws \in DOMAIN core.workspaces :
       LET s == core.workspaces[ws]
       IN  /\ Range(s.windows) = {w \in DOMAIN core.window : core.window_workspace[w] = ws}
           /\ \A i, j \in DOMAIN s.windows : s.windows[i] = s.windows[j] => i = j
           /\ IF s.windows = <<>> THEN s.current = 0 ELSE s.current \in DOMAIN s.windows

\* Lists, index, cursors and the server's books about windows are sound.
WindowsSound == TypeOK /\ WindowsIndexed

\* When nothing is pending, the managed windows on the screen are the ones
\* Core takes to be visible, all of them on workspaces that are shown.
ScreenMatchesCore ==
  Settled =>
    \A w \in DOMAIN core.window :
      /\ w \in x.mapped <=> is_visible(core, w)
      /\ is_visible(core, w) => is_workspace_visible(core, core.window_workspace[w])

\* While clients keep their windows mapped, no order of switches, events and
\* frames loses one: when nothing is pending, every managed window of a shown
\* workspace is on the screen.
NoneLost ==
  Settled =>
    \A w \in DOMAIN core.window \cap Faithful :
      is_workspace_visible(core, core.window_workspace[w]) => w \in x.mapped

\* A window that is destroyed is forgotten, whatever was under way for it:
\* when nothing is pending, every managed window exists.
NoGhosts ==
  Settled => DOMAIN core.window \subseteq x.alive

\* The books are sound, and hold no window that is gone.
WindowsReal == WindowsSound /\ NoGhosts

\* When nothing is pending, no window still expects an unmap of our own.
NoUnmapExpected ==
  Settled => \A w \in DOMAIN core.window : core.window[w].pending_wm_unmaps = 0

\* A window in fullscreen on a shown workspace fills the monitor showing it.
FullscreenFits ==
  Settled =>
    \A w \in DOMAIN core.window :
      is_visible(core, w) /\ covers(core, w) =>
        core.window[w].place =
          WholeOf(core.wsman.monitors[monitor_of(core.wsman, core.window_workspace[w])])

\* The current workspace is in Fullscreen mode exactly while one of its
\* visible windows covers the monitor.
ModeMatches ==
  Settled =>
    (core.workspaces[current_ws(core)].fullscreen <=>
       \E w \in Range(core.workspaces[current_ws(core)].windows) :
         is_visible(core, w) /\ covers(core, w))

FocusedWindow ==
  Workspace_focused(core, core.workspaces[current_ws(core)])

\* The keyboard goes to the window Core takes to be focused.
InputMatchesCore ==
  Settled /\ x.input # NoWindow => x.input = FocusedWindow

\* The focused window is above every covering window of its workspace.
FocusedOnTop ==
  Settled /\ FocusedWindow # NoWindow =>
    \A w \in Range(core.workspaces[current_ws(core)].windows) :
      is_visible(core, w) /\ covers(core, w) /\ w # FocusedWindow =>
        index_of(x.stack, w) < index_of(x.stack, FocusedWindow)

\* Once nothing is pending the desktop is as Core has it: what is on the screen,
\* which workspace is in fullscreen mode, who has the keyboard, who is on top.
DesktopMatches == ScreenMatchesCore /\ ModeMatches /\ InputMatchesCore /\ FocusedOnTop

\* Effects cause events and events cause effects, but never without end:
\* between two acts of clients and user the window manager comes to rest.
AlwaysSettles == []<>Settled

\* What happens to the monitors is what module WorkspaceTopology allows.
Topology == INSTANCE WorkspaceTopology WITH wsman <- core.wsman, settings <- core.settings
TopologySpec == Topology!Spec
=============================================================================
