----------------------------- MODULE X11Restart ------------------------------
(***************************************************************************)
(* Restarts of the window manager on X11: what Runtime saves for the next  *)
(* process (save_restart_state), what that process finds                   *)
(* (X11Backend::scan_existing_windows) and what it makes of it             *)
(* (adopt_existing_windows).                                               *)
(*                                                                         *)
(* A process ends by executing itself again or by dying.  Until the next   *)
(* one selects SubstructureRedirect clients act on the X server alone:     *)
(* nothing is redirected and no event is kept.  The identifier of a window *)
(* that is gone may be given to a new one.                                 *)
(*                                                                         *)
(* WM_STATE, which only the scan reads, is the set iconic here.  Where the *)
(* X server has an adopted window is its Own place.                        *)
(***************************************************************************)
EXTENDS X11Backend

VARIABLES
  phase,    \* "run", "stopping", "down", "starting", "scanned"
  file,     \* the state file, or NoFile
  iconic,   \* the windows whose WM_STATE is IconicState
  scan,     \* StartupSnapshot
  left,     \* history: what the last process managed that is still there
  exposed   \* history: windows adopted visible on a workspace that is not shown

restartVars == <<core, x, queue, phase, file, iconic, scan, left, exposed>>

Empty  == [w \in {} |-> 0]
NoFile == [shown |-> <<>>, windows |-> Empty]
NoScan == [shown |-> <<>>, windows |-> <<>>]
-----------------------------------------------------------------------------
(* WM_STATE.                                                               *)

\* Nothing is written for a window Core has forgotten by then: a window that
\* is unmanaged keeps the state it had.
ewmh_on_window_unmapped(icons, k, w) == icons \cup ({w} \cap DOMAIN k.window)

ewmh_normal(icons, k, w) ==
  IF find_window_in_all(k, w) /\ ~ k.window[w].hidden_by_workspace THEN icons \ {w} ELSE icons

\* What a frame does to it: the effects, in order.
frame_states(icons, k) ==
  FoldLeft(LAMBDA acc, e : IF ~ find_window_in_all(k, e.window) THEN acc
                           ELSE IF e.kind = "map" THEN acc \ {e.window}
                           ELSE IF e.kind = "unmap" THEN acc \cup {e.window} ELSE acc,
           icons, k.effects)

\* Mutant: a window mapped on a hidden workspace is not marked.
event_states_visible(icons, e, k) ==
  IF e.type = "unmap" THEN ewmh_on_window_unmapped(icons, k, e.window)
  ELSE IF e.type = "request" THEN ewmh_normal(icons, k, e.window) ELSE icons

\* What handling the event e does, that leaves Core at k.
event_states(icons, e, k) ==
  CASE e.type = "unmap"   -> ewmh_on_window_unmapped(icons, k, e.window)
    [] e.type = "request" -> IF is_workspace_visible(k, k.window_workspace[e.window])
                             THEN ewmh_normal(icons, k, e.window)
                             ELSE ewmh_on_window_unmapped(icons, k, e.window)
    [] OTHER -> icons
-----------------------------------------------------------------------------
(* Saving and loading.                                                     *)

saved_window(k, w) ==
  [ws |-> k.window_workspace[w], floating |-> k.window[w].floating,
   fullscreen |-> k.window[w].fullscreen, borderless |-> k.window[w].borderless]

save_restart_state(k) ==
  [shown |-> k.wsman.active_ws, windows |-> [w \in DOMAIN k.window |-> saved_window(k, w)]]

\* The windows to manage, bottom of the stack first: those of the file, and
\* those that are on the screen or iconic.
scan_existing_windows(s, f, icons) ==
  SelectSeq(s.x.stack, LAMBDA w : /\ w \in s.x.alive
                                  /\ w \in DOMAIN f.windows \cup s.x.mapped \cup icons)

load_restart_state(f) == NoFile
-----------------------------------------------------------------------------
(* Adoption.                                                               *)

\* What the file says of a window, in the order of the commands.
restore_window(k, w, was) ==
  LET assigned   == IF is_ws_valid(k.wsman, was.ws) THEN move_window_to(k, was.ws, w) ELSE k
      floated    == [assigned EXCEPT !.window[w].floating = was.floating]
      filled     == IF was.fullscreen THEN SetWindowFullscreen(floated, w, TRUE) ELSE floated
  IN  IF was.borderless THEN FocusWindow(SetWindowBorderless(filled, w), w) ELSE filled

\* Mutant: the window is not marked hidden before the workspaces are shown.
adopt_as_visible(k, snap, rule) ==
  LET w     == snap.window
      known == EnsureWindow(k, w, IF snap.from_restart THEN snap.was.ws ELSE 0)
      there == SetWindowMapped(known, w, snap.currently_viewable)
  IN  IF snap.from_restart THEN restore_window(there, w, snap.was)
      ELSE invoke_window_rules(there, w, rule)

\* rule is the workspace the user's rules send the window to: they leave the
\* windows of the file alone.
adopt_window(k, snap, rule) ==
  LET w     == snap.window
      known == EnsureWindow(k, w, IF snap.from_restart THEN snap.was.ws ELSE 0)
      hid   == SetWindowHiddenByWorkspace(SetWindowMapped(known, w, snap.currently_viewable),
                                          w, TRUE)
      back  == IF snap.from_restart THEN restore_window(hid, w, snap.was) ELSE hid
      put   == [back EXCEPT !.window[w].place = Own]
  IN  IF snap.from_restart THEN put ELSE invoke_window_rules(put, w, rule)

\* Monitor i shows what it showed when the file was written, or what it shows.
restore_monitors(k, shown) ==
  FoldLeft(LAMBDA acc, i :
             SwitchWorkspace(acc, IF i \in DOMAIN shown /\ is_ws_valid(acc.wsman, shown[i])
                                  THEN shown[i] ELSE acc.wsman.active_ws[i], i),
           k, [i \in DOMAIN k.wsman.monitors |-> i])

\* Mutant: only the focused monitor is switched.
switch_focused_only(k, sn) ==
  SwitchWorkspace(k, k.wsman.active_ws[k.wsman.focused_monitor], 0)

switch_after_adoption(k, sn) ==
  IF \E i \in DOMAIN sn.windows : sn.windows[i].from_restart
  THEN restore_monitors(k, sn.shown)
  ELSE SwitchWorkspace(k, k.wsman.active_ws[k.wsman.focused_monitor], 0)

adopt_existing_windows(k, sn, rules) ==
  IF sn.windows = <<>> THEN k
  ELSE switch_after_adoption(
         FoldLeft(LAMBDA acc, snap : adopt_window(acc, snap, rules[snap.window]), k, sn.windows), sn)

\* drain_events: X11Backend's on(WindowAdopted) of every window and its
\* on(WorkspaceSwitched) of the workspaces shown now.
drain_adopted(s, sn) ==
  FoldLeft(ewmh_on_workspace_switched,
           FoldLeft(LAMBDA acc, snap : ewmh_on_window_mapped(acc, snap.window), s, sn.windows),
           IF sn.windows = <<>> THEN <<>> ELSE s.core.wsman.active_ws)

seen(sn, viewable) ==
  {sn.windows[i].window : i \in {j \in DOMAIN sn.windows :
                                   sn.windows[j].currently_viewable = viewable}}

adopted_states(icons, k, sn) ==
  (icons \ {w \in seen(sn, TRUE) : ~ k.window[w].hidden_by_workspace}) \cup seen(sn, FALSE)
-----------------------------------------------------------------------------
(* Actions.                                                                *)

RestartInit ==
  /\ Init
  /\ phase = "run" /\ file = NoFile /\ iconic = {} /\ scan = NoScan
  /\ left = [shown |-> <<>>, mons |-> <<>>, windows |-> Empty] /\ exposed = {}

\* A window is no longer exposed once its workspace is shown.
Settle == exposed' = {w \in exposed \cap DOMAIN core'.window :
                        ~ is_workspace_visible(core', core'.window_workspace[w])}

\* A step of the window manager or of a client while it runs.
Running(A) ==
  /\ phase \in {"run", "stopping"} /\ A /\ Settle
  /\ UNCHANGED <<phase, file, scan, left>>

Pump ==
  /\ Running(PumpEvent)
  /\ iconic' = event_states(iconic, Head(queue), core') \cap x'.alive

Render == phase = "run" /\ Running(RenderFrame) /\ iconic' = frame_states(iconic, core) \cap x.alive

\* Clients and user, also in the tick that asked for the restart.
Act(A) == Running(A) /\ iconic' = iconic \cap x'.alive

\* request_exec_restart, when the configuration parses.
RequestRestart ==
  /\ phase = "run" /\ CanAct
  /\ file' = save_restart_state(core) /\ phase' = "stopping"
  /\ UNCHANGED <<core, x, queue, iconic, scan, left, exposed>>

\* What the session is when a process ends: a window is Lost when nothing says
\* where it was, or when the file no longer says it truly.
Lost == [ws |-> 0]

\* The windows a process leaves: those on the screen and those it had hidden.
\* The others are on the way in, or unmapped by their clients.
survivors(s) ==
  {w \in DOMAIN s.core.window :
     w \in s.x.mapped \/ (s.core.window[w].hidden_by_workspace /\ w \notin exposed)}

leave(s, f) ==
  [shown   |-> IF f = save_restart_state(s.core) THEN f.shown ELSE <<>>,
   mons    |-> s.core.wsman.monitors,
   windows |-> [w \in survivors(s) \cap s.x.alive |->
                  IF /\ w \in DOMAIN f.windows
                     /\ f.windows[w] = saved_window(s.core, w)
                  THEN f.windows[w] ELSE Lost]]

Ends(s, icons) ==
  /\ phase' = "down" /\ core' = [s.core EXCEPT !.effects = <<>>]
  /\ x' = [s.x EXCEPT !.selected = {}] /\ queue' = <<>> /\ scan' = NoScan
  /\ iconic' = icons \cap s.x.alive /\ exposed' = {}
  /\ left' = leave(s, file) /\ UNCHANGED file

\* The last frame of the tick, then execvp.  If it fails the next process is
\* one the user starts.
Exec ==
  /\ phase = "stopping"
  /\ LET s == apply_core_backend_effects(here)
     IN  Ends(s, frame_states(iconic, core))

Crash == phase \in {"run", "stopping"} /\ Ends(here, iconic)

\* The next process: X11Backend selects SubstructureRedirect, Core is
\* initialised with the monitors, and the pointer is over monitor m.
Connect(mons, c, m) ==
  /\ phase = "down" /\ phase' = "starting" /\ m \in DOMAIN mons
  /\ core' = focus_monitor_at_point(
               ApplyMonitorTopology(
                 [wsman |-> init_from_defs(mons, c), settings |-> c,
                  workspaces |-> [ws \in DOMAIN c.pins |-> empty_workspace],
                  window |-> [w \in {} |-> new_window],
                  window_workspace |-> [w \in {} |-> 0], effects |-> <<>>], mons), m)
  /\ UNCHANGED <<x, queue, file, iconic, scan, left, exposed>>

snapshot(s, f, w) ==
  [window |-> w, currently_viewable |-> w \in s.x.mapped, from_restart |-> w \in DOMAIN f.windows,
   was |-> IF w \in DOMAIN f.windows THEN f.windows[w] ELSE Lost]

Scan ==
  /\ phase = "starting" /\ phase' = "scanned"
  /\ LET found == scan_existing_windows(here, file, iconic)
     IN  /\ scan' = [shown |-> file.shown,
                     windows |-> [i \in DOMAIN found |-> snapshot(here, file, found[i])]]
         /\ x' = [x EXCEPT !.selected = Range(found)]
  /\ file' = load_restart_state(file)
  /\ UNCHANGED <<core, queue, iconic, left, exposed>>

Adopt(rules) ==
  /\ phase = "scanned" /\ phase' = "run"
  /\ LET k == adopt_existing_windows(core, scan, rules)
     IN  /\ Becomes(drain_adopted([here EXCEPT !.core = k], scan))
         /\ iconic' = adopted_states(iconic, k, scan) \cap x.alive
  /\ exposed' = {w \in seen(scan, TRUE) :
                   ~ is_workspace_visible(core', core'.window_workspace[w])}
  /\ scan' = NoScan /\ left' = [shown |-> <<>>, mons |-> <<>>, windows |-> Empty]
  /\ UNCHANGED file

\* A client while no process runs, or while one starts: it maps its window,
\* unmaps it, destroys it, or a new one takes an old identifier.
Away(s, icons, gone) ==
  /\ phase \in {"down", "starting", "scanned"} /\ Len(queue) <= MaxQueue
  /\ x' = s.x /\ queue' = IF phase = "down" THEN <<>> ELSE s.queue
  /\ iconic' = icons
  /\ left' = [left EXCEPT !.windows = Restrict(@, DOMAIN @ \ gone)]
  /\ UNCHANGED <<core, phase, file, scan, exposed>>

\* Unless Remaps, no client asks again for a window that will be adopted.
AwayMap(w) ==
  /\ w \in x.alive \ x.mapped /\ \A i \in DOMAIN queue : queue[i].window # w
  /\ phase = "down" \/ Remaps \/ w \notin iconic \cup DOMAIN file.windows \cup x.selected
  /\ Away(IF phase = "down" THEN x_map(here, w)
          ELSE [here EXCEPT !.queue = Append(@, [type |-> "request", window |-> w])],
          iconic, {})

AwayUnmap(w) == w \in x.mapped \ Faithful /\ Away(x_unmap(here, w), iconic, {w})

AwayDestroy(w) ==
  /\ w \in x.alive
  /\ LET s == x_unmap(here, w)
     IN  Away([s EXCEPT !.queue = @ \o copies(s, "destroy", w),
                 !.x.alive = @ \ {w}, !.x.selected = @ \ {w}, !.x.fs_state = @ \ {w}],
              iconic \ {w}, {w})

AwayCreate(w) ==
  /\ phase = "down" /\ w \in Windows \ x.alive
  /\ Away([here EXCEPT !.x.alive = @ \cup {w}], iconic, {})

RestartNext ==
  \/ Pump \/ Render \/ RequestRestart \/ Exec \/ Crash \/ Scan
  \/ \E mons \in MonitorLists, c \in Configs : \E m \in DOMAIN mons : Connect(mons, c, m)
  \/ \E rules \in [Windows -> {0} \cup DOMAIN core.workspaces] : Adopt(rules)
  \/ \E w \in Windows :
       \/ Act(ClientMap(w)) \/ Act(ClientUnmap(w, FALSE)) \/ Act(ClientDestroy(w))
       \/ \E enabled \in BOOLEAN : Act(Fullscreen(w, enabled))
       \/ \E ws \in DOMAIN core.workspaces :
            find_window_in_all(core, w) /\ Act(Command("move", MoveWindowToWorkspace(core, w, ws)))
       \/ AwayMap(w) \/ AwayUnmap(w) \/ AwayDestroy(w) \/ AwayCreate(w)
  \/ \E ws \in DOMAIN core.workspaces : Act(SwitchTo(ws))
  \/ Act(Command("float", ToggleFocusedWindowFloating(core)))

RestartSpec == RestartInit /\ [][RestartNext]_restartVars
-----------------------------------------------------------------------------
(* Properties.                                                             *)

\* The file is there only from a request to restart until the next process
\* has loaded it, and nothing a client destroyed is iconic, mapped or selected.
RestartTypeOK ==
  /\ phase \in {"run", "stopping", "down", "starting", "scanned"}
  /\ iconic \cup x.mapped \cup x.selected \subseteq x.alive
  /\ DOMAIN file.windows \cup DOMAIN left.windows \subseteq Windows
  /\ phase = "run" => file = NoFile

Up == phase = "run" /\ Settled

\* Every window the last process managed, and whose client kept it, is
\* managed by the next one: after exec because the file names it, after a
\* crash because it is on the screen or iconic.
NoneAbandoned ==
  [][phase = "scanned" /\ phase' = "run" =>
       DOMAIN left.windows \subseteq DOMAIN core'.window]_restartVars

\* Exec preserves the session: a window whose entry in the file was still
\* true at the end has its workspace and its state again.  Fullscreen it may
\* also be because it asked for it while it was hidden.
SessionKept ==
  [][phase = "scanned" /\ phase' = "run" =>
       \A w \in DOMAIN left.windows :
         left.windows[w] # Lost /\ is_ws_valid(core'.wsman, left.windows[w].ws)
           => saved_window(core', w) \in
                {left.windows[w]} \cup {[left.windows[w] EXCEPT !.fullscreen = TRUE] :
                                          v \in x.fs_state \cap {w}}]_restartVars

\* If the monitors are the same, each shows the workspace it showed.
ShownRestored ==
  [][/\ phase = "scanned" /\ phase' = "run" /\ left.mons = core.wsman.monitors
     /\ \E w \in DOMAIN left.windows : left.windows[w] # Lost
     => \A m \in DOMAIN left.shown :
          is_ws_valid(core.wsman, left.shown[m]) => core'.wsman.active_ws[m] = left.shown[m]]_restartVars

\* "Exec-restart flow that preserves session state": windows and monitors.
SessionRestored == SessionKept /\ ShownRestored

\* Once the new process is at rest, the windows it adopted on the workspaces
\* shown are on the screen, and the others are not.
AdoptedOnScreen ==
  Up => \A w \in DOMAIN core.window \ exposed :
          w \in x.mapped <=> is_workspace_visible(core, core.window_workspace[w])

\* What adoption leaves is sound, and on the screen as Core has it.
Adopted == RestartTypeOK /\ AdoptedOnScreen
=============================================================================
