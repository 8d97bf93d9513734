# SirenWM: a TLA+ verification project

SirenWM is a tiling window manager in C++ with a Lua configuration, an X11
backend and an experimental Wayland backend. This directory holds TLA+ modules
that model its core, its two backends and the processes around them, TLC configurations that check them on small instances, and
TLAPS proofs of the main invariants for every instance. `PROJECT.json` maps
every definition to the lines it models and lists runs, mutants, findings,
hazards and theorems.

## 1. The system

| part | state | operations | talks to |
|---|---|---|---|
| `WorkspaceManager` (core/src/core/workspace_manager.cpp) | monitors, workspaces with window lists and a cursor, owner of each workspace, pool and active position of each monitor, pools parked for absent outputs, focused monitor, index from window to workspace | set monitors, assign workspaces, apply definitions, switch, focus, move, add, remove, zoom | called by `Core` only |
| `Core` (core_dispatch.cpp) | the manager, window states, settings, list of pending backend effects | one reducer per command atom or composite | emits effects and domain events |
| `Runtime` (core/src/runtime/runtime.cpp) | lifecycle state, request flags, event queue, modules, settings store | tick: poll, pump, reload, drain, render; start, stop, reload, restart | owns `Core`, backend, modules, Lua |
| settings store, configuration loader, Lua host | typed settings with a snapshot, Lua VM, handlers, timers | snapshot, clear, apply, validate, commit, roll back | called by `Runtime` |
| X11 backend (backends/x11) | per-window counter of its own unmaps, EWMH properties, tray, ports | event handlers, effects of a frame, adoption of existing windows | X server (asynchronous), `Core` |
| Wayland backend, display server, IPC (backends/wayland, libwlserver, libipc) | surfaces, seat, xdg_shell roles, Xwayland, channel, shared buffers | protocol handlers, snapshot and re-attachment | two processes over a socket |
| monitor layout and monitor port (core/src/monitor_layout.cpp, backends/x11/src/ports/monitor_port.cpp) | the monitors of the configuration, RandR's CRTCs and screen | validate, compose, apply, read back | `Runtime`, X server |
| modules (bar, keybindings, keyboard, audio, sysinfo, debug) | bars, trays and insets, drag state, layouts of keys, cached system values | event handlers | events of `Runtime`, commands to `Core`, tray clients |
| child process registry (src/process) | a lock, a file of roles and pids | spawn, adopt, shut down | display server processes; meant to survive exec-restart |

What makes it hard:

* **Two copies of one fact.** Owner, pool, active position and
  `Monitor.active_ws` say four times which workspace is where; list and index
  say twice where a window is; `Workspace.mode` caches what its windows say.
* **Hot-plug and reload** replace the monitor list and the workspace
  definitions under ids that others keep.
* **X11 is asynchronous.** The window manager tells its own unmaps from a
  client's by counting them, while maps, unmaps and destroys are in flight; and
  events are reported twice, through the root and through the window.
* **Effects are queued.** Core changes its state at once; the screen, the
  keyboard focus and the stacking order follow with the next frame, and events
  of the earlier state can arrive in between.
* **A reload can fail half way**, and an exec-restart hands its state to
  another process through a file.
* **Processes outlive each other.** A window manager that is killed or execs
  leaves windows, a display server, a lock and a file for the next one, and
  clients go on in between.
* **Feedback.** Applying a monitor layout raises the events that ask for it
  again; rebuilding the bars reparents tray icons, whose notifications look
  like acts of their clients.

What makes each part correct: every workspace in one pool and shown at most
once; every window in one list that its index names, the cursor inside the
list; re-plugging an output restores it; a hot-plug leaves the others alone;
the screen, the keyboard and the stacking agree with Core once nothing is
pending, and that state is always reached; a failed reload changes nothing; a
restart finds every window again and puts it back; a drag ends and leaves its
window where it is shown; outputs end where the configuration puts them, each
with its bar; tray icons survive; window manager and display server agree on
the surfaces whichever of them was there first; a key that was pressed is
released; one display server, and none forgotten.

## 2. Modules

| module | models | state and actions |
|---|---|---|
| `Ranking` | the small sequence helpers of workspace_manager.cpp (`index_of`, filtering, ordering a set by a key) | operators |
| `WorkspaceManager` | the manager's operations on monitors and workspaces | operators on a record `t` with the members of the class: `monitors`, `ws_owner`, `monitor_pools`, `monitor_active_local`, `active_ws` (of each `Monitor`), `parked` (`parked_pools` and `parked_active_ws`), `focused_monitor` |
| `WorkspaceTopology` | abstract specification: which monitor owns, lists and shows which workspace | `wsman`, `settings`; one action per command that reaches them |
| `CoreDispatch` | Core's reducers and the window half of the manager | operators on a record `k`: `wsman`, `settings`, `workspaces`, `window`, `window_workspace`, `effects` |
| `X11Backend` | the X11 backend around Core, with the X server and its clients | `core`, `x`, `queue`; one action for the head of the event queue, one for a frame, one per act of clients and user |
| `Runtime` | the lifecycle of the process, the requests of signals and Lua, the transactional reload, the fallback to the default configuration and exec-restart | `state` and `pc` (run() and tick()), `flags`, `disk` and `path` (the files and `Core::config_path`), `live` (what configurations left in store, Core, Lua host and modules), histories `loaded` and `asked`; one action per step of the main thread and one per request |
| `X11Input` | keys, buttons, motions and ConfigureNotify of events.cpp, drags and resizes of keybindings.cpp, the flush of geometry; composed with `X11Backend` | adds `input` (drag, key state, pending flushes) and `dev` (the X server's geometry, buttons, grab, key); `Tick` is a whole tick, with motions coalesced as in pump_events |
| `X11Restart` | save_restart_state, scan_existing_windows, adopt_existing_windows, WM_STATE; composed with `X11Backend` | adds `phase`, `file`, `iconic`, `scan`; exec and crash at any moment, clients that act while no window manager runs |
| `MonitorLayout` | monitor_layout.cpp and the validation of the monitor section | operators on a configuration |
| `MonitorPort` | X11MonitorPort and the RandR server it talks to | operators on a server state `x`; extends `MonitorLayout` |
| `TrayHost` | X11TrayHost and the X server's view of icons | operators on a state `s` with `bars`, `icon`, `selection`, `events` |
| `BarModule` | from the cable to the tray: start, RandR events, reload, refresh of the monitors, rebuild of bars, insets and trays, icons | `config`, `x`, `monitors_`, `tray`, `posted`, ...; one action per half of a tick and one per act of user or client; extends `MonitorPort` and `TrayHost` |
| `ChildProcessRegistry` | main.cpp of the Wayland build, the registry, its lock and its file | `wm`, `proc`, `path`, `file`, `locked`; one action per step of main, per death, per reuse of a pid |
| `DisplayState` | the display server's state and its message handlers (display_state.cpp, backend_control_server.cpp) | operators on a record `d` |
| `DisplayServerBackend` | the Wayland backend around `CoreDispatch`, the control server, and the channel between them; extends `CoreDispatch` and `DisplayState` | `core`, `wm`, `ds`, `ready`; the server's poll and what it serves are separate steps |
| `WaylandSurfaces` | the client side of the display server: compositor, xdg_shell, seat, output_x11, xwm, xwayland; extends `DisplayState` | `d`, `surf`, `seat`, `out`, `xwl`; one action per request, event or command |
| `WorkspaceManagerProofs`, `WorkspaceTopologyProofs`, `CoreDispatchProofs`, `X11BackendProofs`, `DisplayServerBackendProofs`, `RuntimeProofs`, `ChildProcessRegistryProofs`, `WaylandSurfacesProofs` | proofs | |
| `MCWorkspaceTopology`, `MCX11Backend`, `MCX11Input`, `MCX11Restart`, `MCBarModule`, `MCRuntime`, `MCDisplayServerBackend`, `MCWaylandSurfaces` | instances for TLC (`ChildProcessRegistry` needs none) | |

`X11Backend` extends `CoreDispatch`, which extends `WorkspaceManager`, which
extends `Ranking`. `WorkspaceTopology` also extends `WorkspaceManager`, and
`X11Backend` instantiates it with `wsman <- core.wsman, settings <-
core.settings`: the property `TopologySpec` says that Core with windows, events
and effects only does to the monitors what `WorkspaceTopology` allows. `Runtime`
stands alone: the reload of the topology is the action `Reload` of the others,
the reload of everything else is here. `X11Input` and `X11Restart` extend
`X11Backend`, so that drags and restarts meet the same Core, the same clients
and the same event queue. `DisplayState` is shared by the two modules about the
display server: one looks at it from the window manager, one from the clients.

Conventions. Ids count from 1, so that 0 is the code's -1. Definitions keep the
names of the source. A reducer is an operator from the state to the state it
leaves, so a command that calls others is their composition and an action
models a whole handler. Operators whose comment starts with "Mutant" are wrong
on purpose: each is a plausible slip of the definition below it, and a run must
notice when it is used instead.

Abstractions:

* A monitor is its output name; aliases are looked up beforehand, so a
  configuration is the list of pins (one per workspace) and the primary.
* The rectangle of a window is its `place`: its own, a tile of an output, or
  the whole of an output. Layout arithmetic, borders, gaps, insets, sizes and
  flushes of geometry are left out, with the effects that carry them.
* Events of Core (`WorkspaceSwitched`, ...) are drained in the tick that posts
  them, before the frame is rendered; the backend's reaction is applied in the
  step that posts them.
* An X request takes effect when it is issued, and what it causes is seen when
  its event reaches the head of `queue`: order of requests and order of events
  are kept, as on one X connection.
* Window rules (Lua) appear as the choice of a workspace for a new window.
* In `Runtime` a configuration is a record: a tag, the parts it sets, and how
  loading it ends (`ok`, a syntax error, an error while it runs, a value the
  store rejects, a set of values `validate_settings` rejects). Each part of the
  live state holds the tag of the configuration it comes from. An error while a
  script runs may come after any of its statements, hence any subset of its
  parts. The file is read twice, by `check_syntax` and by the execution, and may
  be edited in between. Key bindings run in `drain_events`. `soft_restart_pending`
  is left out, as nothing calls `request_soft_restart`.
* In `X11Input` of a rectangle only the output it is on is kept. A tick is one
  step, and what others do meanwhile is in the queue of the next one. There is
  one key with one binding, which switches the workspace; the release and the
  press of an auto-repeat arrive together, as handle_key_event expects.
* In `X11Restart` Core is that of `X11Backend`; the state file holds what
  save_restart_state writes, not its text. Adoption leaves out the metadata of a
  window (runtime.cpp:143-154), which makes a window of fixed size float.
* In `MonitorPort` the server refuses a screen too small for an active CRTC, and
  a CRTC that leaves the screen; every accepted setting raises an event, as the
  comments of configure_output say some drivers do. Sizes are a few units.
* In `TrayHost` a tray is its window, its list of icons and whether it is
  mapped. New windows get ids that none before them had. Of the size of an icon
  only is kept whether add_icon refuses it (`large`), fixed when the icon is made;
  docked icons are not resized. No other program takes the tray selection
  between set and get (tray_host.cpp:49-54), so that creating a tray succeeds and
  rebuild_trays skips no monitor (bar_module_core.cpp:642-645).
* In `DisplayServerBackend` a tick of the window manager is one step; channel
  messages are whole and in order, and are lost with the connection. The place
  of a surface is that of `CoreDispatch`. During a grab a button is about the
  surface of the drag. Buttons that the model leaves out: a release that can end
  no drag, and a press between the end of a drag and the reading of its ungrab.
* In `WaylandSurfaces` clients follow the protocol, and the window manager may
  ask for anything about a surface it was told of. Keyboard and pointer share no
  state, so a behaviour uses one of them. Of a client's keyboards their number is
  kept; the one given up may be the one in use, the first, or another. X
  events that are unread when Xwayland dies are lost; the code can still read
  them, and would then look up a wl_surface of a client that is freed (xwm.cpp:244).
* In `ChildProcessRegistry` there is one role. Signals take effect when the
  process runs. The lock file can be opened and locked, and the state file
  written and renamed: the code goes on without a lock when open or flock fails
  (child_process_registry.cpp:205-208), and without a file when it cannot be
  written (184-197), and then neither `OneRegistry` nor `NoneForgotten` is promised.
* Variables marked "history" record what happened, for the properties to
  exclude it or to speak of it; no action reads them.
* Self-managed clients (Wine, Proton), transients, explicit hiding, title and
  hint properties and pointer barriers are not modelled.

## 3. Runs

| run | what it shows |
|---|---|
| `topology` | three outputs, seven monitor lists (from none to all three connected, two in both orders), two configurations, one of three free workspaces and one of two that are pinned to outputs that may come late: type correctness, `PoolsPartition`, `ShownConsistently`, `ReplugRestores`, `SurvivorsKeepShowing`, `FocusStaysOnOutput` |
| `desktop` | one monitor, two workspaces, a plain and a covering window, all commands, each met at rest: lists and index, screen, counters, fullscreen place and mode, keyboard, stacking, and `AlwaysSettles` |
| `change` | `WindowsSound` and `DesktopMatches` with two outputs that come and go and reloads between two and three workspaces, which may also connect a monitor, and refinement of `WorkspaceTopology` (`TopologySpec`) |
| `race` | user and clients act while up to two events and three effects are pending: no window of a shown workspace is lost, lists stay consistent, nothing destroyed stays managed |
| `input` | two outputs, three workspaces, one window that floats, resizes, covers, goes and returns, one button and one key: a drag has a window and a grab and ends with its button, the X server has windows where Core believes them, late reports move no tile, a dropped window is shown, every press runs its binding exactly once, and once more only for a FocusOut while the key is held |
| `runtime` | edits, signals, key bindings and clients act between any two steps of the main thread: whatever fails, store, settings, bar, bindings and grabs come from one configuration, the last that was applied (`Coherent`); a reload asked for after the last edit is never lost (`LatestLoaded`) |
| `restart` | a session with a second output and a third workspace that may be gone when the next process starts: every managed window is managed again, returns with its state to its workspace, and is on the screen exactly if that workspace is shown |
| `outputs` | every way to place three outputs relative to each other, valid or not, and cables, reloads and tray icons in every order: `LayoutSound`, `OutputsPlaced`, `BarsSound`, `IconsSound`; the reaction to RandR events ends (`Settles`), and who asks for a place in the tray gets one, unless the icon is too large, which then stays on the root (`Docked`) |
| `children` | two window managers, two pids, two sockets: one registry at a time, memory and file agree, no server forgotten, never two, and starting ends |
| `exec_restart` | violation, section 4 |
| `display` | two surfaces, two window managers one after the other, a rule that sends a surface to the hidden workspace, two bars, three keys of which two fit into a message: mirror, screen, focus, grabs and bar agree when everything sent has been read |
| `surfaces` | one Wayland client, Xwayland with one window mapped twice and both ways to name its surface, a client with none, one or two keyboards and pointers: surfaces have their objects, enter and leave are paired, no key is stuck, except for a client that gave up one of two keyboards; X windows are shown with the right surface, or as section 4 says, for every order in which the two connections are read |

A property of a run is often a conjunction of named parts, each with its own
comment in the module:

| property | parts |
|---|---|
| `WindowsSound`, `WindowsReal` | `TypeOK` and `WindowsIndexed`; with `NoGhosts` |
| `DesktopMatches` | `ScreenMatchesCore`, `ModeMatches`, `InputMatchesCore`, `FocusedOnTop` |
| `DragSound`, `GeometrySound` | `InputTypeOK`, `DragHasWindow`, `GrabMatchesDrag`, `DragEnds`; `GeometryMatches`, `TiledInPlace` |
| `Adopted`, `SessionRestored` | `RestartTypeOK`, `AdoptedOnScreen`; `SessionKept`, `ShownRestored` |
| `BarsSound`, `IconsSound` | `TypeOK`, `BarsMatch`; `IconsKept`, `IconsShown` |
| `OneWriter`, `ServersKept` | `TypeOK`, `OneRegistry`, `FileMatches`; `NoneForgotten`, `OneServer` |
| `MirrorSound`, `DisplayMatches` | `TypeOK`, `MirrorMatches`; `ScreenMatches`, `FocusMatches`, `BarDrawn` |
| `SurfacesSound`, `SeatMatches` | `TypeOK`, `Backed`; `KeyboardMatches`, `PointerMatches`, `NoStuckKey` |

Bounds. Two windows are enough for a window before, at and behind the cursor
and for one covering the other; two workspaces for shown and hidden; two
outputs connected of three for replacing one by another, and all three for
one that comes while another keeps the focus. `Calm` makes clients
and user wait until nothing is pending, which is the situation the properties
about rest are checked in with all commands; the race runs lift it and bound
instead the queue (`MaxQueue`), the effects (`MaxEffects`) and the unmaps a
window expects (`MaxUnmaps`) at the moment somebody acts. Three quick switches
fit into these bounds. In `race` one client maps once (`Faithful`) and one
withdraws, maps again and destroys. `input` and `restart` have one window: a
drag, a restart entry and a WM_STATE are about one window, and what windows do
to each other is the matter of the other X11 runs. `Backlog` and `MaxBurst` bound
what piles up unread between the processes in `display`; `MaxX` what Xwayland
sends ahead. `MaxDevices` is 2: one keyboard given up and one that stays.
`MaxKeyIntercepts`, 64 in the code, is 2 for three bindings. In `outputs` a scene gives what there is at the start and how many
plugs, reloads and acts of clients there may be: two plugs and one reload among
four configurations, or one plug and two acts for an icon of each kind, also beside one that is too
large.
Deadlock is not
checked in the runs about windows, outputs and processes: when all clients are
gone and no command applies, or the start has failed, the system may rest. `MCRuntime` has two configurations that work, of which one
leaves out bindings and layout, one that fails in each way, and a default that
works or is invalid; that is every pair of a configuration in force and one
tried, in every order. Its deadlock check is off as the process may exit.

Fairness. `AlwaysSettles` assumes that the head of the queue is handled again
and again while the queue is not empty, and that effects are applied while
there are any. `Runtime::tick` does both in every round and `run_loop` repeats
it until a stop is requested. Nothing is assumed of clients or user.
`LatestLoaded` assumes that the main thread takes its next
step: `tick` polls for 100 ms at most and no step waits for another process.
`Settles` and `Docked` assume the same of the loop while it has something to
do, and `Docked` that a client answers the MANAGER message with its request, as
the system tray protocol has it; plugs, reloads and other acts are not fair.
`StartEnds` and `RestartComesBack` assume that main runs on, that flock is granted
once nobody has the lock, that a process that was sent SIGTERM dies, and that
attaching ends with a snapshot or an error; crashes and exits are not fair.

## 4. What the checks found

`exec_restart` is a run that TLC refutes: the registry opens its lock file
without O_CLOEXEC, and an flock belongs to the open file, which exec keeps. The
new image opens the file anew and waits for ever for a lock it holds itself.
For the same reason a display server keeps the lock after its window manager
crashed, so that no later one gets to adopt it; `OneRegistry` holds so firmly
because of it. CONFIG.md and README.md promise that a restart preserves the
session.

The other properties hold where they are stated. Where they had to stop is as
instructive: each of the following was met as a counterexample to a stronger
form, and is a behaviour of the code.

Core and X11:

* Topology: update_workspace_defs keeps a monitor's active position while it
  erases earlier entries of its pool (workspace_manager.cpp:416), so dropping
  one workspace changes what a monitor shows although its own stays. A reload
  that changes the monitor list saves and restores by index.
* Hot-plug: a workspace pinned to an output that was absent at the start lives
  on another output until its own is connected, and is then taken from there,
  though it may be the one that is shown or focused (workspace_manager.cpp:494).
  `SurvivorsKeepShowing` and `FocusStaysOnOutput` therefore set aside what the
  outputs that come take with them: what was parked for them, and what is pinned
  to them (`Taken`). That pins count as well was met in a proof that failed.
* Focus: when the focused window goes away (events.cpp:507) the next one is
  focused for Core while the keyboard stays on the root.
* Races: hide, show and hide within one round trip leave the window on the
  screen while its workspace is hidden (events.cpp:401).
* `FullscreenFits` is checked without hot-plug: a covering window that is not
  focused keeps the geometry of a monitor that is gone.
* Reload: one that fails restores store and Core, but the handlers of `siren.on`
  are gone, and windows stay as a `siren.layout.set` of the failed script arranged
  them (runtime.cpp:922). `bar.settings` is filled from the theme before the
  reload (bar_module_core.cpp:436). After a start that fell back to
  `init.lua.default` a reload reads that file again, however often init.lua is
  repaired, which is why `LatestLoaded` is about `path = "init"`.
* Drags: a workspace switch ungrabs the pointer (x11_backend.cpp:99) also during
  a drag, which then has no grab and may miss its release (`torn`); a press on a
  window that is hidden before the press is read starts a drag that nothing
  ends; a motion moves a window made fullscreen or tiled during the drag
  (`loose`).
* Keys: FocusOut clears key_down, so that the auto-repeat after it runs the
  binding again while the key is still held. `KeysMatch` says just this; the
  comment in handle_key_event (events.cpp:877), "Fire keybindings once per
  physical press", has no such exception.

Restart:

* The state is saved when the restart is asked for; what the rest of the tick
  changes is lost. Active workspaces are restored only if some window is
  adopted (runtime.cpp:122).
* A viewable window that adoption places on a hidden workspace is never
  unmapped (`exposed`): it counts as hidden already.
* WM_STATE is not set to Withdrawn when a window is unmanaged, so that after a
  crash a withdrawn window is adopted and shown. A window whose first map was
  pending at the crash is not adopted. If execvp fails the state file stays for
  a later session.

Outputs and tray:

* An output that is connected and whose configured mode does not exist makes
  every apply reset all CRTCs, which raises the events that bring the next:
  `Settles` is about layouts that can be applied (`Feasible`).
* A cable plugged between applying the layout and selecting the events at the
  start is not noticed until the next change (`missed`).
* The screen is enlarged before the CRTCs are set and a shrink is refused while
  one is larger; at the start it can stay larger than the outputs. The choice of
  CRTCs is greedy and can fail where another would succeed.
* validate_settings accepts a disabled primary, and outputs that overlap when
  two are placed on one side of a third; `LayoutSound` is about each output and
  the one it is placed beside.
* The ReparentNotify of an icon that a rebuild put on the root can arrive when
  the icon is in another monitor's tray, and it is docked again: the icon is
  listed twice (bar_module_core.cpp:654).
* An icon without _XEMBED_INFO that is mapped when it docks is unmapped by the
  reparenting, which is taken for its client's wish (tray_host.cpp:228).
* An icon of 256 pixels or more in either direction is refused without an answer
  (tray_host.cpp:387-392); `Docked` says that it stays on the root.

Wayland:

* accept_pending replaces the connection and the read prepared for the old one
  finds nothing on the new, which is closed (display_server.cpp:226). The index
  into the poll set is advanced only if the window manager was readable
  (line 230), so that with a quiet one Xwayland is not dispatched.
* A surface that a previous window manager showed and a rule sends to a hidden
  workspace stays visible (`left`); overlays of a previous window manager are
  never destroyed; a switch and a press in one tick can focus a hidden window
  (`astray`).
* set_keyboard_intercepts sends the first 64 bindings and drops the others
  without a word (display_server_backend.cpp:546-548, backend_protocol.hpp:17);
  `GrabsMatch` is about those that are sent.
* The surface of an X window is looked up once, when it is named. If the request
  that makes it is read later (`early`), nobody looks again; a serial is ignored
  while the window has a surface from an earlier mapping (`again`). Such a window
  is shown with the dead surface of the earlier mapping, or not at all if there
  was none: `XwaylandShown` says which. Override-redirect windows are never shown.
* When a client gives up any of several keyboards, the seat forgets the focus
  (seat.cpp:88-90) although another was told to have it: that surface (`cut`) gets
  neither keys nor leave nor the release of a key that is down, until it is
  entered or left again. `KeyboardMatches` and `NoStuckKey` set it aside.
* send_keyboard_enter leaves the old surface also when the new one has no
  keyboard (`mute`); the seat is not told when the surface under the pointer
  changes without a motion (`adrift`).
* shutdown_owned can send SIGTERM to a stranger that got a recorded pid.

## 5. Proofs

`WorkspaceTopologyProofs` proves six theorems of `WorkspaceTopology!Spec`, for
all outputs, monitor lists and configurations that satisfy
`TopologyAssumption` (output names in a list are distinct, a configuration has a
workspace: `validate_settings` rejects an empty list). Three are about states:

* `TypeCorrect`: `TypeOK` always holds;
* `Partitioned`: `PoolsPartition` always holds;
* `Consistent`: `ShownConsistently` always holds.

None of them is inductive. A hot-plug rebuilds the pools from the owners, so
that pools partition the workspaces needs that owners are monitors that exist;
a returning output reads its parked pool, so that types hold needs that parked
pools name workspaces that exist; `Monitor.active_ws` is a copy, equal to what
the pool selects only if the position is in range. `Invariant` is the
conjunction of `settings \in Configs` with `Sound`, which joins `WellFormed`,
`ListsOwned`, `AllOwned`, `ActiveInPool` and the agreement of `active_ws`. Two weaker states occur between the steps of an
operation: `Draft` (after set_monitors or update_workspace_defs, before the
owners are assigned) and `Refreshed` (pools rebuilt). One lemma per operator of
`WorkspaceManager`, in `WorkspaceManagerProofs`, carries a state from one to the
next (`Rebuild`, `Finish`, `Assign`,
`SetMonitors`, `UpdateDefs`, `SwitchTo`, `RestoreActive`, ...), `Preserved` puts
them together action by action, and the theorems follow from `Implied`.
The module begins with what the proofs need of the ordering of a finite set by
a key: the result lists every element once, in the order of the keys, and two
lists of one set that are both in that order are equal.

The other three are about what a step does to a state:

* `SurvivorsShow`: `SurvivorsKeepShowing` holds of every step;
* `FocusFollows`: `FocusStaysOnOutput` holds of every step;
* `ReplugAlwaysRestores`: `ReplugRestores` always holds.

`Sound` says nothing of where a workspace ought to be, and an output that comes
takes workspaces from the others. The invariant adds `Placed`: no output is
connected twice, and a workspace that is pinned to a connected output is owned
by it (`PinsKept`). `Through` is the core of the argument: a workspace that is
on a monitor after set_monitors and still after assign_workspaces, the two
passes that may move it. `Stays` shows it for the workspaces of an output that
was connected before and that nobody takes, `Returns` for those an output left
when it was disconnected. The lemmas `RebuildKeeps`, `FinishKeeps`, `AssignKeeps`
and `SetMonitorsKeeps` say what a pass leaves alone; `PlugOrders`, `PlugShows`,
`PlugFocuses` and `PlugParks` what a whole hot-plug does to the order of a pool,
what is shown, the focus and what is parked. `ReplugRestores` is about two
hot-plugs in one formula, the output out and in again, so its proof composes
them: `Unplugged` describes the state between, `SamePool` that the pool is
rebuilt in its order, `Back` that the same workspace is shown.

`CoreDispatchProofs` shows what every reducer of Core keeps, for any windows `W`.
`Cores(W)` are the states of Core whose fields have their types and that satisfy
`SoundCore`: the manager underneath is `Sound` (of `WorkspaceManagerProofs`)
and has as many workspaces as Core, the index gives every window a workspace
that exists, every list holds the windows the index gives it, each once, and
every cursor is in its list. There is one lemma per reducer, from `Cores(W)` to
`Cores(W)`, most of them adding `Alike`: the same windows under the same
configuration. The hard ones are the zoom (`Swapped`, `Zooms`: two windows
exchanged), a window that moves (`PutWindow`, `MoveWindow`) and a reload with fewer
workspaces (`TakesOver`, `Dropped`, `Taken`: what the dropped workspaces list is
appended to the one kept, and the windows listed nowhere are no longer indexed).
The folds of the code's loops are the community modules' `FoldLeft` and
`FlattenSeq`, defined by a recursive function on sets of positions. `FoldExists`
shows that this function exists if every step stays in a set `Q`, and `FoldStays`
that its value is then in `Q`. That is enough for Core: its invariant only has to
know that a loop does not leave the sound states, not what it computes.

`X11BackendProofs` carries this to `X11Backend!Spec`, for all windows, commands
and bounds that satisfy `X11Assumption` (finitely many windows, `NoWindow` not
one of them, types of the other constants) and `TopologyAssumption`:

* `AlwaysSound`: `WindowsSound` always holds;
* `AlwaysReal`: `WindowsReal` always holds;
* `TopologyKept`: `PoolsPartition` and `ShownConsistently` of `WorkspaceTopology`
  hold of the manager inside Core.

`Desktops` are the records `[core, x, queue]` with Core in `Cores(Windows)` and
an X server whose books are about windows that exist and whose stack has every
window once. Every handler and every effect stays in it, and `Follows` says what
else it leaves: the windows managed, the windows alive, and a queue that only
gets map and unmap events more. `NoGhosts`, that no managed window is gone when
nothing is pending, is not inductive: a window may be destroyed while it is
managed, and also while its MapRequest is still queued, so that the window
manager manages a window that no longer exists. What is kept is `Doomed`: behind
every such window, or request for one, there is a DestroyNotify in the queue. It
holds because the server queues DestroyNotify last and a handler only adds map
and unmap events. `IndInv` is `Desktops` and `Doomed`. Where the attempt met arms of a
CASE that overlap, so that TLA+ leaves open which one is meant, the model now has
IF and ELSE in the order of the code's tests.

`DisplayServerBackendProofs` proves two theorems of `DisplayServerBackend!Spec`,
for any surfaces, bindings, rules, outputs and bounds that satisfy
`DisplayAssumption` (types; `None` is not a number, and is Core's `NoWindow`) and
`TopologyAssumption`:

* `AlwaysMirrored`: `MirrorSound` always holds;
* `AlwaysGrabbed`: `GrabsMatch` always holds, for every `MaxKeyIntercepts`: what is
  held are the first bindings, as many as fit.

Both speak of two processes at rest, when nothing is unread in either direction.
The inductive invariant `Kept` has to say what the unread messages still make of
each side, for a window manager in any phase:

* `Traced`: read one by one, the messages on their way up turn what the backend
  knows of the surfaces (`Mirror`) into some `M`, and none of them creates an id
  that is known. `Follows` is the run of that reading, so that a tick that reads
  the first `n` messages (`ReadsSome`) leaves a shorter run to the same `M`;
* `Agree`: once the server has answered the request for the snapshot (`Served`),
  `M` is what the server has, and a mapped surface has a size;
* `Owed`: the last message of each kind on its way down (`Leaves`) makes the
  intercepted keys and the grab what the backend wants; where none is left, they
  already are;
* `Marked`: where the hello, the request and the marks of the snapshot may be.
  One snapshot is asked for and sent, all of it is read before the backend
  starts, and no later `begin` can wipe out what is managed;
* `Exact`: Core has a window for exactly the surfaces that are managed, nothing
  before the start and what is mapped and has a size afterwards;
* `Linked`: one connection is the client's, and without one nothing is grabbed.

On the window manager's side every message (`Hears`), posted event (`Drains`) and
effect (`RendersEffect`, `Flushes`) is shown to keep the types of `Managers`, and
either to be silent or to say what it grabs (`Continues`). On the server's side
`Fine` is kept by every command (`DispatchesOne`), by accepting connections that
replace one another (`AcceptsPending`) and by what clients do; `SnapshotSent`
follows the loop of send_snapshot surface by surface (`Partly`, `Telling`). A
send that finds the connection full disconnects the client in the middle of any
of these, which is why `Agree` holds only as long as the connection is served.
The folds over messages are turned into runs, functions from positions to
states (`HearRun`, `DrainRun`, `DescribeRun`, `DispatchRun`), on which `Climb` is
the induction.

`RuntimeProofs` proves `RunsOneConfiguration`: `Coherent` always holds, for all
configurations and defaults that satisfy `ConfigsAssumption` (types) and
`DefaultsAssumption` (the default sets bar and theme, so that nothing a failed
init.lua left in the store at the start shows through). The inductive invariant
is `TypeOK`, `Located` (which `pc` goes with which state) and `Phase`, which
says for every phase what is known of the live state: nothing but leftovers of
a failed init.lua before a configuration was applied, the pending bindings of
the one applied until the modules start, and `Serves` from then on. `Coherent`
alone does not survive `Start`, which applies what `LoadConfig` left pending.

`ChildProcessRegistryProofs` has two theorems, for any window managers, process
ids and socket names that satisfy `RegistryAssumption` (the sets are finite, no
manager's pid is a server's, and the values that stand for the user's session as
a parent and for an empty file are not managers or entries).

`RegistryHasOneWriter`: `OneWriter` always holds.
That at most one window manager is inside is not inductive, because `Lock` looks
at the lock and not at the others. The invariant adds `LockHeld` (whoever is
inside has the locked description, and no two window managers have it: children
may have it too, and so may an image that exec put in a manager's place and that
waits for it) and `WaitsForChild` (`spawn()` waits for a child it has, so that
the entry it saves names a pid). Steps inside go through one lemma,
`InsideKeeps`: memory and file get the same entry, or the manager leaves.

`ServersAreKept`: `ServersKept` always holds, that is, no server is forgotten and
there are never two. Three facts carry it. `SpawneesLock`: a server that a window
manager spawned and that was not told to end has the locked description, which it
inherits, and at most one server has it. `InCharge`: the window manager inside
answers for that server, as the child it waits for or as its entry.
`Accounted`: a server that has the lock is in the file, or is being waited for, or
was when its window manager was killed, the moment that is excluded by the
history `lost`. So a second one would have to be spawned by a
manager inside the lock that answers for none, while the first has the lock.

`WaylandSurfacesProofs` proves three theorems about the display server's client
side, for any clients, surfaces and bounds that satisfy `SurfaceAssumption`
(Xwayland's wl_surfaces are distinct and apart from those of other clients,
`None` is neither a surface nor an id, clients without keyboard or pointer are
clients, `MaxDevices` and the other bounds are numbers):

* `SurfacesAreSound`: `SurfacesSound` always holds;
* `SeatAlwaysMatches`: `SeatMatches` always holds;
* `XwaylandIsShown`: `XwaylandShown` always holds.

`XwaylandShown` speaks of the moment when nothing is in flight, and says
nothing of the moments before. The invariant has to describe those: X events
and Wayland requests travel on two connections and are read in either order.
`Sound` joins what the seat and its clients know of each other (`KeyboardInv`,
`KeyInv`, `PointerInv`), that ids are new when they are given (`FreshInv`), what
a client's surface is (`NativeInv`) and three parts about X windows: what
XWindowManager knows of a window (`WindowInv`); that the X events on their way
lead from what it knows to what the window is, and that only a window's first
event may name its wl_surface, and what was named in vain stays so (`EventInv`);
and, whichever connection is read first, that Xwayland makes each wl_surface it
speaks of once (`MadeInv`) and that the old wl_surface of a window is gone before
the new one exists (`OldInv`), together `OrderInv`. `KeyboardInv` and `KeyInv` speak
of all surfaces, those that were cut off included: they are alive and their client
still has a keyboard. There is one lemma per action, with `DispatchStep` for the X events. That taking
the first event off the queue keeps `EventInv` needs the next event of the same
window, which exists because a set of positions has a least member (`Least`).

Only model-checked:

* liveness (`AlwaysSettles`, `LatestLoaded`, `Settles`, `Docked`, `StartEnds`),
  which is out of the prover's reach;
* the refinement `TopologySpec`. It holds in the run `change`, which has no
  fullscreen requests. With them a reload may end in a window that
  drain_switched puts into fullscreen and focuses, and focusing another monitor
  is then a second step of `WorkspaceTopology` in one step of `X11Backend`.
  `TopologyKept` proves for all commands what the refinement is wanted for;
* `DesktopMatches`, `NoUnmapExpected`, `FullscreenFits` and `NoneLost` of
  `X11Backend`: they compare Core with the screen when nothing is pending, so
  an invariant has to say what the pending effects and the queued events
  together still make of every window, for each of the handlers;
* `DisplayMatches` of `DisplayServerBackend`: what is on the screen depends on
  the last configure, visibility, activation and border of every surface in the
  channel, and on what Core would still send;
* `X11Input`, `X11Restart` and `BarModule`. `X11Input`
  and `X11Restart` add their own state to that of `X11Backend`;
  `MonitorLayout` and `MonitorPort` follow chains of references and lists of
  outputs, and there it matters what the fold computes, which for lists of any
  length needs induction over data.

## 6. Not modelled, and the plan

Left for later, in this order:

1. Theorems: `NoUnmapExpected`, on top of `IndInv`; the parts of `BarModule`
   about icons and bars; `BarDrawn` of `DisplayServerBackend`, where `Leaves` has
   to follow the overlays one by one.
2. `X11Backend`: transients, self-managed clients, struts and title properties;
   pointer barriers.
3. Wayland: subsurfaces and popups, shared-memory pools, the byte framing of the
   channel.

Out of scope: the arithmetic of tiles (layout.hpp: the place of a window stands
for its result, and no property depends on it); drawing (bar widgets, debug
overlay, GL, the compositing of output_x11.cpp); polling of system values
(audio, sysinfo, keyboard layout), which keeps no state that anything else
relies on; parsing of configuration values and the Lua VM; the thin xcb
wrappers; Lua scripts and vendored code.
