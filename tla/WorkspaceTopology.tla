-------------------------- MODULE WorkspaceTopology --------------------------
(***************************************************************************)
(* Which monitor owns, lists and shows which workspace, under every order  *)
(* of hot-plug, configuration reload, workspace switch and focus change:   *)
(* the part of Core's state that does not depend on windows.               *)
(***************************************************************************)
EXTENDS WorkspaceManager

VARIABLES
  wsman,     \* the WorkspaceManager: monitors, owners, pools, parked pools
  settings   \* CoreSettings: the configuration in force

vars == <<wsman, settings>>
-----------------------------------------------------------------------------
(* Actions: one per command of Core that reaches this state.               *)

Init ==
  \E mons \in MonitorLists, c \in Configs :
    wsman = init_from_defs(mons, c) /\ settings = c

\* ApplyMonitorTopology with the outputs mons.
plug(t, mons, c) == assign_workspaces(set_monitors(t, mons), c)

ApplyMonitorTopology(mons) ==
  /\ wsman' = plug(wsman, mons, settings)
  /\ UNCHANGED settings

\* A reload that validates: apply_settings, the active workspaces are noted,
\* the outputs the new configuration enables are applied, then restored.
Reload(c, mons) ==
  LET applied == assign_workspaces(update_workspace_defs(wsman, c), c)
  IN  /\ wsman' = restore_active(plug(applied, mons, c), applied.active_ws)
      /\ settings' = c

SwitchWorkspace(ws, hint) ==
  /\ is_ws_valid(wsman, ws) /\ wsman.monitors # <<>>
  /\ wsman' = switch_to(wsman, ws, hint, settings)
  /\ UNCHANGED settings

SwitchWorkspaceLocalIndex(local) ==
  /\ wsman.focused_monitor \in DOMAIN wsman.monitor_pools
  /\ local \in DOMAIN wsman.monitor_pools[wsman.focused_monitor]
  /\ wsman' = switch_local_index(wsman, wsman.focused_monitor, local)
  /\ UNCHANGED settings

FocusMonitor(m) ==
  /\ is_mon_valid(wsman, m) /\ wsman.active_ws[m] > 0
  /\ wsman' = [wsman EXCEPT !.focused_monitor = m]
  /\ UNCHANGED settings

\* The pointer is over monitor m; unlike FocusMonitor, m may show nothing.
FocusMonitorAtPoint(m) ==
  /\ is_mon_valid(wsman, m) /\ m # wsman.focused_monitor
  /\ wsman' = [wsman EXCEPT !.focused_monitor = m]
  /\ UNCHANGED settings

FocusWindowOn(ws) ==
  /\ is_ws_valid(wsman, ws)
  /\ wsman' = focus_workspace(wsman, ws)
  /\ UNCHANGED settings

Next ==
  \/ \E mons \in MonitorLists : ApplyMonitorTopology(mons)
  \/ \E c \in Configs, mons \in MonitorLists : Reload(c, mons)
  \/ \E ws \in DOMAIN wsman.ws_owner, hint \in {0} \cup DOMAIN wsman.monitors :
       SwitchWorkspace(ws, hint)
  \/ \E local \in DOMAIN wsman.ws_owner : SwitchWorkspaceLocalIndex(local)
  \/ \E m \in DOMAIN wsman.monitors : FocusMonitor(m) \/ FocusMonitorAtPoint(m)
  \/ \E ws \in DOMAIN wsman.ws_owner : FocusWindowOn(ws)

Spec == Init /\ [][Next]_vars
-----------------------------------------------------------------------------
(* Properties.                                                             *)

\* The manager's vectors have the lengths the code relies on, and every id in
\* them, those of the parked pools too, is a monitor or workspace that exists.
TypeOK == settings \in Configs /\ WellFormed(wsman, Len(settings.pins))

\* Whatever is plugged, unplugged, reloaded and switched, every workspace is
\* in exactly one pool, once, and it is the pool of the monitor that owns it
\* (monitor_workspace_pools_have_no_duplicates, plus completeness).
PoolsPartition == ListsOwned(wsman) /\ AllOwned(wsman)

\* Monitor.active_ws, the copy every reader uses, is the workspace the pool
\* and the active position select, and no workspace is shown twice.
ShownConsistently ==
  /\ ActiveInPool(wsman)
  /\ \A m \in DOMAIN wsman.monitors :
       wsman.active_ws[m] = active_ws_of_monitor(wsman, m)
  /\ \A m, n \in DOMAIN wsman.monitors :
       wsman.active_ws[m] = wsman.active_ws[n] /\ wsman.active_ws[m] > 0 => m = n

ShownOn(t, o) ==
  LET m == monitor_index_by_name(t.monitors, o)
  IN  IF m = 0 THEN 0 ELSE t.active_ws[m]

\* The list mons without the output at position gone.
unplugged(mons, gone) ==
  [i \in 1 .. Len(mons) - 1 |-> mons[IF i < gone THEN i ELSE i + 1]]

\* Unplugging one monitor and plugging it back at the same place gives every
\* output the pool and the active workspace it had (parked_pools).
ReplugRestores ==
  \A gone \in DOMAIN wsman.monitors :
    LET left  == plug(wsman, unplugged(wsman.monitors, gone), settings)
        again == plug(left, wsman.monitors, settings)
    IN  again.monitor_pools = wsman.monitor_pools /\ again.active_ws = wsman.active_ws

HotPlug == wsman'.monitors # wsman.monitors /\ ApplyMonitorTopology(wsman'.monitors)

\* The outputs this step connects, and the workspaces that go to them: the ones
\* parked for them, and the ones the configuration pins to them.
Connected == Range(wsman'.monitors) \ Range(wsman.monitors)

Taken ==
  {ws \in DOMAIN settings.pins :
     \E o \in Connected : settings.pins[ws] = o \/ ws \in Range(wsman.parked[o].pool)}

\* This step changes what an output that stays connected shows only when an
\* output it connects had that workspace before or has it pinned.
KeepShowing ==
  HotPlug =>
    \A o \in Range(wsman.monitors) \cap Range(wsman'.monitors) :
      \/ ShownOn(wsman, o) = 0
      \/ ShownOn(wsman', o) = ShownOn(wsman, o)
      \/ ShownOn(wsman, o) \in Taken

\* A hot-plug leaves what the outputs that stay connected show alone, but for
\* workspaces an output it connects takes (set_monitors, assign_workspaces).
SurvivorsKeepShowing == [][KeepShowing]_vars

\* This step takes the focus away from an output that stays connected only if
\* the outputs it connects take every workspace of its pool.
StayFocused ==
  /\ HotPlug
  /\ is_mon_valid(wsman, wsman.focused_monitor)
  /\ wsman.monitors[wsman.focused_monitor] \in Range(wsman'.monitors)
  /\ ~ Range(wsman.monitor_pools[wsman.focused_monitor]) \subseteq Taken
  => wsman'.monitors[wsman'.focused_monitor] = wsman.monitors[wsman.focused_monitor]

\* A hot-plug leaves the focus on its output while that is connected and has a
\* workspace left, wherever it is in the list now (refocus).
FocusStaysOnOutput == [][StayFocused]_vars
=============================================================================
