-------------------------- MODULE WorkspaceManager ---------------------------
(***************************************************************************)
(* The operations of WorkspaceManager (core/src/core/workspace_manager.cpp)*)
(* on the state that says which monitor owns, lists and shows which        *)
(* workspace.  Each operator takes the manager's state t, a record, and    *)
(* returns the state the method leaves.  Module WorkspaceTopology makes    *)
(* actions of them; module CoreDispatch adds the windows.                  *)
(*                                                                         *)
(* Monitor and workspace ids count from 1 (the code's id plus one) and 0   *)
(* is the code's -1, NO_MONITOR or NO_WORKSPACE.  A monitor is its output  *)
(* name.  A configuration is what the alias table and the workspace        *)
(* definitions amount to after alias lookup: for every workspace the       *)
(* output it is pinned to, and the primary output.                         *)
(***************************************************************************)
EXTENDS Ranking

CONSTANTS
  Outputs,       \* names of the outputs that can be connected
  NoOutput,      \* "not pinned", "no primary configured"
  MonitorLists,  \* the monitor lists a backend may report
  Configs        \* the configurations a (re)load may apply

Config == [pins : Seq(Outputs \cup {NoOutput}), primary : Outputs \cup {NoOutput}]

\* Output names are unique; validate_settings rejects an empty workspace list.
ASSUME TopologyAssumption ==
  /\ NoOutput \notin Outputs
  /\ \A mons \in MonitorLists :
       mons \in Seq(Outputs) /\ \A i, j \in DOMAIN mons : mons[i] = mons[j] => i = j
  /\ \A c \in Configs : c \in Config /\ Len(c.pins) > 0
-----------------------------------------------------------------------------
(* Reading the state.                                                      *)

monitor_index_by_name(mons, name) == index_of(mons, name)

is_mon_valid(t, m) == m \in DOMAIN t.monitors
is_ws_valid(t, ws) == ws \in DOMAIN t.ws_owner

monitor_of(t, ws) ==
  IF is_ws_valid(t, ws) /\ is_mon_valid(t, t.ws_owner[ws]) THEN t.ws_owner[ws] ELSE 0

active_ws_of_monitor(t, m) ==
  IF m \notin DOMAIN t.monitor_pools \/ t.monitor_pools[m] = <<>> THEN 0
  ELSE IF t.monitor_active_local[m] \in DOMAIN t.monitor_pools[m]
       THEN t.monitor_pools[m][t.monitor_active_local[m]]
       ELSE t.monitor_pools[m][1]

primary_monitor_index(t, c) ==
  LET configured == monitor_index_by_name(t.monitors, c.primary)
  IN  IF configured > 0 THEN configured ELSE 1
-----------------------------------------------------------------------------
(* The private helpers every operation ends with.                          *)

sync_monitors_active_ws(t) ==
  [t EXCEPT !.active_ws = List([m \in DOMAIN t.monitors |-> active_ws_of_monitor(t, m)])]

select_valid_focused_monitor(t) ==
  LET showing == {m \in DOMAIN t.monitors : active_ws_of_monitor(t, m) > 0}
      here    == IF is_mon_valid(t, t.focused_monitor) THEN t.focused_monitor ELSE 1
      first   == IF showing = {} THEN 1
                 ELSE CHOOSE m \in showing : \A n \in showing : m <= n
  IN  [t EXCEPT !.focused_monitor = IF here \in showing THEN here ELSE first]

\* Mutant: the workspace a monitor showed is forgotten.
rebuild_pools_forgetting(t, seed, preferred) ==
  LET owned(m) == {ws \in DOMAIN t.ws_owner : t.ws_owner[ws] = m}
      pools    == List([m \in DOMAIN t.monitors |->
                          SortedBy(owned(m), [ws \in owned(m) |-> ws])])
  IN  [t EXCEPT !.monitor_pools = pools,
                !.monitor_active_local =
                   List([m \in DOMAIN t.monitors |-> IF pools[m] = <<>> THEN 0 ELSE 1])]

\* A monitor's pool keeps the order of its seed list; owned workspaces the
\* seed does not list follow in ascending order.
rebuild_pools_from_owner(t, seed, preferred) ==
  LET owned(m) == {ws \in DOMAIN t.ws_owner : t.ws_owner[ws] = m}
      key(m)   == [ws \in owned(m) |-> IF ws \in Range(seed[m])
                                       THEN index_of(seed[m], ws)
                                       ELSE Len(seed[m]) + ws]
      pools    == List([m \in DOMAIN t.monitors |-> SortedBy(owned(m), key(m))])
      local(m) == IF pools[m] = <<>> THEN 0
                  ELSE IF preferred[m] \in Range(pools[m])
                       THEN index_of(pools[m], preferred[m]) ELSE 1
  IN  [t EXCEPT !.monitor_pools = pools,
                !.monitor_active_local = List([m \in DOMAIN t.monitors |-> local(m)])]
-----------------------------------------------------------------------------
(* Operations of WorkspaceManager.                                         *)

\* Pinned workspaces go to their output while it is connected, owners that
\* are still valid stay, the rest is dealt round-robin from the primary.
assign_workspaces(t, c) ==
  IF t.monitors = <<>>
  THEN [t EXCEPT !.ws_owner = [ws \in DOMAIN t.ws_owner |-> 0],
                 !.monitor_pools = <<>>, !.monitor_active_local = <<>>]
  ELSE LET pinned(ws) == monitor_index_by_name(t.monitors, c.pins[ws])
           kept == List([ws \in DOMAIN t.ws_owner |->
                      IF pinned(ws) > 0 THEN pinned(ws) ELSE monitor_of(t, ws)])
           before(ws) == Cardinality({v \in DOMAIN kept : v < ws /\ kept[v] = 0})
           dealt(ws) == ((primary_monitor_index(t, c) - 1 + before(ws))
                           % Len(t.monitors)) + 1
           owner == List([ws \in DOMAIN kept |->
                            IF kept[ws] > 0 THEN kept[ws] ELSE dealt(ws)])
           shown == List([m \in DOMAIN t.monitors |-> active_ws_of_monitor(t, m)])
       IN  sync_monitors_active_ws(select_valid_focused_monitor(
             rebuild_pools_from_owner([t EXCEPT !.ws_owner = owner],
                                      t.monitor_pools, shown)))

\* The entry of an output that parked_pools does not have.
nothing_parked == [pool |-> <<>>, active |-> 0]

\* Mutant: the pool is parked, the active workspace is not.
park_pool_only(t, o) ==
  [pool |-> t.monitor_pools[monitor_index_by_name(t.monitors, o)], active |-> 0]

\* What is remembered of the output o when it leaves.
park(t, o) ==
  LET i == monitor_index_by_name(t.monitors, o)
  IN  [pool |-> t.monitor_pools[i], active |-> active_ws_of_monitor(t, i)]

\* Mutant: the focus keeps its position in the list, whatever is there now.
focus_by_position(t, mons) ==
  IF t.focused_monitor > Len(mons) THEN 1 ELSE t.focused_monitor

\* The focus follows its output to its new position in the monitor list.
refocus(t, mons) ==
  LET follow == IF is_mon_valid(t, t.focused_monitor)
                THEN monitor_index_by_name(mons, t.monitors[t.focused_monitor]) ELSE 0
  IN  IF follow > 0 THEN follow
      ELSE IF t.focused_monitor > Len(mons) THEN 1 ELSE t.focused_monitor

\* A monitor that left is parked under its output name with its pool and its
\* active workspace; one that comes back takes the parked workspaces again.
set_monitors(t, mons) ==
  LET oldIdx(i) == monitor_index_by_name(t.monitors, mons[i])
      gone   == {o \in Range(t.monitors) : o \notin Range(mons)}
      parked == [o \in Outputs |-> IF o \in gone THEN park(t, o) ELSE t.parked[o]]
      back   == {i \in DOMAIN mons : oldIdx(i) = 0}
      claims(ws) == {i \in back : ws \in Range(parked[mons[i]].pool)}
      moved(ws) == LET m == monitor_of(t, ws)
                   IN  IF m > 0 THEN monitor_index_by_name(mons, t.monitors[m]) ELSE 0
      owner  == List([ws \in DOMAIN t.ws_owner |->
                   IF claims(ws) = {} THEN moved(ws)
                   ELSE CHOOSE i \in claims(ws) : \A j \in claims(ws) : j <= i])
      seed   == List([i \in DOMAIN mons |->
                   IF oldIdx(i) > 0 THEN t.monitor_pools[oldIdx(i)]
                   ELSE parked[mons[i]].pool])
      shown  == List([i \in DOMAIN mons |->
                   IF oldIdx(i) > 0 THEN active_ws_of_monitor(t, oldIdx(i))
                   ELSE parked[mons[i]].active])
      next   == [t EXCEPT !.monitors = mons, !.ws_owner = owner,
                          !.focused_monitor = refocus(t, mons),
                          !.parked = [o \in Outputs |->
                                        IF \E i \in back : mons[i] = o THEN nothing_parked
                                        ELSE parked[o]]]
  IN  sync_monitors_active_ws(select_valid_focused_monitor(
        rebuild_pools_from_owner(next, seed, shown)))

\* Where the windows of a workspace that the new definitions drop go.
fallback_for(t, ws, count) ==
  LET m    == monitor_of(t, ws)
      stay == IF m = 0 THEN <<>> ELSE Keep(t.monitor_pools[m], 1 .. count)
  IN  IF stay = <<>> THEN 1 ELSE stay[1]

\* Mutant: the parked pools keep workspaces that are gone.
parked_unpruned(t, count) == t.parked

\* The parked pools without the dropped workspaces.
prune_parked(t, count) ==
  [o \in Outputs |->
     [pool   |-> Keep(t.parked[o].pool, 1 .. count),
      active |-> IF t.parked[o].active > count THEN 1 ELSE t.parked[o].active]]

\* The active position is chosen in the pool as it was before the dropped
\* workspaces are erased from it.  Monitor.active_ws is not refreshed here.
update_workspace_defs(t, c) ==
  LET count == Len(c.pins)
      old   == Len(t.ws_owner)
      owner == List([ws \in 1 .. count |-> IF ws <= old THEN t.ws_owner[ws] ELSE 0])
      local(m) ==
        LET active == active_ws_of_monitor(t, m)
            dst    == fallback_for(t, active, count)
        IN  IF active <= count THEN t.monitor_active_local[m]
            ELSE IF dst \in Range(t.monitor_pools[m])
                 THEN index_of(t.monitor_pools[m], dst) ELSE 1
  IN  IF count >= old THEN [t EXCEPT !.ws_owner = owner]
      ELSE [t EXCEPT
              !.ws_owner = owner,
              !.monitor_active_local = List([m \in DOMAIN t.monitors |-> local(m)]),
              !.monitor_pools = List([m \in DOMAIN t.monitors |->
                                        Keep(t.monitor_pools[m], 1 .. count)]),
              !.parked = prune_parked(t, count)]

\* Core::init on a fresh manager: set_monitors, then init_from_defs.
init_from_defs(mons, c) ==
  assign_workspaces(
    [monitors |-> mons,
     ws_owner |-> [ws \in DOMAIN c.pins |-> 0],
     monitor_pools |-> [m \in DOMAIN mons |-> <<>>],
     monitor_active_local |-> [m \in DOMAIN mons |-> 0],
     active_ws |-> [m \in DOMAIN mons |-> 0],
     parked |-> [o \in Outputs |-> nothing_parked],
     focused_monitor |-> 1], c)

\* Mutants: a workspace is listed again; Monitor.active_ws is not refreshed.
switch_to_relisting(t, ws, hint, c) ==
  LET m == monitor_of(t, ws)
  IN  IF m = 0 THEN t
      ELSE sync_monitors_active_ws(
             [t EXCEPT !.monitor_pools[m] = Append(@, ws),
                       !.monitor_active_local[m] = Len(t.monitor_pools[m]) + 1])

switch_to_unsynced(t, ws, hint, c) ==
  LET m == monitor_of(t, ws)
  IN  IF m = 0 THEN t
      ELSE [t EXCEPT !.monitor_active_local[m] = index_of(t.monitor_pools[m], ws)]

\* The owner decides where the workspace appears; the hint, the pin, the
\* primary and the focused monitor only matter for a workspace nobody owns.
switch_to(t, ws, hint, c) ==
  LET pinned == monitor_index_by_name(t.monitors, c.pins[ws])
      target == IF monitor_of(t, ws) > 0 THEN monitor_of(t, ws)
                ELSE IF is_mon_valid(t, hint) THEN hint
                ELSE IF pinned > 0 THEN pinned ELSE primary_monitor_index(t, c)
      listed == ws \in Range(t.monitor_pools[target])
      pool   == IF listed THEN t.monitor_pools[target]
                ELSE Append(t.monitor_pools[target], ws)
  IN  sync_monitors_active_ws(
        [t EXCEPT !.ws_owner[ws] = target,
                  !.monitor_pools[target] = pool,
                  !.monitor_active_local[target] = index_of(pool, ws)])

switch_local_index(t, m, local) ==
  sync_monitors_active_ws([t EXCEPT !.monitor_active_local[m] = local])

\* focus_window: the workspace of the focused window becomes the one its
\* monitor shows, and that monitor becomes the focused one.
focus_workspace(t, ws) ==
  LET m     == monitor_of(t, ws)
      local == index_of(t.monitor_pools[m], ws)
  IN  IF m = 0 THEN t
      ELSE sync_monitors_active_ws(
             [t EXCEPT !.monitor_active_local[m] = IF local > 0 THEN local ELSE @,
                       !.focused_monitor = m])

\* The tail of Runtime::process_pending_reload: for i = 0, 1, ... the saved
\* workspace of monitor i is switched to, on whichever monitor owns it now.
restore_active(t, saved) ==
  LET chosen(m) == {i \in DOMAIN saved \cap DOMAIN t.monitors :
                      is_ws_valid(t, saved[i]) /\ monitor_of(t, saved[i]) = m}
      local(m)  == IF chosen(m) = {} THEN t.monitor_active_local[m]
                   ELSE LET last == CHOOSE i \in chosen(m) : \A j \in chosen(m) : j <= i
                        IN  index_of(t.monitor_pools[m], saved[last])
  IN  sync_monitors_active_ws(
        [t EXCEPT !.monitor_active_local = List([m \in DOMAIN t.monitors |-> local(m)])])
-----------------------------------------------------------------------------
(* What the operations keep: the lengths, ids and lists of the state.      *)

\* The fields of a manager with n workspaces.
Fields(n) ==
  [monitors : Seq(Outputs), ws_owner : [1 .. n -> Nat],
   monitor_pools : Seq(Seq(1 .. n)), monitor_active_local : Seq(Nat),
   active_ws : Seq(Nat), focused_monitor : Nat,
   parked : [Outputs -> [pool : Seq(1 .. n), active : 0 .. n]]]

WellFormed(t, n) ==
  /\ t \in Fields(n)
  /\ Len(t.monitor_pools) = Len(t.monitors)
  /\ Len(t.monitor_active_local) = Len(t.monitors)
  /\ Len(t.active_ws) = Len(t.monitors)
  /\ \A ws \in 1 .. n : t.ws_owner[ws] <= Len(t.monitors)
  /\ \A m \in 1 .. Len(t.monitors) : t.active_ws[m] <= n

\* Every monitor lists the workspaces it owns, each once.
ListsOwned(t) ==
  \A m \in DOMAIN t.monitors :
    /\ Range(t.monitor_pools[m]) = {ws \in DOMAIN t.ws_owner : t.ws_owner[ws] = m}
    /\ \A i, j \in DOMAIN t.monitor_pools[m] :
         t.monitor_pools[m][i] = t.monitor_pools[m][j] => i = j

AllOwned(t) ==
  t.monitors # <<>> => \A ws \in DOMAIN t.ws_owner : is_mon_valid(t, t.ws_owner[ws])

\* The active position of a monitor is a position of its pool.
ActiveInPool(t) ==
  \A m \in DOMAIN t.monitors :
    t.monitor_pools[m] # <<>> => t.monitor_active_local[m] \in DOMAIN t.monitor_pools[m]
=============================================================================
