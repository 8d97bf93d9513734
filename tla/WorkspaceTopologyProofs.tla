----------------------- MODULE WorkspaceTopologyProofs -----------------------
(***************************************************************************)
(* The state invariants of WorkspaceTopology, for any outputs, monitor     *)
(* lists and configurations; then what a hot-plug does to the outputs that *)
(* stay and to those that come back: the action properties, and            *)
(* ReplugRestores.                                                         *)
(***************************************************************************)
EXTENDS WorkspaceTopology, WorkspaceManagerProofs

(* The state invariants.                                                   *)

Invariant == settings \in Configs /\ Sound(wsman, Len(settings.pins))

\* Core::init establishes the invariant.
LEMMA Initially == Init => Invariant
<1> SUFFICES ASSUME NEW mons \in MonitorLists, NEW c \in Configs,
                    wsman = init_from_defs(mons, c), settings = c
             PROVE  Invariant
  BY DEF Init
<1>1. mons \in Seq(Outputs) /\ c \in Config
  BY TopologyAssumption
<1> QED
  BY <1>1, InitFromDefs DEF Invariant

\* Every command, display change and reload preserves the invariant.
LEMMA Preserved == Invariant /\ [Next]_vars => Invariant'
<1> SUFFICES ASSUME Invariant, [Next]_vars PROVE Invariant'
  OBVIOUS
<1> DEFINE n == Len(settings.pins)
<1>1. /\ settings \in Configs /\ settings \in Config /\ n \in Nat /\ n > 0
      /\ Sound(wsman, n)
  BY TopologyAssumption DEF Invariant, Config
<1>2. \A mons \in MonitorLists : mons \in Seq(Outputs)
  BY TopologyAssumption
<1>3. /\ DOMAIN wsman.monitors = 1 .. Len(wsman.monitors) /\ DOMAIN wsman.ws_owner = 1 .. n
  BY <1>1 DEF Sound, WellFormed, Fields
<1>4. ASSUME NEW mons \in MonitorLists, ApplyMonitorTopology(mons)
      PROVE  Invariant'
  <2>1. Draft(set_monitors(wsman, mons), n)
    BY <1>1, <1>2, SetMonitors
  <2>2. Sound(wsman', n)
    BY <1>1, <1>4, <2>1, Assign DEF ApplyMonitorTopology, plug
  <2> QED
    BY <1>1, <1>4, <2>2 DEF ApplyMonitorTopology, Invariant
<1>5. ASSUME NEW c \in Configs, NEW mons \in MonitorLists, Reload(c, mons)
      PROVE  Invariant'
  <2> DEFINE k       == Len(c.pins)
             applied == assign_workspaces(update_workspace_defs(wsman, c), c)
             placed  == assign_workspaces(set_monitors(applied, mons), c)
  <2>1. c \in Config /\ k \in Nat /\ k > 0
    BY TopologyAssumption DEF Config
  <2>2. Draft(update_workspace_defs(wsman, c), k)
    BY <1>1, <2>1, UpdateDefs
  <2>3. Sound(applied, k)
    BY <2>1, <2>2, Assign
  <2>4. wsman' = restore_active(placed, applied.active_ws) /\ settings' = c
    BY <1>5 DEF Reload, plug
  <2> HIDE DEF applied
  <2>5. Draft(set_monitors(applied, mons), k)
    BY <1>2, <2>1, <2>3, SetMonitors
  <2>6. Sound(placed, k)
    BY <2>1, <2>5, Assign
  <2> HIDE DEF placed
  <2>7. Sound(restore_active(placed, applied.active_ws), k)
    BY <2>1, <2>6, RestoreActive DEF Keeps
  <2> QED
    BY <2>4, <2>7 DEF Invariant
<1>6. ASSUME NEW ws \in DOMAIN wsman.ws_owner, NEW hint, SwitchWorkspace(ws, hint)
      PROVE  Invariant'
  <2>1. ws \in 1 .. n /\ wsman.monitors # <<>>
    BY <1>3, <1>6 DEF SwitchWorkspace
  <2>2. Sound(wsman', n)
    BY <1>1, <1>6, <2>1, SwitchesTo DEF SwitchWorkspace, Keeps
  <2> QED
    BY <1>1, <1>6, <2>2 DEF SwitchWorkspace, Invariant
<1>7. ASSUME NEW local, SwitchWorkspaceLocalIndex(local)
      PROVE  Invariant'
  <2>1. Sound(wsman', n)
    BY <1>1, <1>7, SwitchLocal DEF SwitchWorkspaceLocalIndex, Keeps
  <2> QED
    BY <1>1, <1>7, <2>1 DEF SwitchWorkspaceLocalIndex, Invariant
<1>8. ASSUME NEW m \in DOMAIN wsman.monitors, FocusMonitor(m) \/ FocusMonitorAtPoint(m)
      PROVE  Invariant'
  <2>1. wsman' = [wsman EXCEPT !.focused_monitor = m] /\ settings' = settings
    BY <1>8 DEF FocusMonitor, FocusMonitorAtPoint
  <2>2. m \in Nat
    BY <1>3
  <2>3. Sound(wsman', n)
    BY <1>1, <2>1, <2>2, FocusOnly DEF Keeps
  <2> QED
    BY <1>1, <2>1, <2>3 DEF Invariant
<1>9. ASSUME NEW ws, FocusWindowOn(ws)
      PROVE  Invariant'
  <2>1. Sound(wsman', n)
    BY <1>1, <1>9, FocusWorkspace DEF FocusWindowOn, Keeps
  <2> QED
    BY <1>1, <1>9, <2>1 DEF FocusWindowOn, Invariant
<1>10. CASE UNCHANGED vars
  BY <1>10 DEF vars, Invariant
<1> QED
  BY <1>4, <1>5, <1>6, <1>7, <1>8, <1>9, <1>10 DEF Next

\* The invariant implies the properties the runs check.
LEMMA Implied == Invariant => TypeOK /\ PoolsPartition /\ ShownConsistently
<1> SUFFICES ASSUME Invariant PROVE TypeOK /\ PoolsPartition /\ ShownConsistently
  OBVIOUS
<1>1. Len(settings.pins) \in Nat /\ Sound(wsman, Len(settings.pins))
  BY TopologyAssumption DEF Invariant, Config
<1>2. TypeOK
  BY DEF Invariant, TypeOK, Sound
<1>3. PoolsPartition
  BY DEF Invariant, PoolsPartition, Sound
<1>4. \A m, k \in DOMAIN wsman.monitors :
        wsman.active_ws[m] = wsman.active_ws[k] /\ wsman.active_ws[m] > 0 => m = k
  BY <1>1, ShownOnce
<1>5. ShownConsistently
  BY <1>1, <1>4 DEF ShownConsistently, Sound, Refreshed
<1> QED
  BY <1>2, <1>3, <1>5

\* The manager's vectors keep their lengths and name only monitors and
\* workspaces that exist (is_mon_valid, is_ws_valid), whatever is plugged and
\* however the number of workspaces changes in a reload.
THEOREM TypeCorrect == Spec => []TypeOK
BY Initially, Preserved, Implied, PTL DEF Spec

\* Every workspace is in exactly one pool, that of its owner
\* (rebuild_pools_from_owner, assign_workspaces, switch_to).
THEOREM Partitioned == Spec => []PoolsPartition
BY Initially, Preserved, Implied, PTL DEF Spec

\* Monitor.active_ws never disagrees with the pool and the active position,
\* and no workspace is shown on two monitors (sync_monitors_active_ws).
THEOREM Consistent == Spec => []ShownConsistently
BY Initially, Preserved, Implied, PTL DEF Spec
-----------------------------------------------------------------------------
(* A hot-plug.                                                             *)

owned(t, m) == {ws \in DOMAIN t.ws_owner : t.ws_owner[ws] = m}

\* The end of set_monitors and of assign_workspaces.
finish(t, seed, preferred) ==
  sync_monitors_active_ws(select_valid_focused_monitor(
    rebuild_pools_from_owner(t, seed, preferred)))

\* The list q has the elements of X that p has in the order p has them.
InOrder(X, p, q) ==
  \A x, y \in X \cap Range(p) :
    index_of(p, x) < index_of(p, y) => index_of(q, x) < index_of(q, y)

\* rebuild_pools_from_owner keeps the order of the seed, and selects the
\* preferred workspace wherever its monitor owns it.
LEMMA RebuildKeeps ==
  ASSUME NEW n \in Nat, NEW t \in Fields(n), NEW preferred,
         NEW seed \in [1 .. Len(t.monitors) -> Seq(Nat)],
         NEW m \in 1 .. Len(t.monitors)
  PROVE  LET u == rebuild_pools_from_owner(t, seed, preferred)
         IN  /\ InOrder(owned(t, m), seed[m], u.monitor_pools[m])
             /\ preferred[m] \in owned(t, m) => active_ws_of_monitor(u, m) = preferred[m]
<1> DEFINE M        == Len(t.monitors)
           own(k)   == {ws \in DOMAIN t.ws_owner : t.ws_owner[ws] = k}
           key(k)   == [ws \in own(k) |-> IF ws \in Range(seed[k])
                                          THEN index_of(seed[k], ws)
                                          ELSE Len(seed[k]) + ws]
           sorted   == [k \in DOMAIN t.monitors |-> SortedBy(own(k), key(k))]
           pools    == List(sorted)
           local(k) == IF pools[k] = <<>> THEN 0
                       ELSE IF preferred[k] \in Range(pools[k])
                            THEN index_of(pools[k], preferred[k]) ELSE 1
           locals   == [k \in DOMAIN t.monitors |-> local(k)]
           u        == rebuild_pools_from_owner(t, seed, preferred)
<1>1. M \in Nat /\ DOMAIN t.monitors = 1 .. M /\ DOMAIN t.ws_owner = 1 .. n
  BY DEF Fields
<1>2. u = [t EXCEPT !.monitor_pools = pools, !.monitor_active_local = List(locals)]
  BY DEF rebuild_pools_from_owner
<1> HIDE DEF u
<1>3. u.monitor_pools = pools /\ u.monitor_active_local = List(locals) /\ u.monitors = t.monitors
  BY <1>2 DEF Fields
<1>4. /\ u.monitor_pools \in Seq(Seq(1 .. n)) /\ Len(u.monitor_pools) = M
      /\ u.ws_owner = t.ws_owner
      /\ u.monitor_active_local \in Seq(Nat) /\ Len(u.monitor_active_local) = M
      /\ ListsOwned(u)
  <2>1. /\ u \in Fields(n) /\ ListsOwned(u)
        /\ u = [t EXCEPT !.monitor_pools = u.monitor_pools,
                         !.monitor_active_local = u.monitor_active_local]
        /\ Len(u.monitor_pools) = M /\ Len(u.monitor_active_local) = M
    BY Rebuild, ZenonT(60) DEF u
  <2> QED
    BY <2>1 DEF Fields
<1>5. sorted \in [1 .. M -> {sorted[k] : k \in 1 .. M}] /\ sorted[m] = SortedBy(own(m), key(m))
  BY <1>1
<1> HIDE DEF sorted
<1>6. pools[m] = SortedBy(own(m), key(m))
  <2>1. List(sorted) = sorted
    BY <1>1, <1>5, ListIs
  <2> QED
    BY <1>5, <2>1
<1>7. own(m) \subseteq 1 .. n /\ IsFiniteSet(own(m))
  <2>1. own(m) \subseteq 1 .. n
    BY <1>1
  <2>2. IsFiniteSet(1 .. n)
    BY FS_Interval
  <2> QED
    BY <2>1, <2>2, FS_Subset
<1>8. seed[m] \in Seq(Nat) /\ Len(seed[m]) \in Nat
  OBVIOUS
<1>9. \A ws : /\ index_of(seed[m], ws) \in 0 .. Len(seed[m])
              /\ ws \in Range(seed[m]) => seed[m][index_of(seed[m], ws)] = ws
  BY <1>8, IndexOf
<1>10. key(m) \in [own(m) -> Int]
  BY <1>7, <1>8, <1>9
<1>11. \A x, y \in own(m) : key(m)[x] = key(m)[y] => x = y
  <2> SUFFICES ASSUME NEW x \in own(m), NEW y \in own(m), key(m)[x] = key(m)[y]
               PROVE  x = y
    OBVIOUS
  <2>0. x \in 1 .. n /\ y \in 1 .. n
    BY <1>7
  <2>1. CASE x \in Range(seed[m]) /\ y \in Range(seed[m])
    BY <1>9, <2>1
  <2>2. CASE x \in Range(seed[m]) /\ y \notin Range(seed[m])
    BY <1>8, <1>9, <2>0, <2>2
  <2>3. CASE x \notin Range(seed[m]) /\ y \in Range(seed[m])
    BY <1>8, <1>9, <2>0, <2>3
  <2>4. CASE x \notin Range(seed[m]) /\ y \notin Range(seed[m])
    BY <1>8, <2>0, <2>4
  <2> QED
    BY <2>1, <2>2, <2>3, <2>4
<1>12. \A x \in own(m) \cap Range(seed[m]) : key(m)[x] = index_of(seed[m], x)
  OBVIOUS
<1> HIDE DEF key
<1>13. ASSUME NEW x \in own(m) \cap Range(seed[m]), NEW y \in own(m) \cap Range(seed[m]),
              index_of(seed[m], x) < index_of(seed[m], y)
       PROVE  index_of(pools[m], x) < index_of(pools[m], y)
  <2>1. key(m)[x] < key(m)[y]
    BY <1>12, <1>13
  <2> HIDE DEF own, pools
  <2>2. index_of(SortedBy(own(m), key(m)), x) < index_of(SortedBy(own(m), key(m)), y)
    BY <1>7, <1>10, <1>11, <2>1, SortedByOrders
  <2> QED
    BY <1>6, <2>2
<1>14. InOrder(owned(t, m), seed[m], u.monitor_pools[m])
  <2>1. own(m) = owned(t, m)
    BY DEF owned
  <2> QED
    BY <1>3, <1>13, <2>1 DEF InOrder
<1>15. ASSUME preferred[m] \in owned(t, m)
       PROVE  active_ws_of_monitor(u, m) = preferred[m]
  <2>1. preferred[m] \in Range(u.monitor_pools[m])
    BY <1>1, <1>3, <1>4, <1>15 DEF ListsOwned, owned
  <2>2. u.monitor_pools[m] \in Seq(1 .. n)
    BY <1>4
  <2>3. u.monitor_pools[m] # <<>>
    BY <2>1, <2>2 DEF Range
  <2>4. index_of(u.monitor_pools[m], preferred[m]) \in 1 .. Len(u.monitor_pools[m])
        /\ u.monitor_pools[m][index_of(u.monitor_pools[m], preferred[m])] = preferred[m]
    BY <2>1, <2>2, IndexOf
  <2>5. u.monitor_active_local[m] = index_of(u.monitor_pools[m], preferred[m])
    <3>1. local(m) = index_of(u.monitor_pools[m], preferred[m])
      BY <1>3, <2>1, <2>3
    <3> HIDE DEF pools
    <3>2. locals \in [1 .. M -> {locals[k] : k \in 1 .. M}] /\ locals[m] = local(m)
      BY <1>1
    <3> HIDE DEF locals
    <3>3. List(locals) = locals
      BY <1>1, <3>2, ListIs
    <3> QED
      BY <1>3, <3>1, <3>2, <3>3
  <2>6. m \in DOMAIN u.monitor_pools
    BY <1>4
  <2>7. u.monitor_active_local[m] \in DOMAIN u.monitor_pools[m]
    BY <2>2, <2>4, <2>5
  <2> QED
    BY <2>3, <2>4, <2>5, <2>6, <2>7 DEF active_ws_of_monitor
<1> QED
  BY <1>14, <1>15 DEF u

\* So do set_monitors and assign_workspaces, which also leave the focus on a
\* monitor that owns something, and what is parked alone.
LEMMA FinishKeeps ==
  ASSUME NEW n \in Nat, NEW t \in Fields(n), NEW preferred,
         NEW seed \in [1 .. Len(t.monitors) -> Seq(Nat)],
         \A ws \in 1 .. n : t.ws_owner[ws] <= Len(t.monitors)
  PROVE  LET u == finish(t, seed, preferred)
         IN  /\ u.parked = t.parked
             /\ \A m \in 1 .. Len(t.monitors) :
                  /\ InOrder(owned(t, m), seed[m], u.monitor_pools[m])
                  /\ preferred[m] \in owned(t, m) => u.active_ws[m] = preferred[m]
                  /\ t.focused_monitor = m /\ owned(t, m) # {} => u.focused_monitor = m
<1> DEFINE r == rebuild_pools_from_owner(t, seed, preferred)
           s == select_valid_focused_monitor(r)
           u == sync_monitors_active_ws(s)
<1>1. /\ r \in Fields(n) /\ ListsOwned(r) /\ ActiveInPool(r)
      /\ r = [t EXCEPT !.monitor_pools = r.monitor_pools,
                       !.monitor_active_local = r.monitor_active_local]
      /\ Len(r.monitor_pools) = Len(t.monitors)
  BY Rebuild, ZenonT(60)
<1>2. ASSUME NEW m \in 1 .. Len(t.monitors)
      PROVE  /\ InOrder(owned(t, m), seed[m], r.monitor_pools[m])
             /\ preferred[m] \in owned(t, m) => active_ws_of_monitor(r, m) = preferred[m]
  BY RebuildKeeps
<1> HIDE DEF r
<1>3. /\ r.monitors = t.monitors /\ r.parked = t.parked /\ r.ws_owner = t.ws_owner
      /\ r.focused_monitor = t.focused_monitor
  BY <1>1 DEF Fields
<1>4. s \in Fields(n) /\ s = [r EXCEPT !.focused_monitor = s.focused_monitor]
  BY <1>1, SelectFocused
<1>5. ASSUME NEW m \in 1 .. Len(t.monitors), t.focused_monitor = m, owned(t, m) # {}
      PROVE  s.focused_monitor = m
  <2> DEFINE showing == {k \in DOMAIN r.monitors : active_ws_of_monitor(r, k) > 0}
             first == IF showing = {} THEN 1
                      ELSE CHOOSE k \in showing : \A l \in showing : k <= l
  <2>1. DOMAIN r.monitors = 1 .. Len(t.monitors)
    BY <1>1, <1>3 DEF Fields
  <2>2. r.monitor_pools[m] \in Seq(1 .. n) /\ m \in DOMAIN r.monitor_pools
    BY <1>1 DEF Fields
  <2>3. r.monitor_pools[m] # <<>>
    <3>1. Range(r.monitor_pools[m]) # {}
      BY <1>1, <1>3, <1>5, <2>1 DEF ListsOwned, owned
    <3> QED
      BY <3>1 DEF Range
  <2>4. r.monitor_active_local[m] \in DOMAIN r.monitor_pools[m]
    BY <1>1, <2>1, <2>3 DEF ActiveInPool
  <2>5. active_ws_of_monitor(r, m) = r.monitor_pools[m][r.monitor_active_local[m]]
    BY <2>2, <2>3, <2>4 DEF active_ws_of_monitor
  <2>6. active_ws_of_monitor(r, m) > 0
    BY <2>2, <2>4, <2>5
  <2>7. m \in showing /\ is_mon_valid(r, r.focused_monitor) /\ r.focused_monitor = m
    BY <1>3, <1>5, <2>1, <2>6 DEF is_mon_valid
  <2>8. s = [r EXCEPT !.focused_monitor =
               IF (IF is_mon_valid(r, r.focused_monitor) THEN r.focused_monitor ELSE 1) \in showing
               THEN (IF is_mon_valid(r, r.focused_monitor) THEN r.focused_monitor ELSE 1)
               ELSE first]
    BY DEF select_valid_focused_monitor
  <2> HIDE DEF showing, first, s
  <2>9. s = [r EXCEPT !.focused_monitor = m]
    BY <2>7, <2>8
  <2> QED
    BY <1>1, <2>9 DEF Fields
<1> HIDE DEF s
<1>6. /\ s.monitors = r.monitors /\ s.parked = r.parked /\ s.monitor_pools = r.monitor_pools
      /\ s.monitor_active_local = r.monitor_active_local
  BY <1>1, <1>4 DEF Fields
<1>7. /\ u \in Fields(n) /\ u = [s EXCEPT !.active_ws = u.active_ws]
      /\ \A m \in 1 .. Len(s.monitors) : u.active_ws[m] = active_ws_of_monitor(u, m)
  BY <1>1, <1>3, <1>4, <1>6, SyncActive
<1> HIDE DEF u
<1>8. /\ u.parked = t.parked /\ u.monitor_pools = r.monitor_pools
      /\ u.focused_monitor = s.focused_monitor
      /\ u.monitor_active_local = r.monitor_active_local
  BY <1>3, <1>4, <1>6, <1>7 DEF Fields
<1>9. \A m \in 1 .. Len(t.monitors) : u.active_ws[m] = active_ws_of_monitor(r, m)
  BY <1>3, <1>6, <1>7, <1>8 DEF active_ws_of_monitor
<1> QED
  BY <1>2, <1>5, <1>8, <1>9 DEF finish, u, s, r

\* assign_workspaces leaves a workspace with its pin, or else where it was, and
\* keeps order, choice and focus of the monitors that keep theirs.
LEMMA AssignKeeps ==
  ASSUME NEW c \in Config, NEW t, Draft(t, Len(c.pins))
  PROVE  LET u == assign_workspaces(t, c)
             pinned(ws) == monitor_index_by_name(t.monitors, c.pins[ws])
         IN  /\ u.parked = t.parked
             /\ t.monitors # <<>> =>
                  /\ \A ws \in 1 .. Len(c.pins) :
                       /\ pinned(ws) > 0 => u.ws_owner[ws] = pinned(ws)
                       /\ pinned(ws) = 0 /\ monitor_of(t, ws) > 0 =>
                            u.ws_owner[ws] = monitor_of(t, ws)
                  /\ \A m \in 1 .. Len(t.monitors) :
                       /\ InOrder(owned(u, m), t.monitor_pools[m], u.monitor_pools[m])
                       /\ active_ws_of_monitor(t, m) \in owned(u, m) =>
                            u.active_ws[m] = active_ws_of_monitor(t, m)
                       /\ t.focused_monitor = m /\ owned(u, m) # {} => u.focused_monitor = m
<1> DEFINE n == Len(c.pins)
           M == Len(t.monitors)
           u == assign_workspaces(t, c)
           pinned(ws) == monitor_index_by_name(t.monitors, c.pins[ws])
<1>1. n \in Nat /\ c.pins \in Seq(Outputs \cup {NoOutput})
  BY DEF Config
<1>2. /\ t \in Fields(n) /\ M \in Nat /\ DOMAIN t.monitors = 1 .. M
      /\ DOMAIN t.ws_owner = 1 .. n /\ t.monitors \in Seq(Outputs)
      /\ t.ws_owner \in [1 .. n -> Nat]
  BY DEF Draft, Fields
<1>3. CASE t.monitors = <<>>
  <2>1. u = [t EXCEPT !.ws_owner = [ws \in DOMAIN t.ws_owner |-> 0],
                      !.monitor_pools = <<>>, !.monitor_active_local = <<>>]
    BY <1>3 DEF assign_workspaces
  <2>2. u.parked = t.parked
    BY <1>2, <2>1 DEF Fields
  <2> QED
    BY <1>3, <2>2
<1>4. CASE t.monitors # <<>>
  <2> DEFINE keep == [ws \in DOMAIN t.ws_owner |->
                        IF pinned(ws) > 0 THEN pinned(ws) ELSE monitor_of(t, ws)]
             kept == List(keep)
             before(ws) == Cardinality({v \in DOMAIN kept : v < ws /\ kept[v] = 0})
             dealt(ws) == ((primary_monitor_index(t, c) - 1 + before(ws)) % M) + 1
             own == [ws \in DOMAIN kept |-> IF kept[ws] > 0 THEN kept[ws] ELSE dealt(ws)]
             owner == List(own)
             shows == [m \in DOMAIN t.monitors |-> active_ws_of_monitor(t, m)]
             shown == List(shows)
             t2 == [t EXCEPT !.ws_owner = owner]
  <2>0. M > 0
    BY <1>2, <1>4
  <2>1. u = finish(t2, t.monitor_pools, shown)
    BY <1>4 DEF assign_workspaces, finish
  <2>2. keep \in [1 .. n -> 0 .. M]
        /\ \A ws \in 1 .. n : /\ pinned(ws) > 0 => keep[ws] = pinned(ws)
                              /\ pinned(ws) = 0 => keep[ws] = monitor_of(t, ws)
    <3>1. \A ws \in 1 .. n : pinned(ws) \in 0 .. M
      BY <1>2, IndexByName
    <3>2. \A ws \in 1 .. n : monitor_of(t, ws) \in 0 .. M
      BY <1>2 DEF monitor_of, is_mon_valid, is_ws_valid
    <3> HIDE DEF pinned
    <3> QED
      BY <1>2, <3>1, <3>2
  <2> HIDE DEF keep
  <2>3. kept = keep /\ kept \in [1 .. n -> 0 .. M] /\ DOMAIN kept = 1 .. n
    BY <1>1, <2>2, ListIs
  <2> HIDE DEF kept
  <2>4. primary_monitor_index(t, c) \in 1 .. M
    BY <1>2, <2>0, IndexByName DEF primary_monitor_index
  <2>5. \A ws \in 1 .. n : before(ws) \in Nat
    <3> TAKE ws \in 1 .. n
    <3>1. IsFiniteSet(1 .. n)
      BY <1>1, FS_Interval
    <3>2. IsFiniteSet({v \in DOMAIN kept : v < ws /\ kept[v] = 0})
      BY <2>3, <3>1, FS_Subset
    <3> QED
      BY <3>2, FS_CardinalityType
  <2> HIDE DEF before
  <2>6. \A ws \in 1 .. n : dealt(ws) \in 1 .. M
    BY <1>2, <2>0, <2>4, <2>5
  <2> HIDE DEF dealt
  <2>7. own \in [1 .. n -> 1 .. M] /\ \A ws \in 1 .. n : kept[ws] > 0 => own[ws] = kept[ws]
    BY <1>2, <2>3, <2>6
  <2> HIDE DEF own
  <2>8. owner = own /\ owner \in [1 .. n -> Nat]
    <3>0. own \in [1 .. n -> 1 .. M]
      BY <2>7
    <3>1. owner = own
      BY <1>1, <3>0, ListIs
    <3> HIDE DEF owner
    <3> QED
      BY <1>2, <2>7, <3>1
  <2> HIDE DEF owner
  <2>9. /\ t2 \in Fields(n) /\ t2.ws_owner = owner /\ t2.monitors = t.monitors
        /\ t2.focused_monitor = t.focused_monitor /\ t2.parked = t.parked
    BY <1>2, <2>8 DEF Fields
  <2>10. t.monitor_pools \in [1 .. Len(t2.monitors) -> Seq(Nat)]
    <3>1. t.monitor_pools \in Seq(Seq(1 .. n)) /\ Len(t.monitor_pools) = M
      BY <1>2 DEF Draft, Fields
    <3>2. Seq(1 .. n) \subseteq Seq(Nat)
      BY SeqMonotonic
    <3> QED
      BY <1>2, <2>9, <3>1, <3>2
  <2>11. \A ws \in 1 .. n : t2.ws_owner[ws] <= Len(t2.monitors)
    BY <1>2, <2>7, <2>8, <2>9
  <2>12. \A m \in 1 .. M : shown[m] = active_ws_of_monitor(t, m)
    <3>1. shows \in [1 .. M -> {shows[k] : k \in 1 .. M}]
          /\ \A m \in 1 .. M : shows[m] = active_ws_of_monitor(t, m)
      BY <1>2
    <3> HIDE DEF shows
    <3>2. shown = shows
      BY <1>2, <3>1, ListIs
    <3> QED
      BY <3>1, <3>2
  <2> HIDE DEF t2, shown, u
  <2> DEFINE v == finish(t2, t.monitor_pools, shown)
  <2>13. v.ws_owner = t2.ws_owner
    BY <1>1, <2>9, <2>10, <2>11, Finish DEF finish
  <2>14. /\ v.parked = t2.parked
         /\ \A m \in 1 .. Len(t2.monitors) :
              /\ InOrder(owned(t2, m), t.monitor_pools[m], v.monitor_pools[m])
              /\ shown[m] \in owned(t2, m) => v.active_ws[m] = shown[m]
              /\ t2.focused_monitor = m /\ owned(t2, m) # {} => v.focused_monitor = m
    BY <1>1, <2>9, <2>10, <2>11, FinishKeeps, SMTT(30)
  <2> HIDE DEF v
  <2>15. u = v
    BY <2>1 DEF v
  <2>16. \A m : owned(u, m) = owned(t2, m)
    BY <2>13, <2>15 DEF owned
  <2>17. ASSUME NEW ws \in 1 .. n
         PROVE  /\ pinned(ws) > 0 => u.ws_owner[ws] = pinned(ws)
                /\ pinned(ws) = 0 /\ monitor_of(t, ws) > 0 => u.ws_owner[ws] = monitor_of(t, ws)
    BY <2>2, <2>3, <2>7, <2>8, <2>9, <2>13, <2>15
  <2>18. \A m \in 1 .. M :
           /\ InOrder(owned(u, m), t.monitor_pools[m], u.monitor_pools[m])
           /\ active_ws_of_monitor(t, m) \in owned(u, m) => u.active_ws[m] = active_ws_of_monitor(t, m)
           /\ t.focused_monitor = m /\ owned(u, m) # {} => u.focused_monitor = m
    BY <2>9, <2>12, <2>14, <2>15, <2>16
  <2> HIDE DEF pinned
  <2> QED
    BY <2>9, <2>14, <2>15, <2>17, <2>18 DEF u, pinned
<1> QED
  BY <1>3, <1>4

\* What set_monitors looks up for the monitor at position i: its pool and what
\* it shows if it was connected, else what is parked for it.
seed_of(t, mons, i) ==
  IF mons[i] \in Range(t.monitors)
  THEN t.monitor_pools[monitor_index_by_name(t.monitors, mons[i])]
  ELSE t.parked[mons[i]].pool

shown_of(t, mons, i) ==
  IF mons[i] \in Range(t.monitors)
  THEN active_ws_of_monitor(t, monitor_index_by_name(t.monitors, mons[i]))
  ELSE t.parked[mons[i]].active

\* The monitors that come back and had ws.
claimants(t, mons, ws) ==
  {i \in DOMAIN mons : mons[i] \notin Range(t.monitors) /\ ws \in Range(t.parked[mons[i]].pool)}

\* set_monitors gives a workspace to the one monitor that comes back for it,
\* lets it stay when there is none, and parks the outputs that leave.
LEMMA SetMonitorsKeeps ==
  ASSUME NEW n \in Nat, NEW t, Sound(t, n), NEW mons \in Seq(Outputs)
  PROVE  LET s == set_monitors(t, mons)
         IN  /\ WellFormed(s, n) /\ ListsOwned(s) /\ ActiveInPool(s) /\ Refreshed(s)
             /\ s.monitors = mons
             /\ \A o \in Range(t.monitors) \ Range(mons) : s.parked[o] = park(t, o)
             /\ \A ws \in 1 .. n :
                  /\ claimants(t, mons, ws) = {} /\ monitor_of(t, ws) > 0 =>
                       s.ws_owner[ws] = monitor_index_by_name(mons, t.monitors[monitor_of(t, ws)])
                  /\ \A i \in DOMAIN mons : claimants(t, mons, ws) = {i} => s.ws_owner[ws] = i
             /\ \A i \in 1 .. Len(mons) :
                  /\ InOrder(owned(s, i), seed_of(t, mons, i), s.monitor_pools[i])
                  /\ shown_of(t, mons, i) \in owned(s, i) =>
                       s.active_ws[i] = shown_of(t, mons, i)
                  /\ /\ is_mon_valid(t, t.focused_monitor)
                     /\ monitor_index_by_name(mons, t.monitors[t.focused_monitor]) = i
                     /\ owned(s, i) # {}
                     => s.focused_monitor = i
<1> DEFINE M == Len(t.monitors)
           K == Len(mons)
           oldIdx(i) == monitor_index_by_name(t.monitors, mons[i])
           gone   == {o \in Range(t.monitors) : o \notin Range(mons)}
           parked == [o \in Outputs |-> IF o \in gone THEN park(t, o) ELSE t.parked[o]]
           back   == {i \in DOMAIN mons : oldIdx(i) = 0}
           claims(ws) == {i \in back : ws \in Range(parked[mons[i]].pool)}
           moved(ws) == LET m == monitor_of(t, ws)
                        IN  IF m > 0 THEN monitor_index_by_name(mons, t.monitors[m]) ELSE 0
           own    == [ws \in DOMAIN t.ws_owner |->
                        IF claims(ws) = {} THEN moved(ws)
                        ELSE CHOOSE i \in claims(ws) : \A j \in claims(ws) : j <= i]
           owner  == List(own)
           seeds  == [i \in DOMAIN mons |->
                        IF oldIdx(i) > 0 THEN t.monitor_pools[oldIdx(i)]
                        ELSE parked[mons[i]].pool]
           seed   == List(seeds)
           shows  == [i \in DOMAIN mons |->
                        IF oldIdx(i) > 0 THEN active_ws_of_monitor(t, oldIdx(i))
                        ELSE parked[mons[i]].active]
           shown  == List(shows)
           left   == [o \in Outputs |->
                        IF \E i \in back : mons[i] = o THEN nothing_parked ELSE parked[o]]
           next   == [t EXCEPT !.monitors = mons, !.ws_owner = owner,
                               !.focused_monitor = refocus(t, mons), !.parked = left]
           Entry  == [pool : Seq(1 .. n), active : 0 .. n]
           s      == set_monitors(t, mons)
<1>1. s = finish(next, seed, shown)
  BY DEF set_monitors, finish
<1>2. /\ t \in Fields(n) /\ M \in Nat /\ DOMAIN t.monitors = 1 .. M
      /\ t.monitors \in Seq(Outputs) /\ DOMAIN t.ws_owner = 1 .. n
      /\ t.monitor_pools \in Seq(Seq(1 .. n)) /\ Len(t.monitor_pools) = M
      /\ t.parked \in [Outputs -> Entry] /\ t.focused_monitor \in Nat
  BY DEF Sound, WellFormed, Fields
<1>3. K \in Nat /\ DOMAIN mons = 1 .. K /\ \A i \in 1 .. K : mons[i] \in Outputs
  OBVIOUS
<1>4. \A m \in 1 .. M : t.monitor_pools[m] \in Seq(1 .. n)
  BY <1>2
<1>5. \A o \in gone : o \in Outputs /\ park(t, o) \in Entry
  <2> TAKE o \in gone
  <2> DEFINE i == monitor_index_by_name(t.monitors, o)
  <2>1. i \in 1 .. M /\ t.monitors[i] = o
    BY <1>2, IndexByName
  <2>2. t.monitor_pools[i] \in Seq(1 .. n)
    BY <1>4, <2>1
  <2>3. active_ws_of_monitor(t, i) \in 0 .. n
    BY <1>2, ActiveOf
  <2> QED
    BY <1>2, <2>1, <2>2, <2>3 DEF park
<1>6. /\ \A i \in 1 .. K : oldIdx(i) \in 0 .. M
      /\ \A i \in 1 .. K : oldIdx(i) > 0 <=> mons[i] \in Range(t.monitors)
  BY <1>2, IndexOf DEF monitor_index_by_name
<1>7. /\ \A i \in 1 .. K : mons[i] \in Range(mons)
      /\ \A i \in 1 .. K : mons[i] \notin gone
  BY <1>3 DEF Range
<1> HIDE DEF Entry
<1>8. parked \in [Outputs -> Entry]
      /\ (\A i \in 1 .. K : parked[mons[i]] = t.parked[mons[i]])
      /\ \A o \in gone : parked[o] = park(t, o)
  BY <1>2, <1>3, <1>5, <1>7
<1> HIDE DEF parked
<1>9. /\ left \in [Outputs -> Entry]
      /\ \A o \in gone : left[o] = park(t, o)
  <2>1. nothing_parked \in Entry
    BY DEF nothing_parked, Entry
  <2>2. \A o \in gone : ~ \E i \in back : mons[i] = o
    BY <1>3, <1>7
  <2> QED
    BY <1>5, <1>8, <2>1, <2>2
<1>10. \A i \in 1 .. K : t.parked[mons[i]].pool \in Seq(1 .. n)
  BY <1>2, <1>3 DEF Entry
<1>11. \A ws : claims(ws) = claimants(t, mons, ws)
  BY <1>3, <1>6, <1>8 DEF claimants
<1>12. \A i \in 1 .. K : seeds[i] = seed_of(t, mons, i) /\ shows[i] = shown_of(t, mons, i)
  BY <1>3, <1>6, <1>8 DEF seed_of, shown_of
<1> HIDE DEF left, gone
<1>13. own \in [1 .. n -> 0 .. K]
  <2>1. ASSUME NEW ws \in 1 .. n PROVE moved(ws) \in 0 .. K
    BY <1>3, IndexByName
  <2>2. ASSUME NEW ws \in 1 .. n, claims(ws) # {}
        PROVE  (CHOOSE i \in claims(ws) : \A j \in claims(ws) : j <= i) \in 0 .. K
    <3> DEFINE T == claims(ws)
    <3>1. T \in SUBSET (1 .. K) /\ T # {}
      BY <1>3, <2>2
    <3> HIDE DEF T
    <3>2. \E i \in T : \A j \in T : j <= i
      BY <1>3, <3>1, GreatestExists
    <3> DEFINE last == CHOOSE i \in T : \A j \in T : j <= i
    <3>3. last \in T
      BY <3>2
    <3> HIDE DEF last
    <3>4. last \in 0 .. K
      BY <1>3, <3>1, <3>3
    <3> QED
      BY <3>4 DEF T, last
  <2> HIDE DEF claims, moved
  <2> QED
    BY <1>2, <2>1, <2>2
<1>14. ASSUME NEW ws \in 1 .. n
       PROVE  /\ claimants(t, mons, ws) = {} /\ monitor_of(t, ws) > 0 =>
                   own[ws] = monitor_index_by_name(mons, t.monitors[monitor_of(t, ws)])
              /\ \A i \in DOMAIN mons : claimants(t, mons, ws) = {i} => own[ws] = i
  <2>1. claims(ws) = claimants(t, mons, ws)
    BY <1>11
  <2>2. own[ws] = IF claims(ws) = {} THEN moved(ws)
                  ELSE CHOOSE i \in claims(ws) : \A j \in claims(ws) : j <= i
    BY <1>2
  <2>3. ASSUME NEW i \in DOMAIN mons, claimants(t, mons, ws) = {i}
        PROVE  own[ws] = i
    <3>0. claims(ws) = {i}
      BY <2>1, <2>3
    <3>1. i \in Nat
      BY <1>3, <2>3 DEF claimants
    <3> HIDE DEF claims, own
    <3>2. own[ws] = CHOOSE k \in {i} : \A j \in {i} : j <= k
      BY <2>2, <3>0
    <3>3. \E k \in {i} : \A j \in {i} : j <= k
      BY <3>1
    <3> QED
      BY <3>2, <3>3
  <2> HIDE DEF claims, own
  <2>4. claimants(t, mons, ws) = {} /\ monitor_of(t, ws) > 0 =>
          own[ws] = monitor_index_by_name(mons, t.monitors[monitor_of(t, ws)])
    BY <2>1, <2>2
  <2> QED
    BY <2>3, <2>4
<1> HIDE DEF own
<1>15. owner = own
  BY <1>2, <1>13, ListIs
<1>16. owner \in [1 .. n -> Nat] /\ \A ws \in 1 .. n : owner[ws] <= K
  <2> HIDE DEF owner
  <2> QED
    BY <1>3, <1>13, <1>15
<1> HIDE DEF owner
<1>17. refocus(t, mons) \in Nat
  BY <1>2, <1>3, IndexByName DEF refocus
<1>18. seed \in [1 .. K -> Seq(Nat)] /\ \A i \in 1 .. K : seed[i] = seed_of(t, mons, i)
  <2> DEFINE Lists == Seq(Nat)
  <2>1. Seq(1 .. n) \subseteq Lists
    BY SeqMonotonic
  <2>2. \A i \in 1 .. K : seed_of(t, mons, i) \in Lists
    <3> TAKE i \in 1 .. K
    <3>1. CASE mons[i] \in Range(t.monitors)
      <4>1. oldIdx(i) \in 1 .. M
        BY <1>2, <1>6, <3>1
      <4>2. t.monitor_pools[oldIdx(i)] \in Lists
        BY <1>4, <2>1, <4>1
      <4> QED
        BY <3>1, <4>2 DEF seed_of
    <3>2. CASE mons[i] \notin Range(t.monitors)
      BY <1>10, <2>1, <3>2 DEF seed_of
    <3> QED
      BY <3>1, <3>2
  <2> HIDE DEF Lists
  <2>3. seeds \in [1 .. K -> Lists]
    BY <1>3, <1>12, <2>2
  <2> HIDE DEF seeds
  <2>4. seed = seeds
    BY <1>3, <2>3, ListIs
  <2> HIDE DEF seed
  <2> QED
    BY <1>12, <2>3, <2>4 DEF Lists
<1>19. \A i \in 1 .. K : shown[i] = shown_of(t, mons, i)
  <2>1. shows \in [1 .. K -> {shows[k] : k \in 1 .. K}]
    BY <1>3
  <2> HIDE DEF shows
  <2>2. shown = shows
    BY <1>3, <2>1, ListIs
  <2> QED
    BY <1>12, <2>2
<1> HIDE DEF seed, shown
<1>20. /\ next \in Fields(n) /\ next.monitors = mons /\ next.ws_owner = owner
       /\ next.parked = left /\ next.focused_monitor = refocus(t, mons)
  BY <1>2, <1>9, <1>16, <1>17 DEF Fields, Entry
<1> HIDE DEF next
<1> DEFINE v == finish(next, seed, shown)
<1>21. \A ws \in 1 .. n : next.ws_owner[ws] <= Len(next.monitors)
  BY <1>16, <1>20
<1>22. /\ WellFormed(v, n) /\ ListsOwned(v) /\ ActiveInPool(v) /\ Refreshed(v)
       /\ v.monitors = next.monitors /\ v.ws_owner = next.ws_owner
  BY <1>18, <1>20, <1>21, Finish DEF finish
<1>23. /\ v.parked = next.parked
       /\ \A m \in 1 .. Len(next.monitors) :
            /\ InOrder(owned(next, m), seed[m], v.monitor_pools[m])
            /\ shown[m] \in owned(next, m) => v.active_ws[m] = shown[m]
            /\ next.focused_monitor = m /\ owned(next, m) # {} => v.focused_monitor = m
  <2>1. seed \in [1 .. Len(next.monitors) -> Seq(Nat)]
    BY <1>18, <1>20
  <2> QED
    BY <1>20, <1>21, <2>1, FinishKeeps
<1> HIDE DEF v, s
<1>24. s = v
  BY <1>1 DEF v
<1>25. \A m : owned(s, m) = owned(next, m)
  BY <1>22, <1>24 DEF owned
<1>26. \A o \in Range(t.monitors) \ Range(mons) : s.parked[o] = park(t, o)
  BY <1>9, <1>20, <1>23, <1>24 DEF gone
<1>27. \A ws \in 1 .. n :
         /\ claimants(t, mons, ws) = {} /\ monitor_of(t, ws) > 0 =>
              s.ws_owner[ws] = monitor_index_by_name(mons, t.monitors[monitor_of(t, ws)])
         /\ \A i \in DOMAIN mons : claimants(t, mons, ws) = {i} => s.ws_owner[ws] = i
  BY <1>14, <1>15, <1>20, <1>22, <1>24
<1>28. ASSUME NEW i \in 1 .. K
       PROVE  /\ InOrder(owned(s, i), seed_of(t, mons, i), s.monitor_pools[i])
              /\ shown_of(t, mons, i) \in owned(s, i) => s.active_ws[i] = shown_of(t, mons, i)
  BY <1>18, <1>19, <1>20, <1>23, <1>24, <1>25
<1>29. ASSUME NEW i \in 1 .. K, is_mon_valid(t, t.focused_monitor),
              monitor_index_by_name(mons, t.monitors[t.focused_monitor]) = i,
              owned(s, i) # {}
       PROVE  s.focused_monitor = i
  <2>1. refocus(t, mons) = i
    BY <1>3, <1>29 DEF refocus
  <2> QED
    BY <1>20, <1>23, <1>24, <1>25, <1>29, <2>1
<1> QED
  BY <1>20, <1>22, <1>24, <1>26, <1>27, <1>28, <1>29 DEF s
-----------------------------------------------------------------------------
(* A hot-plug: set_monitors, then assign_workspaces.                       *)

Distinct(mons) == \A i, j \in DOMAIN mons : mons[i] = mons[j] => i = j

\* A workspace is on the output it is pinned to while that is connected.
PinsKept(t, c) ==
  \A ws \in DOMAIN t.ws_owner :
    LET m == monitor_index_by_name(t.monitors, c.pins[ws])
    IN  m > 0 => t.ws_owner[ws] = m

\* What a step needs to know of the state it starts from.
Placed(t, c) ==
  Sound(t, Len(c.pins)) /\ Distinct(t.monitors) /\ PinsKept(t, c)

\* The workspace ws is on the monitor i when set_monitors is done, and is still
\* there when assign_workspaces is.
Through(t, mons, c, ws, i) ==
  set_monitors(t, mons).ws_owner[ws] = i /\ plug(t, mons, c).ws_owner[ws] = i

\* assign_workspaces sends a pinned workspace to its pin.
LEMMA AssignPins ==
  ASSUME NEW c \in Config, NEW t, Draft(t, Len(c.pins))
  PROVE  PinsKept(assign_workspaces(t, c), c)
<1> DEFINE u == assign_workspaces(t, c)
           n == Len(c.pins)
<1>1. Sound(u, n) /\ u.monitors = t.monitors /\ n \in Nat
  BY Assign DEF Config
<1>2. DOMAIN u.ws_owner = 1 .. n
  BY <1>1 DEF Sound, WellFormed, Fields
<1> SUFFICES ASSUME NEW ws \in 1 .. n, monitor_index_by_name(t.monitors, c.pins[ws]) > 0
             PROVE  u.ws_owner[ws] = monitor_index_by_name(t.monitors, c.pins[ws])
  BY <1>1, <1>2 DEF PinsKept
<1>3. t.monitors # <<>>
  <2>1. t.monitors \in Seq(Outputs)
    BY DEF Draft, Fields
  <2>2. monitor_index_by_name(t.monitors, c.pins[ws]) \in 0 .. Len(t.monitors)
    BY <2>1, IndexByName
  <2> QED
    BY <2>2
<1> QED
  BY <1>3, AssignKeeps

\* In a list without repetition a name has one position.
LEMMA OnePosition ==
  ASSUME NEW mons \in Seq(Outputs), Distinct(mons), NEW i \in DOMAIN mons
  PROVE  monitor_index_by_name(mons, mons[i]) = i
<1>1. mons[i] \in Range(mons)
  BY DEF Range
<1>2. /\ monitor_index_by_name(mons, mons[i]) \in DOMAIN mons
      /\ mons[monitor_index_by_name(mons, mons[i])] = mons[i]
  BY <1>1, IndexByName
<1> QED
  BY <1>2 DEF Distinct

\* What a hot-plug leaves is as sound as what it finds.
LEMMA PlugPlaced ==
  ASSUME NEW c \in Config, NEW t, Placed(t, c), NEW mons \in Seq(Outputs), Distinct(mons)
  PROVE  Placed(plug(t, mons, c), c) /\ plug(t, mons, c).monitors = mons
<1> DEFINE n == Len(c.pins)
           s == set_monitors(t, mons)
<1>1. n \in Nat
  BY DEF Config
<1>2. Draft(s, n) /\ s.monitors = mons
  BY <1>1, SetMonitors, SetMonitorsKeeps DEF Placed
<1> HIDE DEF s
<1>3. Sound(assign_workspaces(s, c), n) /\ assign_workspaces(s, c).monitors = mons
  BY <1>2, Assign
<1>4. PinsKept(assign_workspaces(s, c), c)
  BY <1>2, AssignPins
<1> QED
  BY <1>3, <1>4 DEF Placed, plug, s

\* A workspace stays with its output when no output that the hot-plug connects
\* had it before or has it pinned.
LEMMA Stays ==
  ASSUME NEW c \in Config, NEW t, Placed(t, c), NEW mons \in Seq(Outputs), Distinct(mons),
         NEW ws \in 1 .. Len(c.pins), NEW m \in DOMAIN t.monitors, NEW i \in DOMAIN mons,
         t.ws_owner[ws] = m, mons[i] = t.monitors[m],
         claimants(t, mons, ws) = {},
         c.pins[ws] \notin Range(mons) \ Range(t.monitors)
  PROVE  Through(t, mons, c, ws, i)
<1> DEFINE n == Len(c.pins)
           s == set_monitors(t, mons)
<1>1. n \in Nat /\ Sound(t, n)
  BY DEF Config, Placed
<1>2. /\ t.monitors \in Seq(Outputs) /\ DOMAIN t.ws_owner = 1 .. n
      /\ DOMAIN t.monitors = 1 .. Len(t.monitors) /\ Len(t.monitors) \in Nat
  BY <1>1 DEF Sound, WellFormed, Fields
<1>3. monitor_of(t, ws) = m /\ m > 0
  BY <1>2 DEF monitor_of, is_ws_valid, is_mon_valid
<1>4. s.ws_owner[ws] = i
  <2>1. s.ws_owner[ws] = monitor_index_by_name(mons, t.monitors[m])
    BY <1>1, <1>3, SetMonitorsKeeps
  <2> QED
    BY <2>1, OnePosition
<1>5. Draft(s, n) /\ s.monitors = mons /\ DOMAIN s.ws_owner = 1 .. n
  <2>1. Draft(s, n) /\ s.monitors = mons
    BY <1>1, SetMonitors, SetMonitorsKeeps
  <2> HIDE DEF s
  <2> QED
    BY <2>1 DEF Draft, Fields
<1> HIDE DEF s
<1>6. mons # <<>> /\ i \in 1 .. Len(mons)
  OBVIOUS
<1>7. monitor_of(s, ws) = i /\ i > 0
  BY <1>4, <1>5, <1>6 DEF monitor_of, is_ws_valid, is_mon_valid
<1> DEFINE pinned == monitor_index_by_name(mons, c.pins[ws])
<1>8. pinned \in 0 .. Len(mons)
  BY IndexByName
<1>9. CASE pinned > 0
  <2>1. c.pins[ws] \in Range(mons)
    BY <1>9, IndexOf DEF monitor_index_by_name
  <2>2. c.pins[ws] \in Range(t.monitors)
    BY <2>1
  <2>3. /\ monitor_index_by_name(t.monitors, c.pins[ws]) \in 1 .. Len(t.monitors)
        /\ t.monitors[monitor_index_by_name(t.monitors, c.pins[ws])] = c.pins[ws]
    BY <1>2, <2>2, IndexByName
  <2>4. monitor_index_by_name(t.monitors, c.pins[ws]) = m
    BY <1>2, <2>3 DEF Placed, PinsKept
  <2>5. pinned = i
    BY <2>3, <2>4, OnePosition
  <2>6. assign_workspaces(s, c).ws_owner[ws] = pinned
    BY <1>5, <1>6, <1>9, AssignKeeps
  <2> QED
    BY <1>4, <2>5, <2>6 DEF Through, plug, s
<1>10. CASE pinned = 0
  <2>1. assign_workspaces(s, c).ws_owner[ws] = i
    BY <1>5, <1>6, <1>7, <1>10, AssignKeeps
  <2> QED
    BY <1>4, <2>1 DEF Through, plug, s
<1> QED
  BY <1>8, <1>9, <1>10

\* A workspace goes to the one output that comes back for it, unless another
\* output has it pinned.
LEMMA Returns ==
  ASSUME NEW c \in Config, NEW t, Placed(t, c), NEW mons \in Seq(Outputs), Distinct(mons),
         NEW ws \in 1 .. Len(c.pins), NEW i \in DOMAIN mons,
         claimants(t, mons, ws) = {i},
         c.pins[ws] \in Range(mons) => c.pins[ws] = mons[i]
  PROVE  Through(t, mons, c, ws, i)
<1> DEFINE n == Len(c.pins)
           s == set_monitors(t, mons)
<1>1. n \in Nat /\ Sound(t, n)
  BY DEF Config, Placed
<1>2. s.ws_owner[ws] = i
  <2>1. \A w \in 1 .. n : \A j \in DOMAIN mons : claimants(t, mons, w) = {j} => s.ws_owner[w] = j
    BY <1>1, SetMonitorsKeeps
  <2> QED
    BY <2>1
<1>3. Draft(s, n) /\ s.monitors = mons /\ DOMAIN s.ws_owner = 1 .. n
  <2>1. Draft(s, n) /\ s.monitors = mons
    BY <1>1, SetMonitors, SetMonitorsKeeps
  <2> HIDE DEF s
  <2> QED
    BY <2>1 DEF Draft, Fields
<1> HIDE DEF s
<1>4. mons # <<>> /\ i \in 1 .. Len(mons)
  OBVIOUS
<1>5. monitor_of(s, ws) = i /\ i > 0
  BY <1>2, <1>3, <1>4 DEF monitor_of, is_ws_valid, is_mon_valid
<1> DEFINE pinned == monitor_index_by_name(mons, c.pins[ws])
<1>6. pinned \in 0 .. Len(mons)
  BY IndexByName
<1>7. CASE pinned > 0
  <2>1. c.pins[ws] \in Range(mons)
    BY <1>7, IndexOf DEF monitor_index_by_name
  <2>2. pinned = i
    BY <2>1, OnePosition
  <2>3. assign_workspaces(s, c).ws_owner[ws] = pinned
    BY <1>3, <1>4, <1>7, AssignKeeps
  <2> QED
    BY <1>2, <2>2, <2>3 DEF Through, plug, s
<1>8. CASE pinned = 0
  <2>1. assign_workspaces(s, c).ws_owner[ws] = i
    BY <1>3, <1>4, <1>5, <1>8, AssignKeeps
  <2> QED
    BY <1>2, <2>1 DEF Through, plug, s
<1> QED
  BY <1>6, <1>7, <1>8

\* Two workspaces that come through a hot-plug to the same monitor keep the
\* order they were found in.
LEMMA PlugOrders ==
  ASSUME NEW c \in Config, NEW t, Placed(t, c), NEW mons \in Seq(Outputs), NEW i \in DOMAIN mons,
         NEW x \in 1 .. Len(c.pins), NEW y \in 1 .. Len(c.pins),
         Through(t, mons, c, x, i), Through(t, mons, c, y, i),
         x \in Range(seed_of(t, mons, i)), y \in Range(seed_of(t, mons, i)),
         index_of(seed_of(t, mons, i), x) < index_of(seed_of(t, mons, i), y)
  PROVE  index_of(plug(t, mons, c).monitor_pools[i], x) <
           index_of(plug(t, mons, c).monitor_pools[i], y)
<1> DEFINE n == Len(c.pins)
           s == set_monitors(t, mons)
           u == assign_workspaces(s, c)
<1>1. n \in Nat /\ Sound(t, n) /\ i \in 1 .. Len(mons) /\ mons # <<>> /\ DOMAIN mons = 1 .. Len(mons)
  BY DEF Config, Placed
<1>2. /\ Draft(s, n) /\ s.monitors = mons /\ WellFormed(s, n) /\ ListsOwned(s)
      /\ InOrder(owned(s, i), seed_of(t, mons, i), s.monitor_pools[i])
  BY <1>1, SetMonitors, SetMonitorsKeeps
<1>3. s.ws_owner[x] = i /\ s.ws_owner[y] = i /\ u.ws_owner[x] = i /\ u.ws_owner[y] = i
  BY DEF Through, plug
<1> HIDE DEF s
<1>4. Sound(u, n) /\ InOrder(owned(u, i), s.monitor_pools[i], u.monitor_pools[i])
  BY <1>1, <1>2, Assign, AssignKeeps
<1> HIDE DEF u
<1>5. DOMAIN s.ws_owner = 1 .. n /\ DOMAIN u.ws_owner = 1 .. n
  BY <1>2, <1>4 DEF Sound, WellFormed, Fields
<1>6. x \in owned(s, i) /\ y \in owned(s, i) /\ x \in owned(u, i) /\ y \in owned(u, i)
  BY <1>3, <1>5 DEF owned
<1>7. index_of(s.monitor_pools[i], x) < index_of(s.monitor_pools[i], y)
  BY <1>2, <1>6 DEF InOrder
<1>8. x \in Range(s.monitor_pools[i]) /\ y \in Range(s.monitor_pools[i])
  BY <1>1, <1>2, <1>6 DEF ListsOwned, owned
<1>9. index_of(u.monitor_pools[i], x) < index_of(u.monitor_pools[i], y)
  BY <1>4, <1>6, <1>7, <1>8 DEF InOrder
<1> QED
  BY <1>9 DEF plug, u, s

\* A monitor goes on showing a workspace that comes through to it.
LEMMA PlugShows ==
  ASSUME NEW c \in Config, NEW t, Placed(t, c), NEW mons \in Seq(Outputs), NEW i \in DOMAIN mons,
         shown_of(t, mons, i) \in 1 .. Len(c.pins),
         Through(t, mons, c, shown_of(t, mons, i), i)
  PROVE  plug(t, mons, c).active_ws[i] = shown_of(t, mons, i)
<1> DEFINE n == Len(c.pins)
           s == set_monitors(t, mons)
           u == assign_workspaces(s, c)
           w == shown_of(t, mons, i)
<1>1. n \in Nat /\ Sound(t, n) /\ i \in 1 .. Len(mons) /\ mons # <<>> /\ DOMAIN mons = 1 .. Len(mons)
  BY DEF Config, Placed
<1>2. /\ Draft(s, n) /\ s.monitors = mons /\ WellFormed(s, n) /\ Refreshed(s)
      /\ w \in owned(s, i) => s.active_ws[i] = w
  BY <1>1, SetMonitors, SetMonitorsKeeps
<1>3. s.ws_owner[w] = i /\ u.ws_owner[w] = i
  BY DEF Through, plug
<1> HIDE DEF s
<1>4. /\ Sound(u, n)
      /\ active_ws_of_monitor(s, i) \in owned(u, i) => u.active_ws[i] = active_ws_of_monitor(s, i)
  BY <1>1, <1>2, Assign, AssignKeeps
<1> HIDE DEF u
<1>5. DOMAIN s.ws_owner = 1 .. n /\ DOMAIN u.ws_owner = 1 .. n
  BY <1>2, <1>4 DEF Sound, WellFormed, Fields
<1>6. w \in owned(s, i) /\ w \in owned(u, i)
  BY <1>3, <1>5 DEF owned
<1>7. active_ws_of_monitor(s, i) = w
  BY <1>1, <1>2, <1>6 DEF Refreshed
<1> QED
  BY <1>4, <1>6, <1>7 DEF plug, u, s

\* The focus stays on an output to which a workspace comes through.
LEMMA PlugFocuses ==
  ASSUME NEW c \in Config, NEW t, Placed(t, c), NEW mons \in Seq(Outputs), Distinct(mons),
         NEW i \in DOMAIN mons, is_mon_valid(t, t.focused_monitor),
         mons[i] = t.monitors[t.focused_monitor],
         NEW ws \in 1 .. Len(c.pins), Through(t, mons, c, ws, i)
  PROVE  plug(t, mons, c).focused_monitor = i
<1> DEFINE n == Len(c.pins)
           s == set_monitors(t, mons)
           u == assign_workspaces(s, c)
<1>1. n \in Nat /\ Sound(t, n) /\ i \in 1 .. Len(mons) /\ mons # <<>> /\ DOMAIN mons = 1 .. Len(mons)
  BY DEF Config, Placed
<1>2. monitor_index_by_name(mons, t.monitors[t.focused_monitor]) = i
  BY OnePosition
<1>3. /\ Draft(s, n) /\ s.monitors = mons /\ WellFormed(s, n)
      /\ owned(s, i) # {} => s.focused_monitor = i
  BY <1>1, <1>2, SetMonitors, SetMonitorsKeeps
<1>4. s.ws_owner[ws] = i /\ u.ws_owner[ws] = i
  BY DEF Through, plug
<1> HIDE DEF s
<1>5. /\ Sound(u, n)
      /\ s.focused_monitor = i /\ owned(u, i) # {} => u.focused_monitor = i
  BY <1>1, <1>3, Assign, AssignKeeps
<1> HIDE DEF u
<1>6. DOMAIN s.ws_owner = 1 .. n /\ DOMAIN u.ws_owner = 1 .. n
  BY <1>3, <1>5 DEF Sound, WellFormed, Fields
<1>7. ws \in owned(s, i) /\ ws \in owned(u, i)
  BY <1>4, <1>6 DEF owned
<1> QED
  BY <1>3, <1>5, <1>7 DEF plug, u, s

\* An output that a hot-plug disconnects is parked as it was.
LEMMA PlugParks ==
  ASSUME NEW c \in Config, NEW t, Placed(t, c), NEW mons \in Seq(Outputs),
         NEW o \in Range(t.monitors) \ Range(mons)
  PROVE  plug(t, mons, c).parked[o] = park(t, o)
<1> DEFINE n == Len(c.pins)
           s == set_monitors(t, mons)
<1>1. n \in Nat /\ Sound(t, n)
  BY DEF Config, Placed
<1>2. Draft(s, n) /\ s.parked[o] = park(t, o)
  BY <1>1, SetMonitors, SetMonitorsKeeps
<1> HIDE DEF s
<1>3. assign_workspaces(s, c).parked = s.parked
  BY <1>2, AssignKeeps
<1> QED
  BY <1>2, <1>3 DEF plug, s
-----------------------------------------------------------------------------
(* The theorems.                                                           *)

IInv ==
  /\ settings \in Configs /\ wsman.monitors \in MonitorLists
  /\ Placed(wsman, settings)

\* A monitor list a backend reports names every output once.
LEMMA Reported ==
  ASSUME NEW mons \in MonitorLists
  PROVE  mons \in Seq(Outputs) /\ Distinct(mons)
BY TopologyAssumption DEF Distinct

\* An operation that changes neither monitors nor owners leaves the pins alone.
LEMMA PinsStay ==
  ASSUME NEW t, NEW u, NEW c, PinsKept(t, c),
         u.monitors = t.monitors, u.ws_owner = t.ws_owner
  PROVE  PinsKept(u, c)
BY DEF PinsKept

\* Core::init establishes the invariant.
LEMMA PlacedInitially == Init => IInv
<1> SUFFICES ASSUME NEW mons \in MonitorLists, NEW c \in Configs,
                    wsman = init_from_defs(mons, c), settings = c
             PROVE  IInv
  BY DEF Init
<1>1. mons \in Seq(Outputs) /\ Distinct(mons) /\ c \in Config
  BY Reported, TopologyAssumption
<1>2. PICK t : /\ Draft(t, Len(c.pins)) /\ t.monitors = mons
               /\ init_from_defs(mons, c) = assign_workspaces(t, c)
  BY <1>1, InitDraft
<1>3. Sound(wsman, Len(c.pins)) /\ wsman.monitors = mons
  BY <1>1, <1>2, Assign
<1>4. PinsKept(wsman, c)
  BY <1>1, <1>2, AssignPins
<1> QED
  BY <1>1, <1>3, <1>4 DEF IInv, Placed

\* So does every step.
LEMMA PlacedAlways == IInv /\ [Next]_vars => IInv'
<1> SUFFICES ASSUME IInv, [Next]_vars PROVE IInv'
  OBVIOUS
<1> DEFINE n == Len(settings.pins)
<1>1. /\ settings \in Configs /\ settings \in Config /\ n \in Nat /\ n > 0
      /\ Placed(wsman, settings) /\ Sound(wsman, n) /\ wsman.monitors \in MonitorLists
  BY TopologyAssumption DEF IInv, Placed, Config
<1>2. /\ DOMAIN wsman.monitors = 1 .. Len(wsman.monitors) /\ DOMAIN wsman.ws_owner = 1 .. n
  BY <1>1 DEF Sound, WellFormed, Fields
<1>3. ASSUME Keeps(wsman, wsman', n), settings' = settings
      PROVE  IInv'
  <2>1. PinsKept(wsman', settings)
    BY <1>1, <1>3, PinsStay DEF Keeps, Placed
  <2> QED
    BY <1>1, <1>3, <2>1 DEF IInv, Placed, Keeps
<1>4. ASSUME NEW mons \in MonitorLists, ApplyMonitorTopology(mons)
      PROVE  IInv'
  <2>1. wsman' = plug(wsman, mons, settings) /\ settings' = settings
    BY <1>4 DEF ApplyMonitorTopology
  <2>2. Placed(wsman', settings) /\ wsman'.monitors = mons
    BY <1>1, <2>1, Reported, PlugPlaced
  <2> QED
    BY <1>1, <2>1, <2>2 DEF IInv
<1>5. ASSUME NEW c \in Configs, NEW mons \in MonitorLists, Reload(c, mons)
      PROVE  IInv'
  <2> DEFINE k       == Len(c.pins)
             defined == update_workspace_defs(wsman, c)
             applied == assign_workspaces(defined, c)
             placed  == plug(applied, mons, c)
             u       == restore_active(placed, applied.active_ws)
  <2>1. c \in Config /\ k \in Nat /\ k > 0
    BY TopologyAssumption DEF Config
  <2>2. Draft(defined, k) /\ defined.monitors = wsman.monitors
    BY <1>1, <2>1, UpdateDefs
  <2>3. wsman' = u /\ settings' = c
    BY <1>5 DEF Reload
  <2> HIDE DEF defined
  <2>4. Placed(applied, c)
    <3>1. Sound(applied, k) /\ applied.monitors = wsman.monitors
      BY <2>1, <2>2, Assign
    <3>2. PinsKept(applied, c)
      BY <2>1, <2>2, AssignPins
    <3> QED
      BY <1>1, <3>1, <3>2, Reported DEF Placed
  <2> HIDE DEF applied
  <2>5. Placed(placed, c) /\ placed.monitors = mons
    BY <2>1, <2>4, Reported, PlugPlaced
  <2> HIDE DEF placed
  <2>6. Keeps(placed, u, k)
    BY <2>1, <2>5, RestoreActive DEF Placed
  <2> HIDE DEF u
  <2>7. PinsKept(u, c)
    BY <2>5, <2>6, PinsStay DEF Keeps, Placed
  <2> QED
    BY <2>3, <2>5, <2>6, <2>7 DEF IInv, Placed, Keeps
<1>6. ASSUME NEW ws \in DOMAIN wsman.ws_owner, NEW hint, SwitchWorkspace(ws, hint)
      PROVE  IInv'
  <2>1. ws \in 1 .. n /\ wsman.monitors # <<>>
    BY <1>2, <1>6 DEF SwitchWorkspace
  <2>2. Keeps(wsman, wsman', n) /\ settings' = settings
    BY <1>1, <1>6, <2>1, SwitchesTo DEF SwitchWorkspace
  <2> QED
    BY <1>3, <2>2
<1>7. ASSUME NEW local, SwitchWorkspaceLocalIndex(local)
      PROVE  IInv'
  <2>1. Keeps(wsman, wsman', n) /\ settings' = settings
    BY <1>1, <1>7, SwitchLocal DEF SwitchWorkspaceLocalIndex
  <2> QED
    BY <1>3, <2>1
<1>8. ASSUME NEW m \in DOMAIN wsman.monitors, FocusMonitor(m) \/ FocusMonitorAtPoint(m)
      PROVE  IInv'
  <2>1. wsman' = [wsman EXCEPT !.focused_monitor = m] /\ settings' = settings
    BY <1>8 DEF FocusMonitor, FocusMonitorAtPoint
  <2>2. m \in Nat
    BY <1>2
  <2>3. Keeps(wsman, wsman', n)
    BY <1>1, <2>1, <2>2, FocusOnly
  <2> QED
    BY <1>3, <2>1, <2>3
<1>9. ASSUME NEW ws, FocusWindowOn(ws)
      PROVE  IInv'
  <2>1. Keeps(wsman, wsman', n) /\ settings' = settings
    BY <1>1, <1>9, FocusWorkspace DEF FocusWindowOn
  <2> QED
    BY <1>3, <2>1
<1>10. CASE UNCHANGED vars
  BY <1>10 DEF vars, IInv
<1> QED
  BY <1>4, <1>5, <1>6, <1>7, <1>8, <1>9, <1>10 DEF Next

\* What no connected output takes stays where it is.
LEMMA NotTaken ==
  ASSUME IInv, IInv', HotPlug, NEW ws \in 1 .. Len(settings.pins), ws \notin Taken,
         NEW m \in DOMAIN wsman.monitors, wsman.ws_owner[ws] = m,
         NEW i \in DOMAIN wsman'.monitors, wsman'.monitors[i] = wsman.monitors[m]
  PROVE  Through(wsman, wsman'.monitors, settings, ws, i)
<1> DEFINE mons == wsman'.monitors
<1>1. mons \in Seq(Outputs) /\ Distinct(mons)
  BY Reported DEF IInv
<1>2. settings \in Config /\ Placed(wsman, settings)
  BY TopologyAssumption DEF IInv
<1>3. DOMAIN settings.pins = 1 .. Len(settings.pins)
  BY <1>2 DEF Config
<1>4. claimants(wsman, mons, ws) = {}
  <2> SUFFICES ASSUME NEW k \in claimants(wsman, mons, ws) PROVE FALSE
    OBVIOUS
  <2>1. /\ k \in DOMAIN mons /\ mons[k] \notin Range(wsman.monitors)
        /\ ws \in Range(wsman.parked[mons[k]].pool)
    BY DEF claimants
  <2>2. mons[k] \in Connected
    BY <2>1 DEF Connected, Range
  <2> QED
    BY <1>3, <2>1, <2>2 DEF Taken
<1>5. settings.pins[ws] \notin Range(mons) \ Range(wsman.monitors)
  <2>1. ws \in DOMAIN settings.pins
    BY <1>3
  <2>2. settings.pins[ws] \in Connected => ws \in Taken
    BY <2>1 DEF Taken
  <2> QED
    BY <2>2 DEF Connected
<1> HIDE DEF mons
<1>6. i \in DOMAIN mons /\ mons[i] = wsman.monitors[m]
  BY DEF mons
<1>7. Through(wsman, mons, settings, ws, i)
  BY <1>1, <1>2, <1>4, <1>5, <1>6, Stays
<1> QED
  BY <1>7 DEF mons

\* The outputs that stay connected keep showing what they show.
LEMMA Survivors == IInv /\ IInv' => KeepShowing
<1> SUFFICES ASSUME IInv, IInv', HotPlug,
                    NEW o \in Range(wsman.monitors) \cap Range(wsman'.monitors),
                    ShownOn(wsman, o) # 0, ShownOn(wsman, o) \notin Taken
             PROVE  ShownOn(wsman', o) = ShownOn(wsman, o)
  BY DEF KeepShowing
<1> DEFINE mons == wsman'.monitors
           n == Len(settings.pins)
           m == monitor_index_by_name(wsman.monitors, o)
           i == monitor_index_by_name(mons, o)
           w == ShownOn(wsman, o)
<1>1. mons \in Seq(Outputs) /\ Distinct(mons) /\ wsman.monitors \in Seq(Outputs)
  BY Reported DEF IInv
<1>2. /\ settings \in Config /\ Placed(wsman, settings) /\ n \in Nat /\ Sound(wsman, n)
  BY TopologyAssumption DEF IInv, Placed, Config
<1>3. /\ m \in 1 .. Len(wsman.monitors) /\ wsman.monitors[m] = o
      /\ i \in 1 .. Len(mons) /\ mons[i] = o
  BY <1>1, IndexByName
<1>4. m \in DOMAIN wsman.monitors /\ i \in DOMAIN mons /\ m # 0 /\ i # 0
  BY <1>1, <1>3
<1>5. w = wsman.active_ws[m] /\ w = active_ws_of_monitor(wsman, m)
  BY <1>2, <1>4 DEF ShownOn, Sound, Refreshed
<1>6. w \in 1 .. n /\ wsman.ws_owner[w] = m
  <2>1. /\ wsman \in Fields(n) /\ Len(wsman.monitor_pools) = Len(wsman.monitors)
        /\ ListsOwned(wsman)
    BY <1>2 DEF Sound, WellFormed
  <2>2. w \in 0 .. n /\ (w > 0 => w \in Range(wsman.monitor_pools[m]))
    BY <1>2, <1>5, <2>1, ActiveOf
  <2>3. w \in 1 .. n
    BY <1>2, <2>2
  <2> QED
    BY <1>4, <2>1, <2>2, <2>3 DEF ListsOwned
<1> HIDE DEF w, m, i
<1>7. Through(wsman, wsman'.monitors, settings, w, i)
  BY <1>3, <1>4, <1>6, NotTaken DEF w
<1>8. shown_of(wsman, mons, i) = w
  <2>1. mons[i] \in Range(wsman.monitors)
    BY <1>3
  <2> QED
    BY <1>3, <1>5, <2>1 DEF shown_of, m
<1>9. wsman' = plug(wsman, mons, settings)
  BY DEF HotPlug, ApplyMonitorTopology
<1> HIDE DEF mons
<1>10. Through(wsman, mons, settings, w, i)
  BY <1>7 DEF mons
<1>11. plug(wsman, mons, settings).active_ws[i] = w
  BY <1>1, <1>2, <1>4, <1>6, <1>8, <1>10, PlugShows
<1>12. wsman'.active_ws[i] = w
  BY <1>9, <1>11
<1> QED
  BY <1>4, <1>12 DEF ShownOn, w, i, mons

\* The focus stays on its output while a workspace is left to it.
LEMMA Focused == IInv /\ IInv' => StayFocused
<1> SUFFICES ASSUME IInv, IInv', HotPlug,
                    is_mon_valid(wsman, wsman.focused_monitor),
                    wsman.monitors[wsman.focused_monitor] \in Range(wsman'.monitors),
                    ~ Range(wsman.monitor_pools[wsman.focused_monitor]) \subseteq Taken
             PROVE  wsman'.monitors[wsman'.focused_monitor]
                      = wsman.monitors[wsman.focused_monitor]
  BY DEF StayFocused
<1> DEFINE mons == wsman'.monitors
           n == Len(settings.pins)
           m == wsman.focused_monitor
           i == monitor_index_by_name(mons, wsman.monitors[m])
<1>1. mons \in Seq(Outputs) /\ Distinct(mons)
  BY Reported DEF IInv
<1>2. /\ settings \in Config /\ Placed(wsman, settings) /\ n \in Nat /\ Sound(wsman, n)
  BY TopologyAssumption DEF IInv, Placed, Config
<1>3. m \in DOMAIN wsman.monitors
  BY DEF is_mon_valid
<1>4. i \in 1 .. Len(mons) /\ mons[i] = wsman.monitors[m] /\ i \in DOMAIN mons
  BY <1>1, IndexByName
<1>5. PICK ws \in Range(wsman.monitor_pools[m]) : ws \notin Taken
  OBVIOUS
<1>6. ws \in 1 .. n /\ wsman.ws_owner[ws] = m
  <2>1. ListsOwned(wsman) /\ DOMAIN wsman.ws_owner = 1 .. n
    BY <1>2 DEF Sound, WellFormed, Fields
  <2> QED
    BY <1>3, <1>5, <2>1 DEF ListsOwned
<1> HIDE DEF m, i
<1>7. Through(wsman, wsman'.monitors, settings, ws, i)
  BY <1>3, <1>4, <1>5, <1>6, NotTaken
<1>8. wsman' = plug(wsman, mons, settings)
  BY DEF HotPlug, ApplyMonitorTopology
<1> HIDE DEF mons
<1>9. Through(wsman, mons, settings, ws, i)
  BY <1>7 DEF mons
<1>10. plug(wsman, mons, settings).focused_monitor = i
  BY <1>1, <1>2, <1>4, <1>6, <1>9, PlugFocuses DEF m
<1>11. wsman'.focused_monitor = i
  BY <1>8, <1>10
<1> QED
  BY <1>4, <1>11 DEF m, mons

\* set_monitors and assign_workspaces change what an output that stays connected
\* shows only for the sake of an output that gets its own workspaces.
THEOREM SurvivorsShow == Spec => SurvivorsKeepShowing
BY PlacedInitially, PlacedAlways, Survivors, PTL DEF Spec, SurvivorsKeepShowing

\* set_monitors and select_valid_focused_monitor leave the focus on its output
\* as long as that is connected and has a workspace left.
THEOREM FocusFollows == Spec => FocusStaysOnOutput
BY PlacedInitially, PlacedAlways, Focused, PTL DEF Spec, FocusStaysOnOutput
-----------------------------------------------------------------------------
(* Unplugging an output and plugging it back.                              *)

\* The list that remains names the other outputs, each once.
LEMMA Unplugged ==
  ASSUME NEW mons \in Seq(Outputs), Distinct(mons), NEW gone \in DOMAIN mons
  PROVE  LET left == unplugged(mons, gone)
         IN  /\ left \in Seq(Outputs) /\ Distinct(left)
             /\ \A i \in DOMAIN left : left[i] \in Range(mons) /\ left[i] # mons[gone]
             /\ \A m \in DOMAIN mons : m # gone => \E i \in DOMAIN left : left[i] = mons[m]
<1> DEFINE left == unplugged(mons, gone)
           K == Len(mons) - 1
           at(i) == IF i < gone THEN i ELSE i + 1
<1>1. /\ Len(mons) \in Nat /\ DOMAIN mons = 1 .. Len(mons) /\ gone \in 1 .. Len(mons)
      /\ K \in Nat
  OBVIOUS
<1>2. \A i \in 1 .. K : at(i) \in 1 .. Len(mons) /\ at(i) # gone
  BY <1>1
<1>3. \A i, j \in 1 .. K : at(i) = at(j) => i = j
  BY <1>1
<1>4. left = [i \in 1 .. K |-> mons[at(i)]]
  BY DEF unplugged
<1>5. \A i \in 1 .. K : mons[at(i)] \in Outputs
  BY <1>1, <1>2
<1> HIDE DEF at
<1>6. left \in [1 .. K -> Outputs] /\ \A i \in 1 .. K : left[i] = mons[at(i)]
  BY <1>4, <1>5
<1> HIDE DEF left
<1>7. left \in Seq(Outputs) /\ DOMAIN left = 1 .. K
  BY <1>1, <1>6, ListIs
<1>8. Distinct(left)
  BY <1>1, <1>2, <1>3, <1>6, <1>7 DEF Distinct
<1>9. \A i \in DOMAIN left : left[i] \in Range(mons) /\ left[i] # mons[gone]
  BY <1>1, <1>2, <1>6, <1>7 DEF Distinct, Range
<1>10. ASSUME NEW m \in DOMAIN mons, m # gone
       PROVE  \E i \in DOMAIN left : left[i] = mons[m]
  <2> DEFINE j == IF m < gone THEN m ELSE m - 1
  <2>1. j \in 1 .. K /\ at(j) = m
    BY <1>1, <1>10 DEF at
  <2> QED
    BY <1>6, <1>7, <2>1
<1> QED
  BY <1>7, <1>8, <1>9, <1>10 DEF left

\* Two outputs that own the same workspaces in the same order have equal pools.
LEMMA SamePool ==
  ASSUME NEW n \in Nat, NEW t, Sound(t, n), NEW u, Sound(u, n),
         NEW m \in DOMAIN t.monitors, u.monitors = t.monitors,
         owned(u, m) = owned(t, m),
         InOrder(owned(t, m), t.monitor_pools[m], u.monitor_pools[m])
  PROVE  u.monitor_pools[m] = t.monitor_pools[m]
<1> DEFINE p == t.monitor_pools[m]
           q == u.monitor_pools[m]
<1>1. p \in Seq(1 .. n) /\ q \in Seq(1 .. n)
  BY DEF Sound, WellFormed, Fields
<1>2. /\ Range(p) = owned(t, m) /\ Range(q) = owned(u, m)
      /\ \A i, j \in DOMAIN p : p[i] = p[j] => i = j
      /\ \A i, j \in DOMAIN q : q[i] = q[j] => i = j
  BY DEF Sound, ListsOwned, owned
<1>3. \A x, y \in Range(p) : index_of(p, x) < index_of(p, y) =>
                               index_of(q, x) < index_of(q, y)
  BY <1>2 DEF InOrder
<1> HIDE DEF p, q
<1>4. p = q
  BY <1>1, <1>2, <1>3, SameList
<1> QED
  BY <1>4 DEF p, q
\* What plug makes of the monitors, positions and pools, for a proof to cite.
LEMMA PlacedParts ==
  ASSUME NEW c \in Config, NEW t, Placed(t, c)
  PROVE  /\ Len(c.pins) \in Nat /\ Sound(t, Len(c.pins)) /\ t \in Fields(Len(c.pins))
         /\ t.monitors \in Seq(Outputs) /\ Distinct(t.monitors)
         /\ DOMAIN t.ws_owner = 1 .. Len(c.pins)
         /\ Len(t.monitor_pools) = Len(t.monitors)
         /\ t.monitor_pools \in Seq(Seq(1 .. Len(c.pins)))
         /\ t.active_ws \in Seq(Nat) /\ Len(t.active_ws) = Len(t.monitors)
         /\ \A m \in DOMAIN t.monitors :
              /\ Range(t.monitor_pools[m]) = owned(t, m)
              /\ t.active_ws[m] = active_ws_of_monitor(t, m)
<1>1. Len(c.pins) \in Nat /\ Sound(t, Len(c.pins)) /\ Distinct(t.monitors)
  BY DEF Config, Placed
<1>2. /\ t \in Fields(Len(c.pins)) /\ Len(t.monitor_pools) = Len(t.monitors)
      /\ Len(t.active_ws) = Len(t.monitors) /\ ListsOwned(t) /\ Refreshed(t)
  BY <1>1 DEF Sound, WellFormed
<1>3. /\ t.monitors \in Seq(Outputs) /\ DOMAIN t.ws_owner = 1 .. Len(c.pins)
      /\ t.monitor_pools \in Seq(Seq(1 .. Len(c.pins))) /\ t.active_ws \in Seq(Nat)
  BY <1>2 DEF Fields
<1>4. \A m \in DOMAIN t.monitors :
        /\ Range(t.monitor_pools[m]) = owned(t, m)
        /\ t.active_ws[m] = active_ws_of_monitor(t, m)
  BY <1>2 DEF ListsOwned, Refreshed, owned
<1> QED
  BY <1>1, <1>2, <1>3, <1>4

\* Unplugging the monitor at position gone and plugging it back puts every
\* workspace back, and those of one monitor come in their old order.
LEMMA Back ==
  ASSUME NEW c \in Config, NEW t, Placed(t, c), NEW gone \in DOMAIN t.monitors,
         NEW m \in DOMAIN t.monitors
  PROVE  LET left  == plug(t, unplugged(t.monitors, gone), c)
             again == plug(left, t.monitors, c)
         IN  /\ \A ws \in owned(t, m) : again.ws_owner[ws] = m
             /\ InOrder(owned(t, m), t.monitor_pools[m], again.monitor_pools[m])
             /\ t.active_ws[m] > 0 => again.active_ws[m] = t.active_ws[m]
<1> DEFINE n     == Len(c.pins)
           mons  == t.monitors
           rest  == unplugged(mons, gone)
           left  == plug(t, rest, c)
           again == plug(left, mons, c)
<1>1. /\ n \in Nat /\ Sound(t, n) /\ t \in Fields(n) /\ mons \in Seq(Outputs) /\ Distinct(mons)
      /\ DOMAIN t.ws_owner = 1 .. n /\ Range(t.monitor_pools[m]) = owned(t, m)
      /\ Range(t.monitor_pools[gone]) = owned(t, gone)
      /\ t.active_ws[m] = active_ws_of_monitor(t, m) /\ DOMAIN mons = 1 .. Len(mons)
      /\ Len(t.monitor_pools) = Len(mons) /\ Len(mons) \in Nat
  <2>1. DOMAIN mons = 1 .. Len(mons) /\ Len(mons) \in Nat
    BY PlacedParts
  <2> QED
    BY <2>1, PlacedParts
<1>2. /\ rest \in Seq(Outputs) /\ Distinct(rest)
      /\ \A i \in DOMAIN rest : rest[i] \in Range(mons) /\ rest[i] # mons[gone]
      /\ m # gone => \E i \in DOMAIN rest : rest[i] = mons[m]
  BY <1>1, Unplugged
<1>3. mons[gone] \in Range(mons) \ Range(rest) /\ Range(rest) \subseteq Range(mons)
      /\ mons[m] \in Range(mons)
  BY <1>2 DEF Range
<1> HIDE DEF rest
<1>4. Placed(left, c) /\ left.monitors = rest
  BY <1>2, PlugPlaced
<1>5. left.parked[mons[gone]] = park(t, mons[gone])
  BY <1>2, <1>3, PlugParks
<1>6. /\ monitor_index_by_name(mons, mons[gone]) = gone
      /\ monitor_index_by_name(mons, mons[m]) = m
  BY <1>1, OnePosition
<1>7. /\ left.parked[mons[gone]].pool = t.monitor_pools[gone]
      /\ left.parked[mons[gone]].active = active_ws_of_monitor(t, gone)
  BY <1>5, <1>6 DEF park
<1> HIDE DEF left
<1>8. ASSUME NEW k \in DOMAIN mons, mons[k] \notin Range(rest)
      PROVE  k = gone
  <2> SUFFICES ASSUME k # gone PROVE FALSE
    OBVIOUS
  <2>1. \E i \in DOMAIN rest : rest[i] = mons[k]
    BY <1>1, Unplugged, ZenonT(60) DEF rest
  <2> QED
    BY <1>8, <2>1 DEF Range
<1>9. \A ws \in owned(t, m) : ws \in 1 .. n /\ t.ws_owner[ws] = m
  BY <1>1 DEF owned
<1>10. ASSUME NEW ws \in owned(t, m), c.pins[ws] \in Range(mons)
       PROVE  c.pins[ws] = mons[m]
  <2>1. /\ monitor_index_by_name(mons, c.pins[ws]) \in 1 .. Len(mons)
        /\ mons[monitor_index_by_name(mons, c.pins[ws])] = c.pins[ws]
    BY <1>1, <1>10, IndexByName
  <2>2. monitor_index_by_name(mons, c.pins[ws]) = t.ws_owner[ws]
    BY <1>1, <1>9, <2>1 DEF Placed, PinsKept
  <2> QED
    BY <1>9, <2>1, <2>2
<1>11. CASE m = gone
  <2>1. ASSUME NEW ws \in owned(t, m) PROVE Through(left, mons, c, ws, m)
    <3>1. claimants(left, mons, ws) = {m}
      <4>1. m \in claimants(left, mons, ws)
        BY <1>1, <1>3, <1>4, <1>7, <1>11 DEF claimants
      <4>2. \A k \in claimants(left, mons, ws) : k = m
        BY <1>4, <1>8, <1>11 DEF claimants
      <4> QED
        BY <4>1, <4>2
    <3> QED
      BY <1>1, <1>4, <1>9, <1>10, <3>1, Returns
  <2>2. mons[m] \notin Range(left.monitors)
    BY <1>3, <1>4, <1>11
  <2>3. /\ seed_of(left, mons, m) = t.monitor_pools[m]
        /\ shown_of(left, mons, m) = active_ws_of_monitor(t, m)
    BY <1>7, <1>11, <2>2 DEF seed_of, shown_of
  <2>4. \A ws \in owned(t, m) : again.ws_owner[ws] = m
    BY <2>1 DEF Through
  <2>5. ASSUME NEW x \in owned(t, m), NEW y \in owned(t, m),
               index_of(t.monitor_pools[m], x) < index_of(t.monitor_pools[m], y)
        PROVE  index_of(again.monitor_pools[m], x) < index_of(again.monitor_pools[m], y)
    BY <1>1, <1>4, <1>9, <2>1, <2>3, <2>5, PlugOrders
  <2>6. ASSUME t.active_ws[m] > 0 PROVE again.active_ws[m] = t.active_ws[m]
    <3>1. t.active_ws[m] \in owned(t, m)
      BY <1>1, <2>6, ActiveOf
    <3> QED
      BY <1>1, <1>4, <1>9, <2>1, <2>3, <3>1, PlugShows
  <2> QED
    BY <2>4, <2>5, <2>6 DEF InOrder, again, left, rest
<1>12. CASE m # gone
  <2>1. PICK i \in DOMAIN rest : rest[i] = mons[m]
    BY <1>2, <1>12
  <2>2. ASSUME NEW ws \in owned(t, m) PROVE Through(t, rest, c, ws, i)
    <3>1. claimants(t, rest, ws) = {}
      BY <1>2 DEF claimants
    <3>2. c.pins[ws] \notin Range(rest) \ Range(t.monitors)
      BY <1>3
    <3> QED
      BY <1>2, <1>9, <2>1, <3>1, <3>2, Stays
  <2>3. ASSUME NEW ws \in owned(t, m) PROVE left.ws_owner[ws] = i
    BY <2>2 DEF Through, left
  <2>4. ASSUME NEW ws \in owned(t, m) PROVE Through(left, mons, c, ws, m)
    <3>1. claimants(left, mons, ws) = {}
      <4> SUFFICES ASSUME NEW k \in claimants(left, mons, ws) PROVE FALSE
        OBVIOUS
      <4>1. /\ k \in DOMAIN mons /\ mons[k] \notin Range(rest)
            /\ ws \in Range(left.parked[mons[k]].pool)
        BY <1>4 DEF claimants
      <4>2. k = gone
        BY <1>8, <4>1
      <4>3. ws \in owned(t, gone)
        BY <1>1, <1>7, <4>1, <4>2
      <4> QED
        BY <1>9, <1>12, <4>3 DEF owned
    <3>2. c.pins[ws] \notin Range(mons) \ Range(left.monitors)
      <4>1. mons[m] \in Range(rest)
        BY <2>1 DEF Range
      <4> QED
        BY <1>4, <1>10, <4>1
    <3>3. i \in DOMAIN left.monitors /\ left.monitors[i] = mons[m]
      BY <1>4, <2>1
    <3> QED
      BY <1>1, <1>4, <1>9, <2>3, <3>1, <3>2, <3>3, Stays
  <2>5. mons[m] \in Range(left.monitors) /\ rest[i] \in Range(t.monitors)
    BY <1>3, <1>4, <2>1 DEF Range
  <2>6. monitor_index_by_name(left.monitors, mons[m]) = i
    BY <1>2, <1>4, <2>1, OnePosition
  <2>7. /\ seed_of(t, rest, i) = t.monitor_pools[m]
        /\ shown_of(t, rest, i) = active_ws_of_monitor(t, m)
    BY <1>6, <2>1, <2>5 DEF seed_of, shown_of
  <2>8. /\ seed_of(left, mons, m) = left.monitor_pools[i]
        /\ shown_of(left, mons, m) = active_ws_of_monitor(left, i)
    BY <2>5, <2>6 DEF seed_of, shown_of
  <2>9. /\ Range(left.monitor_pools[i]) = owned(left, i)
        /\ left.active_ws[i] = active_ws_of_monitor(left, i)
        /\ DOMAIN left.ws_owner = 1 .. n
    BY <1>4, <2>1, PlacedParts
  <2>10. \A ws \in owned(t, m) : again.ws_owner[ws] = m
    BY <2>4 DEF Through
  <2>11. ASSUME NEW x \in owned(t, m), NEW y \in owned(t, m),
                index_of(t.monitor_pools[m], x) < index_of(t.monitor_pools[m], y)
         PROVE  index_of(again.monitor_pools[m], x) < index_of(again.monitor_pools[m], y)
    <3>1. index_of(left.monitor_pools[i], x) < index_of(left.monitor_pools[i], y)
      <4>1. Through(t, rest, c, x, i) /\ Through(t, rest, c, y, i)
        BY <2>2
      <4> QED
        BY <1>1, <1>2, <1>9, <2>7, <2>11, <4>1, PlugOrders DEF left
    <3>2. x \in Range(left.monitor_pools[i]) /\ y \in Range(left.monitor_pools[i])
      BY <1>9, <2>3, <2>9 DEF owned
    <3>3. Through(left, mons, c, x, m) /\ Through(left, mons, c, y, m)
      BY <2>4
    <3> QED
      BY <1>1, <1>4, <1>9, <2>8, <3>1, <3>2, <3>3, PlugOrders
  <2>12. ASSUME t.active_ws[m] > 0 PROVE again.active_ws[m] = t.active_ws[m]
    <3> DEFINE w == t.active_ws[m]
    <3>1. w \in owned(t, m) /\ w \in 1 .. n
      BY <1>1, <1>9, <2>12, ActiveOf
    <3>2. left.active_ws[i] = w
      <4>1. Through(t, rest, c, w, i)
        BY <2>2, <3>1
      <4> QED
        BY <1>1, <1>2, <2>1, <2>7, <3>1, <4>1, PlugShows DEF left
    <3>3. shown_of(left, mons, m) = w
      BY <2>8, <2>9, <3>2
    <3>4. Through(left, mons, c, w, m)
      BY <2>4, <3>1
    <3> QED
      BY <1>1, <1>4, <3>1, <3>3, <3>4, PlugShows
  <2> QED
    BY <2>10, <2>11, <2>12 DEF InOrder, again, left, rest
<1> QED
  BY <1>11, <1>12
\* So every pool and every active workspace is what it was.
LEMMA Replugged == IInv => ReplugRestores
<1> SUFFICES ASSUME IInv, NEW gone \in DOMAIN wsman.monitors
             PROVE  LET left  == plug(wsman, unplugged(wsman.monitors, gone), settings)
                        again == plug(left, wsman.monitors, settings)
                    IN  /\ again.monitor_pools = wsman.monitor_pools
                        /\ again.active_ws = wsman.active_ws
  BY DEF ReplugRestores
<1> DEFINE t     == wsman
           c     == settings
           n     == Len(c.pins)
           mons  == t.monitors
           rest  == unplugged(mons, gone)
           left  == plug(t, rest, c)
           again == plug(left, mons, c)
<1>1. c \in Config /\ Placed(t, c)
  BY TopologyAssumption DEF IInv
<1>2. /\ n \in Nat /\ Sound(t, n) /\ mons \in Seq(Outputs) /\ Distinct(mons)
      /\ DOMAIN t.ws_owner = 1 .. n /\ Len(t.monitor_pools) = Len(mons)
      /\ t.monitor_pools \in Seq(Seq(1 .. n))
      /\ t.active_ws \in Seq(Nat) /\ Len(t.active_ws) = Len(mons)
      /\ \A m \in DOMAIN mons : /\ Range(t.monitor_pools[m]) = owned(t, m)
                                 /\ t.active_ws[m] = active_ws_of_monitor(t, m)
  BY <1>1, PlacedParts
<1>3. rest \in Seq(Outputs) /\ Distinct(rest)
  BY <1>2, Unplugged
<1>4. \A m \in DOMAIN mons :
        /\ \A ws \in owned(t, m) : again.ws_owner[ws] = m
        /\ InOrder(owned(t, m), t.monitor_pools[m], again.monitor_pools[m])
        /\ t.active_ws[m] > 0 => again.active_ws[m] = t.active_ws[m]
  BY <1>1, Back
<1> HIDE DEF rest
<1>5. Placed(left, c)
  BY <1>1, <1>3, PlugPlaced
<1> HIDE DEF left
<1>6. Placed(again, c) /\ again.monitors = mons
  BY <1>1, <1>2, <1>5, PlugPlaced
<1> HIDE DEF again
<1>7. /\ Sound(again, n) /\ DOMAIN again.ws_owner = 1 .. n
      /\ Len(again.monitor_pools) = Len(mons) /\ again.monitor_pools \in Seq(Seq(1 .. n))
      /\ again.active_ws \in Seq(Nat) /\ Len(again.active_ws) = Len(mons)
      /\ \A m \in DOMAIN mons : again.active_ws[m] = active_ws_of_monitor(again, m)
  BY <1>1, <1>6, PlacedParts
<1>8. \A ws \in 1 .. n : t.ws_owner[ws] \in DOMAIN mons
  <2>1. mons # <<>>
    BY <1>2
  <2> QED
    BY <1>2, <2>1 DEF Sound, AllOwned, is_mon_valid
<1>9. \A ws \in 1 .. n : again.ws_owner[ws] = t.ws_owner[ws]
  BY <1>2, <1>4, <1>8 DEF owned
<1>10. \A m \in DOMAIN mons : owned(again, m) = owned(t, m)
  BY <1>2, <1>7, <1>9 DEF owned
<1>11. \A m \in DOMAIN mons : again.monitor_pools[m] = t.monitor_pools[m]
  <2> TAKE m \in DOMAIN mons
  <2>1. /\ m \in DOMAIN t.monitors /\ again.monitors = t.monitors /\ owned(again, m) = owned(t, m)
        /\ InOrder(owned(t, m), t.monitor_pools[m], again.monitor_pools[m])
        /\ n \in Nat /\ Sound(t, n) /\ Sound(again, n)
    BY <1>2, <1>4, <1>6, <1>7, <1>10
  <2> HIDE DEF n
  <2> QED
    BY <2>1, SamePool
<1>12. again.monitor_pools = t.monitor_pools
  <2> DEFINE P == Seq(1 .. n)
             p == again.monitor_pools
             q == t.monitor_pools
  <2>1. p \in Seq(P) /\ q \in Seq(P) /\ Len(p) = Len(q)
    BY <1>2, <1>7
  <2>2. \A m \in 1 .. Len(p) : p[m] = q[m]
    BY <1>2, <1>7, <1>11
  <2> HIDE DEF P, p, q
  <2>3. p = q
    BY <2>1, <2>2
  <2> QED
    BY <2>3 DEF p, q
<1>13. ASSUME NEW m \in DOMAIN mons PROVE again.active_ws[m] = t.active_ws[m]
  <2>1. t.active_ws[m] \in Nat
    <3>1. DOMAIN mons = 1 .. Len(mons) /\ DOMAIN t.active_ws = 1 .. Len(mons)
      BY <1>2
    <3> QED
      BY <1>2, <3>1, ElementOfSeq
  <2>2. CASE t.active_ws[m] > 0
    BY <1>4, <2>2
  <2>3. CASE t.active_ws[m] = 0
    <3>1. t.monitor_pools[m] = <<>>
      <4> SUFFICES ASSUME t.monitor_pools[m] # <<>> PROVE FALSE
        OBVIOUS
      <4>1. t.monitor_pools[m] \in Seq(1 .. n) /\ m \in DOMAIN t.monitor_pools
        BY <1>2
      <4>2. t.monitor_active_local[m] \in DOMAIN t.monitor_pools[m]
        BY <1>2 DEF Sound, ActiveInPool
      <4>3. active_ws_of_monitor(t, m) = t.monitor_pools[m][t.monitor_active_local[m]]
        BY <4>1, <4>2 DEF active_ws_of_monitor
      <4>4. active_ws_of_monitor(t, m) \in 1 .. n
        BY <4>1, <4>2, <4>3
      <4> QED
        BY <1>2, <2>3, <4>4
    <3>2. active_ws_of_monitor(again, m) = 0
      BY <1>11, <3>1 DEF active_ws_of_monitor
    <3> QED
      BY <1>7, <2>3, <3>2
  <2> QED
    BY <2>1, <2>2, <2>3
<1>14. again.active_ws = t.active_ws
  BY <1>2, <1>7, <1>13, SMTT(60)
<1> QED
  BY <1>12, <1>14 DEF again, left, rest

\* An output that is unplugged and plugged back at its place finds its pool in
\* the old order and shows what it showed, and so do all others (parked_pools,
\* assign_workspaces, rebuild_pools_from_owner).
THEOREM ReplugAlwaysRestores == Spec => []ReplugRestores
BY PlacedInitially, PlacedAlways, Replugged, PTL DEF Spec
=============================================================================
