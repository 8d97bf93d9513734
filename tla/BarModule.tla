------------------------------ MODULE BarModule ------------------------------
(***************************************************************************)
(* A change of the outputs from the cable to the tray: Runtime starts with *)
(* a configuration, applies its monitor layout through the monitor port,   *)
(* tells the core which monitors there are, and BarModule                  *)
(* (modules/bar/bar_module_core.cpp, bar_module.cpp) builds a bar on every *)
(* monitor and a tray on every top bar.  RandR events bring the same       *)
(* sequence about again, a reload too, while icons come, go and ask to be  *)
(* shown.                                                                  *)
(*                                                                         *)
(* X events are read in the first half of a tick (phase "pump") and the    *)
(* posted events handled in the second ("drain").                          *)
(***************************************************************************)
EXTENDS MonitorPort, TrayHost

CONSTANTS
  Settings,   \* the configurations that may be loaded
  Scenes      \* what there is at the start, and how much may happen (see launch)

VARIABLES
  config,     \* the configuration in force
  phase,      \* "load", "start", "pump", "drain" or "failed"
  x,          \* the RandR state of the server (MonitorPort)
  selected,   \* select_change_events was called
  missed,     \* an output changed after the layout was applied, unannounced
  monitors_,  \* the core's monitors
  tray,       \* bars, icons, selection and unread events (TrayHost)
  posted,     \* the runtime's event queue
  asked,      \* the selection owner each icon last sent its dock request to
  home,       \* the output that shows each icon's application, or NoName
  left        \* what may still happen: plugs, reloads, acts

vars == <<config, phase, x, selected, missed, monitors_, tray, posted, asked, home, left>>

external == <<asked, home>>
-----------------------------------------------------------------------------
(* The core's monitors: inset by what the bars reserve.                    *)

physical(m) == [m EXCEPT !.y = @ - m.top, !.h = @ + m.top + m.bottom, !.top = 0, !.bottom = 0]

adjust_monitor_inset(m, edge, delta) ==
  IF edge = "top"
  THEN [m EXCEPT !.y = @ + delta, !.h = Max({0, @ - delta}), !.top = @ + delta]
  ELSE [m EXCEPT !.h = Max({0, @ - delta}), !.bottom = @ + delta]

ReserveMonitorArea(m, edge, px) ==
  adjust_monitor_inset(m, edge, px - (IF edge = "top" THEN m.top ELSE m.bottom))
-----------------------------------------------------------------------------
(* The bars.  In a bar set a side is 0 (removed), -1 (inherited) or the    *)
(* height of a bar.                                                        *)

resolve_bars(set, alias) ==
  LET side(ov, default) == IF ov = -1 THEN default ELSE ov
  IN  IF alias \notin DOMAIN set.per_monitor THEN set.default
      ELSE [top    |-> side(set.per_monitor[alias].top, set.default.top),
            bottom |-> side(set.per_monitor[alias].bottom, set.default.bottom)]

monitor_alias(c, name) ==
  LET known == {m \in Range(c.monitors) : m.output = name}
  IN  IF known = {} THEN name ELSE (CHOOSE m \in known : TRUE).alias

create_render_window(i, m, y, height) == [mon |-> i, x |-> m.x, y |-> y, w |-> m.w, h |-> height]

create_bar_window(i, m, is_top, height) ==
  create_render_window(i, m, IF is_top THEN m.y ELSE m.y + m.h - height, height)
    @@ [top |-> is_top, tray |-> NoTray]

\* Every bar goes, and its tray with it.
clear_bars(s) ==
  LET close(t, b) == IF t.bars[b].tray = NoTray THEN t ELSE destroy_tray_host(t, b)
  IN  [FoldLeft(close, s, [b \in DOMAIN s.bars |-> b]) EXCEPT !.bars = <<>>]

bar_sides(c, mons, i) == resolve_bars(c.bars, monitor_alias(c, mons[i].name))

new_bars(c, mons) ==
  FlattenSeq([i \in DOMAIN mons |->
    LET sides == bar_sides(c, mons, i)
        bar(is_top, height) ==
          IF height = 0 THEN <<>> ELSE <<create_bar_window(i, physical(mons[i]), is_top, height)>>
    IN  bar(TRUE, sides.top) \o bar(FALSE, sides.bottom)])

\* Mutant: the space is reserved on top of what is reserved already.
reserve_again(c, mons) ==
  [i \in DOMAIN mons |->
     adjust_monitor_inset(adjust_monitor_inset(mons[i], "top", bar_sides(c, mons, i).top),
                          "bottom", bar_sides(c, mons, i).bottom)]

reserve_areas(c, mons) ==
  [i \in DOMAIN mons |->
     ReserveMonitorArea(ReserveMonitorArea(mons[i], "top", bar_sides(c, mons, i).top),
                        "bottom", bar_sides(c, mons, i).bottom)]
-----------------------------------------------------------------------------
(* The trays.                                                              *)

\* The first bar of a set, 0 when it is empty.
first(bs) == IF bs = {} THEN 0 ELSE Min(bs)

owner_tray(s) == first({b \in Trays(s) : s.bars[b].tray.owner})

tray_for_monitor(s, i) == first({b \in Trays(s) : s.bars[b].top /\ s.bars[b].mon = i})

rebuild_trays(s, focused, n) ==
  LET tops  == {b \in DOMAIN s.bars : s.bars[b].top}
      owner == IF \E b \in tops : s.bars[b].mon = focused THEN focused
               ELSE IF tops = {} THEN 0 ELSE s.bars[Min(tops)].mon
      make(t, b) == IF b \notin tops THEN t
                    ELSE create_tray_host(t, b, <<n, b>>, s.bars[b].mon = owner)
  IN  FoldLeft(make, s, [b \in DOMAIN s.bars |-> b])

monitor_for_icon(s, mons, at, i) ==
  LET shown == {m \in DOMAIN mons : mons[m].name = at[i]}
      tops  == {b \in DOMAIN s.bars : s.bars[b].top}
  IN  IF Holding(s, i) # {}
      THEN IF shown # {} THEN Min(shown) ELSE s.bars[Min(Holding(s, i))].mon
      ELSE IF tops # {} THEN s.bars[Min(tops)].mon ELSE 1

route_icon_to_monitor(s, i, target) ==
  LET src == first(Holding(s, i))
      dst == tray_for_monitor(s, target)
  IN  IF src = 0 \/ dst \in {0, src} THEN s ELSE transfer_icon_to(s, src, dst, i)

rebalance_tray_icons(s, mons, at) ==
  LET listed(b) == IF s.bars[b].tray = NoTray THEN <<>>
                   ELSE [n \in DOMAIN s.bars[b].tray.icons |-> s.bars[b].tray.icons[n].win]
      strays(b) == SelectSeq(listed(b), LAMBDA i : monitor_for_icon(s, mons, at, i) # s.bars[b].mon)
      route(t, i) == route_icon_to_monitor(t, i, monitor_for_icon(s, mons, at, i))
  IN  FoldLeft(route, s, FlattenSeq([b \in DOMAIN s.bars |-> strays(b)]))

\* Tray windows get ids that nothing refers to any more.
NewId ==
  LET wins == {tray.bars[b].tray.win : b \in Trays(tray)} \cup
              {asked[i] : i \in {j \in Icons : asked[j] # NoTray}} \cup
              {ev.window : ev \in {e \in Range(tray.events) : e.type = "dock"}}
  IN  Min((1..(Cardinality(wins) + 1)) \ {w[1] : w \in wins})

\* Bars and trays from scratch; the focused monitor may be any.
rebuild(s, c, mons, focused, n) ==
  rebuild_trays([clear_bars(s) EXCEPT !.bars = new_bars(c, mons)], focused, n)
-----------------------------------------------------------------------------
(* Starting.                                                               *)

no_icon == [alive |-> FALSE, parent |-> Root, info |-> "none", mapped |-> FALSE,
            watched |-> FALSE, large |-> FALSE]

\* A scene: a configuration file, what is plugged in and driven, and the
\* applications with an icon, whose windows may be too large for a tray.
launch(scene) ==
  /\ config = scene.config
  /\ x = scene.x
  /\ tray = [bars |-> <<>>, selection |-> NoTray, events |-> <<>>,
             icon |-> [i \in Icons |-> IF i \in DOMAIN scene.icons
                                       THEN [no_icon EXCEPT !.alive = TRUE, !.info = scene.icons[i],
                                                            !.large = i \in scene.large]
                                       ELSE no_icon]]
  /\ home = scene.home
  /\ left = [plugs |-> scene.plugs, reloads |-> scene.reloads, acts |-> scene.acts]

Init ==
  /\ \E scene \in Scenes : launch(scene)
  /\ phase = "load"
  /\ selected = FALSE
  /\ missed = FALSE
  /\ monitors_ = <<>>
  /\ posted = <<>>
  /\ asked = [i \in Icons |-> NoTray]

\* Runtime::load_config: a configuration with errors stops the start.
Load ==
  /\ phase = "load"
  /\ phase' = IF validate_settings(config) THEN "start" ELSE "failed"
  /\ UNCHANGED <<config, x, selected, missed, monitors_, tray, posted, external, left>>

\* The server after the events so far were read and the layout applied.
applied(y, c) == apply_monitor_layout([y EXCEPT !.changed = FALSE], build(c))

apply_and_refresh_monitors(c) ==
  /\ x' = [applied(x, c) EXCEPT !.changed = @ /\ selected]
  /\ monitors_' = get_monitors(applied(x, c))
  /\ missed' = FALSE

\* The first apply of Runtime::start: no RandR events are selected yet.
StartMonitors ==
  /\ phase = "start"
  /\ monitors_ = <<>>
  /\ apply_and_refresh_monitors(config)
  /\ UNCHANGED <<config, phase, selected, tray, posted, external, left>>

\* The rest of it: select_change_events and BarModule::on_start.
StartModules ==
  /\ phase = "start"
  /\ monitors_ # <<>>
  /\ \E focused \in DOMAIN monitors_ :
       tray' = rebuild(tray, config, monitors_, focused, NewId)
  /\ monitors_' = reserve_areas(config, monitors_)
  /\ selected' = TRUE
  /\ phase' = "pump"
  /\ UNCHANGED <<config, x, missed, posted, external, left>>
-----------------------------------------------------------------------------
(* A tick.                                                                 *)

Post(e) == posted' = Append(posted, e)

\* BarModule::on(ClientMessageEv): handled at once, the owner only.
on_client_message(s, ev) ==
  IF owner_tray(s) = 0 \/ Holding(s, ev.icon) # {} THEN s
  ELSE handle_client_message(s, owner_tray(s), ev)

handle_reparent_notify(s, ev) ==
  IF has_xembed_info(s, ev.icon) THEN Post([type |-> "docked", icon |-> ev.icon])
  ELSE UNCHANGED posted

HandleEvent ==
  /\ phase = "pump"
  /\ tray.events # <<>>
  /\ LET ev   == Head(tray.events)
         rest == [tray EXCEPT !.events = Tail(@)]
     IN  \/ ev.type = "dock" /\ tray' = on_client_message(rest, ev) /\ UNCHANGED posted
         \/ ev.type = "root" /\ tray' = rest /\ handle_reparent_notify(tray, ev)
         \/ ev.type \in {"unmap", "destroy", "property"} /\ tray' = rest /\ Post(ev)
  /\ UNCHANGED <<config, phase, x, selected, missed, monitors_, external, left>>

\* The end of pump_events: RandR events read in this tick are one change.
EndPump ==
  /\ phase = "pump"
  /\ x.changed \/ posted # <<>>
  /\ phase' = "drain"
  /\ IF x.changed
     THEN apply_and_refresh_monitors(config) /\ Post([type |-> "topology"])
     ELSE UNCHANGED <<x, monitors_, missed, posted>>
  /\ UNCHANGED <<config, selected, tray, external, left>>

\* A tick with a reload: a configuration that validates is applied as well,
\* after the RandR events of the tick were (process_pending_reload).
EndPumpReload(c) ==
  /\ phase = "pump"
  /\ left.reloads > 0
  /\ validate_settings(c)
  /\ left' = [left EXCEPT !.reloads = @ - 1]
  /\ phase' = "drain"
  /\ config' = c
  /\ LET before == IF x.changed THEN applied(x, config) ELSE x
         after  == apply_monitor_layout(before, build(c))
         e      == [type |-> "topology"]
     IN  /\ x' = after
         /\ monitors_' = get_monitors(after)
         /\ posted' = posted \o (IF x.changed THEN <<e, e>> ELSE <<e>>)
  /\ missed' = FALSE
  /\ UNCHANGED <<selected, tray, external>>

\* BarModule::on(CustomEvent) for IconDocked.
on_icon_docked(s, i) ==
  LET b       == owner_tray(s)
      adopted == IF b = 0 THEN s ELSE adopt_icon(s, b, i)
  IN  route_icon_to_monitor(adopted, i, monitor_for_icon(adopted, monitors_, home, i))

\* The first tray that lists the icon handles what happened to it.
on_icon_event(s, ev) ==
  LET b == first(Holding(s, ev.icon))
  IN  CASE b = 0 -> s
        [] b # 0 /\ ev.type = "unmap"    -> handle_unmap_notify(s, b, ev.icon)
        [] b # 0 /\ ev.type = "destroy"  -> handle_destroy_notify(s, b, ev.icon)
        [] b # 0 /\ ev.type = "property" -> handle_property_notify(s, b, ev.icon)

\* BarModule::on(DisplayTopologyChanged).
on_display_topology_changed ==
  /\ \E focused \in DOMAIN monitors_ :
       tray' = rebalance_tray_icons(rebuild(tray, config, monitors_, focused, NewId),
                                    monitors_, home)
  /\ monitors_' = reserve_areas(config, monitors_)

Drain ==
  /\ phase = "drain"
  /\ posted # <<>>
  /\ LET ev == Head(posted)
     IN  \/ ev.type = "topology" /\ on_display_topology_changed
         \/ ev.type = "docked" /\ tray' = on_icon_docked(tray, ev.icon)
              /\ UNCHANGED monitors_
         \/ ev.type \in {"unmap", "destroy", "property"} /\ tray' = on_icon_event(tray, ev)
              /\ UNCHANGED monitors_
  /\ posted' = Tail(posted)
  /\ phase' = IF posted' = <<>> THEN "pump" ELSE "drain"
  /\ UNCHANGED <<config, x, selected, missed, external, left>>
-----------------------------------------------------------------------------
(* Everyone else: a cable, and the clients behind the icons.               *)

Up == phase \in {"start", "pump", "drain"}

Plug(o) ==
  /\ Up
  /\ left.plugs > 0
  /\ left' = [left EXCEPT !.plugs = @ - 1]
  /\ x' = [x EXCEPT !.connected = IF o \in @ THEN @ \ {o} ELSE @ \cup {o}, !.changed = selected]
  /\ missed' = (missed \/ (~selected /\ monitors_ # <<>>))
  /\ UNCHANGED <<config, phase, selected, monitors_, tray, posted, external>>

\* A client asks the selection owner for a place, once for every owner: a new
\* owner announces itself with a MANAGER message.
Dock(i) ==
  /\ tray.icon[i].alive /\ tray.icon[i].parent = Root
  /\ tray.selection \notin {NoTray, asked[i]}
  /\ asked' = [asked EXCEPT ![i] = tray.selection]
  /\ tray' = Send(tray, <<[type |-> "dock", window |-> tray.selection, icon |-> i]>>)
  /\ UNCHANGED <<config, phase, x, selected, missed, monitors_, posted, home, left>>

\* It changes _XEMBED_INFO, unmaps the icon, or goes.
ClientInfo(i) ==
  /\ tray.icon[i].info # "none"
  /\ tray' = Send([tray EXCEPT !.icon[i].info = IF @ = "mapped" THEN "unmapped" ELSE "mapped"],
                  IF tray.icon[i].watched THEN <<[type |-> "property", icon |-> i]>> ELSE <<>>)

ClientUnmaps(i) ==
  /\ tray.icon[i].mapped
  /\ tray' = unmap_window(tray, i)

ClientDies(i) ==
  LET e == [type |-> "destroy", icon |-> i]
  IN  tray' = Send([tray EXCEPT !.icon[i] = no_icon],
                   IF tray.icon[i].watched THEN <<e, e>> ELSE <<e>>)

Client(i) ==
  /\ Up
  /\ left.acts > 0
  /\ tray.icon[i].alive
  /\ ClientInfo(i) \/ ClientUnmaps(i) \/ ClientDies(i)
  /\ left' = [left EXCEPT !.acts = @ - 1]
  /\ UNCHANGED <<config, phase, x, selected, missed, monitors_, posted, external>>

Tick == HandleEvent \/ EndPump \/ Drain

Next ==
  \/ Load \/ StartMonitors \/ StartModules
  \/ Tick
  \/ \E c \in Settings : EndPumpReload(c)
  \/ \E o \in Outputs : Plug(o)
  \/ \E i \in Icons : Dock(i) \/ Client(i)

Spec == Init /\ [][Next]_vars

\* The main loop has something to do, and a step of it (only clients and
\* cables use up what is left or ask).
Busy ==
  \/ phase \in {"load", "start", "drain"}
  \/ phase = "pump" /\ (x.changed \/ posted # <<>> \/ tray.events # <<>>)

LoopStep == UNCHANGED <<left, asked>>

\* The main loop keeps running while it has something to do (weak fairness of
\* its steps, spelled out), and a client answers a MANAGER message.
FairSpec ==
  /\ Spec
  /\ []<>~Busy \/ []<><<LoopStep>>_vars
  /\ \A i \in Icons : WF_vars(Dock(i))
-----------------------------------------------------------------------------
(* Properties.                                                             *)

Icon == [alive : BOOLEAN, parent : {Root} \cup (Nat \X Nat), info : {"none", "mapped", "unmapped"},
         mapped : BOOLEAN, watched : BOOLEAN, large : BOOLEAN]

\* The state is well formed, no CRTC reaches beyond the screen, an output is
\* on at most one CRTC, and a bar has a tray only if it is a top bar, one of
\* them owning the selection that the server names.
TypeOK ==
  /\ phase \in {"load", "start", "pump", "drain", "failed"}
  /\ \A k \in Active(x) : x.crtc[k].output \in Outputs /\ fits(x.crtc[k], x.screen)
  /\ \A j, k \in Active(x) : x.crtc[j].output = x.crtc[k].output => j = k
  /\ \A i \in Icons : tray.icon[i] \in Icon
  /\ \A b \in Trays(tray) :
       /\ tray.bars[b].top
       /\ tray.bars[b].tray.owner <=> tray.bars[b].tray.win = tray.selection
  /\ phase \in {"pump", "drain"} => owner_tray(tray) # 0

\* Nothing is under way.
AtRest == phase = "pump" /\ ~x.changed /\ posted = <<>> /\ tray.events = <<>>

\* A configuration that validate_settings lets through gives every enabled
\* monitor a place: compose resolves each of them, no coordinate is negative,
\* and a monitor touches the one it is placed beside without covering it.
LayoutSound ==
  validate_settings(config) =>
    LET pos == compose_positions(config)
        w(a) == rotated_size(by_alias(config, a))[1]
        h(a) == rotated_size(by_alias(config, a))[2]
    IN  \A a \in Enabled(config) :
          /\ a \in DOMAIN pos /\ pos[a][1] >= 0 /\ pos[a][2] >= 0
          /\ a # config.primary =>
               LET l == by_monitor(config, a)
                   b == l.relative_to
               IN  \/ l.side = "left"   /\ pos[a][1] + w(a) = pos[b][1]
                   \/ l.side = "right"  /\ pos[b][1] + w(b) = pos[a][1]
                   \/ l.side = "top"    /\ pos[a][2] + h(a) = pos[b][2]
                   \/ l.side = "bottom" /\ pos[b][2] + h(b) = pos[a][2]

\* Every enabled output that is connected has the mode it is to show, and
\* there is a CRTC for each.
Feasible ==
  \A m \in Range(config.monitors) :
    m.enabled /\ m.output \in x.connected => <<m.w, m.h>> \in Modes[m.output]

\* Once the RandR events are dealt with, an enabled output that is connected
\* shows its mode at its place in the layout, and any other configured output
\* is off, whatever was plugged or reloaded before and whatever the CRTCs
\* were doing at the start.
OutputsPlaced ==
  phase \in {"pump", "drain"} /\ ~x.changed /\ ~missed /\ Feasible =>
    \A l \in Range(build(config)) :
      l.output \in Outputs =>
        IF l.enabled /\ l.output \in x.connected
        THEN crtc(x, l.output) # 0 /\ x.crtc[crtc(x, l.output)] = wanted(l)
        ELSE crtc(x, l.output) = 0

\* With nothing under way the bars are those of the monitors the server
\* reports: one on each edge that the bar set names, where the monitor ends,
\* and what they cover is taken off the area the core gives to workspaces,
\* once.
BarsMatch ==
  phase = "pump" /\ ~x.changed /\ posted = <<>> =>
    /\ [m \in DOMAIN monitors_ |-> physical(monitors_[m])] = get_monitors(x)
    /\ [b \in DOMAIN tray.bars |-> [tray.bars[b] EXCEPT !.tray = NoTray]] =
         new_bars(config, get_monitors(x))
    /\ \A b \in DOMAIN tray.bars :
         LET m == monitors_[tray.bars[b].mon]
         IN  IF tray.bars[b].top THEN tray.bars[b].y + tray.bars[b].h = m.y
             ELSE m.y + m.h = tray.bars[b].y

\* Bars, insets and trays are sound, and those of the monitors there are.
BarsSound == TypeOK /\ BarsMatch

\* No icon is lost: while its client lives, an icon is on the root or in the
\* window of a tray that lists it, and an icon with _XEMBED_INFO is not left
\* on the root by a rebuild.
IconsKept ==
  \A i \in Icons :
    tray.icon[i].alive =>
      /\ tray.icon[i].parent # Root =>
           \E b \in Trays(tray) : tray.bars[b].tray.win = tray.icon[i].parent
                                  /\ is_icon(tray.bars[b].tray, i)
      /\ tray.icon[i].watched /\ has_xembed_info(tray, i) => tray.icon[i].parent # Root

\* With nothing under way an icon whose client wants it shown is mapped, and
\* unless it is listed twice so is the tray that it is in.
IconsShown ==
  AtRest =>
    \A i \in Icons :
      xembed_info_mapped(tray, i) /\ tray.icon[i].parent # Root =>
        /\ tray.icon[i].mapped
        /\ \/ \E b \in Holding(tray, i) : tray.bars[b].tray.shown
           \/ Cardinality(Holding(tray, i)) > 1

\* Icons survive every rebuild, in a tray that lists them, and shown.
IconsSound == IconsKept /\ IconsShown

\* The changes that an apply makes do not keep bringing about the next: when
\* the layout can be applied, the RandR events end.
Settles == <>[](Feasible => ~x.changed)

\* A client that lives and has asked for a place in the tray gets one, though
\* the tray it asked may be gone when the request is read, unless its window
\* is too large, and then it never has one.
Docked ==
  \A i \in Icons :
    /\ asked[i] # NoTray ~> \/ tray.icon[i].parent # Root
                            \/ ~tray.icon[i].alive
                            \/ tray.icon[i].large
    /\ [](oversized(tray, i) => tray.icon[i].parent = Root /\ Holding(tray, i) = {})
==============================================================================
