---------------------------- MODULE MonitorLayout ----------------------------
(***************************************************************************)
(* From a configuration to the position of every monitor: the checks of    *)
(* Runtime::validate_settings (core/src/runtime/runtime.cpp) and the       *)
(* composition of monitor_layout::build (core/src/monitor_layout.cpp).     *)
(*                                                                         *)
(* A configuration c has                                                   *)
(*   monitors    a list of [alias, output, enabled, w, h, rotated],        *)
(*   primary     an alias,                                                 *)
(*   layout      a list of links [monitor, relative_to, side, shift],      *)
(*   workspaces  the alias each workspace is pinned to, or NoName,         *)
(*   bars        the bar set: default and per_monitor, see BarModule,      *)
(*   themed      whether the font and the colours a bar needs are set.     *)
(* NoName is the code's empty string.  A rotation is only told apart by    *)
(* whether it exchanges width and height.                                  *)
(***************************************************************************)
EXTENDS Integers, Sequences, FiniteSets, FiniteSetsExt, Functions

CONSTANT NoName

Sides == {"left", "right", "top", "bottom"}

Distinct(list) == \A i, j \in DOMAIN list : list[i] = list[j] => i = j

Aliases(c) == {c.monitors[i].alias : i \in DOMAIN c.monitors}

by_alias(c, a) == CHOOSE m \in Range(c.monitors) : m.alias = a

Enabled(c) == {a \in Aliases(c) : by_alias(c, a).enabled}

HasLink(c, a) == \E l \in Range(c.layout) : l.monitor = a

by_monitor(c, a) == CHOOSE l \in Range(c.layout) : l.monitor = a
-----------------------------------------------------------------------------
(* Validation: TRUE when validate_settings returns no error.               *)

validate_monitors(c) ==
  /\ c.workspaces # <<>>
  /\ c.monitors # <<>>
  /\ \A m \in Range(c.monitors) :
       m.alias # NoName /\ m.output # NoName /\ m.w > 0 /\ m.h > 0
  /\ Distinct([i \in DOMAIN c.monitors |-> c.monitors[i].alias])
  /\ Distinct([i \in DOMAIN c.monitors |-> c.monitors[i].output])

\* The monitors that those of S are placed relative to.
Relatives(c, S) ==
  {by_monitor(c, a).relative_to : a \in {b \in S : HasLink(c, b)}} \cap Aliases(c)

\* Every monitor the depth-first search started at those of S comes to.
Closure(c, S) ==
  LET after[n \in 0..Len(c.monitors)] ==
        IF n = 0 THEN S ELSE after[n - 1] \cup Relatives(c, after[n - 1])
  IN  after[Len(c.monitors)]

dfs(c, a) ==
  /\ HasLink(c, a) \/ a = c.primary
  /\ HasLink(c, a) =>
       LET l == by_monitor(c, a)
       IN  IF a = c.primary THEN l.relative_to = NoName /\ l.side = NoName
           ELSE l.relative_to \in Aliases(c) /\ l.side # NoName
  /\ a \notin Closure(c, Relatives(c, {a}))

validate_compose(c) ==
  /\ c.primary \in Aliases(c)
  /\ \A l \in Range(c.layout) : l.monitor \in Aliases(c) /\ l.side \in Sides \cup {NoName}
  /\ Distinct([i \in DOMAIN c.layout |-> c.layout[i].monitor])
  /\ \A a \in Enabled(c) \ {c.primary} : HasLink(c, a)
  /\ \A a \in Closure(c, Enabled(c)) : dfs(c, a)

validate_references(c) ==
  /\ \A i \in DOMAIN c.workspaces : c.workspaces[i] \in Aliases(c) \cup {NoName}
  /\ c.themed

validate_settings(c) ==
  validate_monitors(c) /\ validate_compose(c) /\ validate_references(c)
-----------------------------------------------------------------------------
(* Composition.                                                            *)

rotated_size(m) == IF m.rotated THEN <<m.h, m.w>> ELSE <<m.w, m.h>>

\* Where a monitor of size `self` goes beside one of size `rel` at p.
beside(l, self, rel, p) ==
  CASE l.side = "left"   -> <<p[1] - self[1], p[2] + l.shift>>
    [] l.side = "right"  -> <<p[1] + rel[1], p[2] + l.shift>>
    [] l.side = "top"    -> <<p[1] + l.shift, p[2] - self[2]>>
    [] l.side = "bottom" -> <<p[1] + l.shift, p[2] + rel[2]>>

\* The position of every alias whose links lead to the primary monitor.
resolve(c) ==
  LET size(a) == rotated_size(by_alias(c, a))
      next(pos) ==
        {a \in Aliases(c) \ DOMAIN pos :
           /\ HasLink(c, a)
           /\ by_monitor(c, a).relative_to \in DOMAIN pos
           /\ by_monitor(c, a).side \in Sides}
      at[n \in 0..Len(c.monitors)] ==
        IF n = 0 THEN [a \in {c.primary} \cap Aliases(c) |-> <<0, 0>>]
        ELSE [a \in DOMAIN at[n - 1] \cup next(at[n - 1]) |->
                IF a \in DOMAIN at[n - 1] THEN at[n - 1][a]
                ELSE LET l == by_monitor(c, a)
                     IN  beside(l, size(a), size(l.relative_to), at[n - 1][l.relative_to])]
  IN  at[Len(c.monitors)]

\* Mutant: positions stay relative to the primary monitor.
positions_from_primary(c) == resolve(c)

compose_positions(c) ==
  LET pos    == resolve(c)
      placed == Enabled(c) \cap DOMAIN pos
      off(d) == IF placed = {} THEN 0 ELSE Max({0} \cup {-pos[a][d] : a \in placed})
  IN  [a \in DOMAIN pos |-> <<pos[a][1] + off(1), pos[a][2] + off(2)>>]

build(c) ==
  LET pos == compose_positions(c)
  IN  [i \in DOMAIN c.monitors |->
        LET m == c.monitors[i]
            p == IF m.alias \in DOMAIN pos THEN pos[m.alias] ELSE <<0, 0>>
        IN  [output |-> m.output, enabled |-> m.enabled, w |-> m.w, h |-> m.h,
             rotated |-> m.rotated, primary |-> m.alias = c.primary,
             x |-> p[1], y |-> p[2]]]
==============================================================================
