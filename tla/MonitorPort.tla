----------------------------- MODULE MonitorPort -----------------------------
(***************************************************************************)
(* X11MonitorPort (backends/x11/src/ports/monitor_port.cpp): how a layout  *)
(* is given to the RandR extension of the X server, and the part of the    *)
(* server that it talks to.  The server's state x has                      *)
(*   crtc       for every CRTC what it scans out, or Off,                  *)
(*   screen     the size of the root window,                               *)
(*   connected  the outputs with a monitor attached,                       *)
(*   primary    the primary output,                                        *)
(*   changed    a RandR event is on its way to the window manager.         *)
(* The server refuses a screen that an active CRTC does not fit in, and a  *)
(* CRTC setting that the output cannot have or that leaves the screen.     *)
(* Every setting it accepts raises an event, as the comments of            *)
(* configure_output say of some drivers.                                   *)
(***************************************************************************)
EXTENDS MonitorLayout, SequencesExt

CONSTANTS
  Outputs,      \* the outputs of the graphics card
  Crtcs,        \* its CRTCs, numbers from 1
  Possible,     \* the CRTCs each output can use, in the order it lists them
  Modes,        \* the sizes <<w, h>> the monitor at each output can show
  FirstScreen   \* the size of the screen when the window manager connects

Off == [output |-> NoName]

ASSUME PortAssumption ==
  /\ Crtcs = 1..Cardinality(Crtcs)
  /\ \A o \in Outputs : Possible[o] \in Seq(Crtcs) /\ Modes[o] # {}
-----------------------------------------------------------------------------
(* The server.                                                             *)

mode_size(s) == IF s.rotated THEN <<s.mode[2], s.mode[1]>> ELSE s.mode

Active(x) == {k \in Crtcs : x.crtc[k] # Off}

fits(s, screen) ==
  s.x + mode_size(s)[1] <= screen[1] /\ s.y + mode_size(s)[2] <= screen[2]

set_screen_size(x, size) ==
  IF \A k \in Active(x) : fits(x.crtc[k], size)
  THEN [x EXCEPT !.screen = size, !.changed = TRUE]
  ELSE x

accepts(x, k, s) ==
  /\ k \in Range(Possible[s.output])
  /\ s.mode \in Modes[s.output]
  /\ fits(s, x.screen)

set_crtc_config(x, k, s) ==
  [x EXCEPT !.crtc = [j \in Crtcs |-> IF j = k THEN s
                                      ELSE IF @[j].output = s.output THEN Off ELSE @[j]],
            !.changed = TRUE]

set_primary(x, o) == [x EXCEPT !.primary = o, !.changed = TRUE]

\* The CRTC that drives output o, 0 when none does.
crtc(x, o) ==
  LET on == {k \in Crtcs : x.crtc[k].output = o} IN IF on = {} THEN 0 ELSE Min(on)

disable(x, o) ==
  IF crtc(x, o) = 0 THEN x
  ELSE [x EXCEPT !.crtc[crtc(x, o)] = Off, !.changed = TRUE]

free_crtcs(x) == SelectSeq([k \in Crtcs |-> k], LAMBDA k : x.crtc[k] = Off)

\* One monitor for each active CRTC, the primary output's first.
monitors(x) ==
  LET first == {k \in Active(x) : x.crtc[k].output = x.primary}
      list  == SetToSeq(first) \o
               SelectSeq([k \in Crtcs |-> k], LAMBDA k : k \in Active(x) \ first)
      monitor(s) == [name |-> s.output, x |-> s.x, y |-> s.y,
                     w |-> mode_size(s)[1], h |-> mode_size(s)[2], top |-> 0, bottom |-> 0]
  IN  [i \in DOMAIN list |-> monitor(x.crtc[list[i]])]
-----------------------------------------------------------------------------
(* The port.                                                               *)

select_crtcs(x, o) ==
  (IF crtc(x, o) = 0 THEN <<>> ELSE <<crtc(x, o)>>) \o Possible[o] \o free_crtcs(x)

\* What the layout entry asks of a CRTC.
wanted(l) ==
  [output |-> l.output, x |-> l.x, y |-> l.y, mode |-> <<l.w, l.h>>, rotated |-> l.rotated]

\* Mutant: an output that is already set up is set up again.
configure_again(st, l) ==
  LET ks == SelectSeq(select_crtcs(st.x, l.output),
                      LAMBDA k : k \notin st.reserved /\ accepts(st.x, k, wanted(l)))
  IN  IF l.output \notin st.x.connected \/ ~l.enabled
      THEN [st EXCEPT !.x = disable(@, l.output)]
      ELSE IF ks = <<>> THEN [st EXCEPT !.ok = FALSE]
      ELSE [st EXCEPT !.x = set_crtc_config(@, Head(ks), wanted(l)),
                      !.reserved = @ \cup {Head(ks)}]

\* st is [x, reserved, ok]: the server, the CRTCs given out in this pass, and
\* whether every output so far could be configured.
configure_output(st, l) ==
  LET x    == st.x
      o    == l.output
      here == crtc(x, o)
      ks   == SelectSeq(select_crtcs(x, o),
                        LAMBDA k : k \notin st.reserved /\ accepts(x, k, wanted(l)))
      primary(y) == IF l.primary THEN set_primary(y, o) ELSE y
  IN  IF o \notin Outputs THEN st
      ELSE IF ~l.enabled \/ o \notin x.connected THEN [st EXCEPT !.x = disable(x, o)]
      ELSE IF wanted(l).mode \notin Modes[o] THEN [st EXCEPT !.ok = FALSE]
      ELSE IF here # 0 /\ here \notin st.reserved /\ x.crtc[here] = wanted(l)
      THEN [st EXCEPT !.reserved = @ \cup {here},
                      !.x = IF x.primary = o THEN x ELSE primary(x)]
      ELSE IF ks = <<>> THEN [st EXCEPT !.ok = FALSE]
      ELSE [st EXCEPT !.reserved = @ \cup {Head(ks)},
                      !.x = primary(set_crtc_config(x, Head(ks), wanted(l)))]

expand_screen_size(x, layouts) ==
  LET used == {i \in DOMAIN layouts : layouts[i].enabled /\ layouts[i].output \in x.connected}
      far(i, d) == LET l == layouts[i]
                   IN  IF d = 1 THEN l.x + mode_size(wanted(l))[1] ELSE l.y + mode_size(wanted(l))[2]
      size == <<Max({0} \cup {far(i, 1) : i \in used}), Max({0} \cup {far(i, 2) : i \in used})>>
  IN  IF size[1] = 0 \/ size[2] = 0 \/ size = x.screen THEN x ELSE set_screen_size(x, size)

configure_outputs(x, layouts) ==
  FoldLeft(configure_output,
           [x |-> expand_screen_size(x, layouts), reserved |-> {}, ok |-> TRUE], layouts)

\* Mutant: no second pass.
apply_once(x, layouts) == configure_outputs(x, layouts).x

apply_monitor_layout(x, layouts) ==
  LET first == configure_outputs(x, layouts)
      reset(y, l) == IF l.output \in Outputs \cap y.connected THEN disable(y, l.output) ELSE y
  IN  IF first.ok THEN first.x
      ELSE configure_outputs(FoldLeft(reset, first.x, layouts), layouts).x

get_monitors(x) ==
  IF monitors(x) # <<>> THEN monitors(x)
  ELSE <<[name |-> NoName, x |-> 0, y |-> 0, w |-> FirstScreen[1], h |-> FirstScreen[2],
          top |-> 0, bottom |-> 0]>>
==============================================================================
