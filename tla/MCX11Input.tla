----------------------------- MODULE MCX11Input ------------------------------
(* Two outputs that show one workspace each of three, one window.          *)
EXTENDS X11Input

CONSTANTS A, B, w1

MCOutputs   == {A, B}
OneWindow   == {w1}
TwoMonitors == {<<A, B>>}
Three       == {[pins |-> <<A, B, A>>, primary |-> NoOutput]}
=============================================================================
