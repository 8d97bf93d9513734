---------------------------- MODULE MCX11Restart -----------------------------
(* One or two outputs, two or three workspaces, one window.                *)
EXTENDS X11Restart

CONSTANTS A, B, w1

MCOutputs     == {A, B}
OneWindow     == {w1}
SecondMonitor == {<<A>>, <<A, B>>}
Two   == [pins |-> <<NoOutput, NoOutput>>, primary |-> NoOutput]
Three == [pins |-> <<NoOutput, NoOutput, NoOutput>>, primary |-> NoOutput]
TwoOrThree == {Two, Three}
=============================================================================
