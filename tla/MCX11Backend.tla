---------------------------- MODULE MCX11Backend -----------------------------
(* One or two outputs, two or three workspaces, two windows of which one   *)
(* covers its monitor.                                                     *)
EXTENDS X11Backend

CONSTANTS A, B, w1, w2

MCOutputs == {A, B}
MCWindows == {w1, w2}

OneMonitor == {<<A>>}
Shifting   == {<<B>>, <<A, B>>}

Two   == [pins |-> <<NoOutput, NoOutput>>, primary |-> NoOutput]
Three == [pins |-> <<NoOutput, NoOutput, NoOutput>>, primary |-> NoOutput]
TwoWorkspaces == {Two}
TwoOrThree    == {Two, Three}
=============================================================================
