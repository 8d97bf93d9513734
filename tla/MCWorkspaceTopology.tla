------------------------- MODULE MCWorkspaceTopology -------------------------
(* Three outputs that come and go, and two configurations to reload.       *)
EXTENDS WorkspaceTopology

CONSTANTS A, B, C

MCOutputs == {A, B, C}

MCMonitorLists == {<<>>, <<B>>, <<A, B>>, <<C, B>>, <<B, A>>, <<A>>, <<A, B, C>>}

\* Three free workspaces, and two that are pinned to outputs that come late.
Free   == [pins |-> <<NoOutput, NoOutput, NoOutput>>, primary |-> B]
Pinned == [pins |-> <<B, C>>, primary |-> NoOutput]

MCConfigs == {Free, Pinned}
=============================================================================
