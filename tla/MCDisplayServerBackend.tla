----------------------- MODULE MCDisplayServerBackend ------------------------
(* One output, two workspaces, two surfaces; a rule sends the second one   *)
(* to the workspace that is not shown, and there is one key more than the  *)
(* server takes.                                                           *)
EXTENDS DisplayServerBackend

CONSTANTS A

OneMonitor    == {<<A>>}
TwoWorkspaces == {[pins |-> <<NoOutput, NoOutput>>, primary |-> NoOutput]}
SecondHidden  == <<0, 2>>
MCBindings    == <<"switch", "next", "previous">>
=============================================================================
