------------------------------ MODULE MCRuntime ------------------------------
(* Two configurations that work, one of each kind that does not.           *)
EXTENDS Runtime

CONSTANTS a, b, c, d, e, f, z, z2

MCTags == {a, b, c, d, e, f, z, z2}

Works(t, sets)       == [tag |-> t, sets |-> sets, outcome |-> "ok"]
Fails(t, sets, how)  == [tag |-> t, sets |-> sets, outcome |-> how]

MCConfigs ==
  {Works(a, Parts), Works(b, {"theme", "bar", "on"}),
   Fails(c, Parts, "exec"), Fails(d, Parts \ {"mouse"}, "reject"),
   Fails(e, Parts, "invalid"), Fails(f, {}, "syntax")}

MCDefaults == {Works(z, Parts \ {"layout", "on"}), Fails(z2, {"theme", "bar"}, "invalid")}
=============================================================================
