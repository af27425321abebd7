---------------------------- MODULE MCTieredRouter ----------------------------
(* TieredRouter on small instances. *)
EXTENDS TieredRouter, TLC

CONSTANTS c1, c2

\* The first caller asks for a model the local tier does not serve.
CloudOnlyModel == {<<c1, "local">>}
=============================================================================
