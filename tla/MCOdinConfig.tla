----------------------------- MODULE MCOdinConfig -----------------------------
(***************************************************************************)
(* OdinConfig for TLC: a key with a node in both trees, of which that of   *)
(* the service may go and come back.                                       *)
(***************************************************************************)
EXTENDS OdinConfig

CONSTANT k1

MCInitial == {<<"base", k1>>, <<"service", k1>>}
MCAlterable == {<<"service", k1>>}
=============================================================================
