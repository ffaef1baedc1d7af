--------------------------- MODULE MCPodLifecycle ---------------------------
(* Instances of PodLifecycle for model checking.                           *)
EXTENDS PodLifecycle

(* Every kind of message.                                                  *)
Mixed == <<"good", "seen", "bad">>
=============================================================================
