--------------------------- MODULE MCRemoteConfig ---------------------------
(***************************************************************************)
(* RemoteConfig with two configurations: the second has one file of the    *)
(* first with another content, lacks the other one, and has a new one.     *)
(***************************************************************************)
EXTENDS RemoteConfig, TLC

CONSTANTS w1, w2, c1, c2

MCFiles == (c1 :> [a |-> 1, b |-> 1]) @@ (c2 :> [a |-> 2, c |-> 2])
=============================================================================
