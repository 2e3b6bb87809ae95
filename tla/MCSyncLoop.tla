----------------------------- MODULE MCSyncLoop -----------------------------
(***************************************************************************)
(* SyncLoop with two connections, to the same node or to two.              *)
(***************************************************************************)
EXTENDS SyncLoop, TLC

CONSTANTS c1, c2

OneNodeOrTwo == {c1 :> "a" @@ c2 :> "a", c1 :> "a" @@ c2 :> "b"}
=============================================================================
