---------------------------- MODULE MCZmqServer ----------------------------
(***************************************************************************)
(* Instances of ZmqServer for TLC.                                         *)
(***************************************************************************)
EXTENDS ZmqServer, TLC

CONSTANTS w1, w2, c1, c2, r1, r2

\* Two requests of one client, or one of each of two.
OneRequest == r1 :> c1
OneClient  == r1 :> c1 @@ r2 :> c1
TwoClients == r1 :> c1 @@ r2 :> c2

WorkerSymmetry == Permutations({w1, w2})
=============================================================================
