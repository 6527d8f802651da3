--------------------------- MODULE MCWorkerVector ---------------------------
(***************************************************************************)
(* An instance of WorkerVector for TLC.                                    *)
(***************************************************************************)
EXTENDS WorkerVector

CONSTANTS w1, w2, w3
=============================================================================
