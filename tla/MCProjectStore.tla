---------------------------- MODULE MCProjectStore ----------------------------
(***************************************************************************)
(* Small instances of ProjectStore: a proposal for every file.             *)
(***************************************************************************)
EXTENDS ProjectStore

CONSTANTS both, f1, f2

MCTarget == [n \in Needs |-> Files]
===============================================================================
