---------------------------- MODULE MCRunStoreGate ----------------------------
(***************************************************************************)
(* Small instances of RunStoreGate.                                        *)
(***************************************************************************)
EXTENDS RunStoreGate
===============================================================================
