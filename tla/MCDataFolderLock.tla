--------------------------- MODULE MCDataFolderLock ---------------------------
(***************************************************************************)
(* Small instances of DataFolderLock: a few programs started on one data   *)
(* folder.                                                                 *)
(***************************************************************************)
EXTENDS DataFolderLock, TLC

ProcessSymmetry == Permutations(Processes)
===============================================================================
