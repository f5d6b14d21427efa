--------------------------- MODULE MCInventoryStock ---------------------------
(***************************************************************************)
(* Small instances of InventoryStock: a receipt at the shelf, and a        *)
(* transfer from the shelf to the van.                                     *)
(***************************************************************************)
EXTENDS InventoryStock

CONSTANTS receive, transfer, shelf, van

MCTouches == [o \in Ops |-> IF o = receive THEN {shelf} ELSE {shelf, van}]
===============================================================================
