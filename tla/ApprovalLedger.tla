---------------------------- MODULE ApprovalLedger ----------------------------
(***************************************************************************)
(* What a project promises about its proposals, without journals, locks,   *)
(* memory or recovery: each proposal is decided at most once, a file is    *)
(* replaced in its name only after the decision to go ahead is on record,  *)
(* and the record that closes it tells what was replaced.                  *)
(***************************************************************************)
CONSTANTS
  Needs,     \* the proposals
  Target     \* the files of each

VARIABLES
  status,    \* what is on record for each proposal
  touched    \* the files replaced in its name

approvalVars == <<status, touched>>

Closed == {"applied", "conflicted", "not-applied"}
Statuses == {"undecided", "refused", "accepted"} \cup Closed

Init ==
  /\ status = [n \in Needs |-> "undecided"]
  /\ touched = [n \in Needs |-> {}]

Decides(n) ==
  /\ status[n] = "undecided"
  /\ status'[n] \in {"undecided", "refused", "accepted"}
  /\ touched'[n] = touched[n]

\* A replacement: never in the name of a proposal that is undecided, refused or not applied.
Touches(n) ==
  /\ status[n] \in {"accepted", "applied", "conflicted"}
  /\ status'[n] = status[n]
  /\ touched[n] \subseteq touched'[n]

\* The record closes, or is corrected, with what is true of the files.
Closes(n) ==
  /\ status[n] \in {"accepted", "applied", "conflicted"}
  /\ \/ status'[n] = "applied" /\ touched[n] = Target[n]
     \/ status'[n] = "conflicted"
     \/ status[n] = "accepted" /\ status'[n] = "not-applied" /\ touched[n] = {}
  /\ touched'[n] = touched[n]

Rests(n) == status'[n] = status[n] /\ touched'[n] = touched[n]

\* A save of the project writes all its proposals at once.
Next ==
  /\ status' \in [Needs -> Statuses]
  /\ \A n \in Needs : Decides(n) \/ Touches(n) \/ Closes(n) \/ Rests(n)

Approvals == Init /\ [][Next]_approvalVars
===============================================================================
