----------------------------- MODULE MCRunService -----------------------------
(***************************************************************************)
(* Small instances of RunService.  The steps are the kinds whose handling  *)
(* differs: a recorded idempotent write, an external send that needs an    *)
(* approval, and a request to an external model.  The budget covers two    *)
(* writes, or one write and two requests.                                  *)
(***************************************************************************)
EXTENDS RunService, TLC

CONSTANTS write, send, turn   \* step ids

MCIntent ==
  [s \in Steps |->
     CASE s = write -> [kind |-> "tool", effect |-> "idempotent", destination |-> "local",
                        class |-> "idempotent-write", approval |-> FALSE, cost |-> 2,
                        maxAttempts |-> 2]
       [] s = send  -> [kind |-> "tool", effect |-> "non-idempotent", destination |-> "external",
                        class |-> "external-send", approval |-> TRUE, cost |-> 1,
                        maxAttempts |-> 2]
       [] s = turn  -> [kind |-> "model", effect |-> "read", destination |-> "external",
                        class |-> "none", approval |-> FALSE, cost |-> 1, maxAttempts |-> 2]]

MCBudget == [units |-> 4, modelCalls |-> 2, toolCalls |-> 3]

CallAndOwnerSymmetry == Permutations(Calls) \cup Permutations(Owners)
===============================================================================
