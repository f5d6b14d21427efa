------------------------------ MODULE StepLedger ------------------------------
(***************************************************************************)
(* What the harness promises about the steps of a run, without leases,     *)
(* fences, queues, calls or approvals: a ledger with one line per step.    *)
(* A step is ready, in flight, parked for someone to say what happened,    *)
(* done, or dropped.  `uncertain' says that an attempt of the step may     *)
(* have changed the world and nobody has said.  An irrevocable step starts *)
(* only while that is settled, and leaves the parked phase only because    *)
(* somebody settled it or gave the step up.                                *)
(*                                                                         *)
(* Restart, cancellation and takeover move several steps at once, so one   *)
(* step of the ledger lets every line make one move.                       *)
(***************************************************************************)
CONSTANTS
  Steps,
  Irrevocable    \* the steps whose unknown outcome is never guessed

VARIABLES phase, uncertain, completed

ledgerVars == <<phase, uncertain, completed>>

Phases == {"ready", "inflight", "parked", "done", "dropped"}

\* A line keeps its phase; what was uncertain may have been reported by a handler.
Keeps(s) ==
  /\ phase'[s] = phase[s]
  /\ uncertain'[s] => uncertain[s]

\* An attempt starts.  A step that may be repeated can start again over an attempt
\* that was lost; an irrevocable one cannot.
Starts(s) ==
  /\ phase[s] \in {"ready", "inflight"}
  /\ s \in Irrevocable => phase[s] = "ready" /\ ~uncertain[s]
  /\ phase'[s] = "inflight"

\* The attempt is committed.
Finishes(s) ==
  /\ phase[s] = "inflight"
  /\ phase'[s] = "done"
  /\ ~uncertain'[s]

\* The attempt failed, or was lost, and the step may be asked for again.
Returns(s) ==
  /\ phase[s] = "inflight"
  /\ phase'[s] = "ready"
  /\ uncertain'[s] => uncertain[s]
  /\ s \in Irrevocable => ~uncertain'[s]

\* Nobody knows what the attempt did.
Parks(s) ==
  /\ phase[s] = "inflight"
  /\ phase'[s] = "parked"
  /\ uncertain'[s] = uncertain[s]

\* Somebody says whether the effect happened.
Reconciles(s) ==
  /\ phase[s] = "parked"
  /\ phase'[s] \in {"done", "ready"}
  /\ ~uncertain'[s]

\* The step is given up.  An irrevocable attempt in flight is never given up: it
\* is parked first.
Drops(s) ==
  /\ phase[s] \in {"ready", "inflight", "parked"}
  /\ s \in Irrevocable => phase[s] # "inflight"
  /\ phase'[s] = "dropped"
  /\ uncertain'[s] = uncertain[s]

Moves(s) ==
  Keeps(s) \/ Starts(s) \/ Finishes(s) \/ Returns(s) \/ Parks(s) \/ Reconciles(s) \/ Drops(s)

Init ==
  /\ phase = [s \in Steps |-> "ready"]
  /\ uncertain = [s \in Steps |-> FALSE]
  /\ completed = FALSE

\* The run may be called completed only while no step is in flight or parked.
Next ==
  /\ phase' \in [Steps -> Phases]
  /\ uncertain' \in [Steps -> BOOLEAN]
  /\ completed' \in BOOLEAN
  /\ \A s \in Steps : Moves(s)
  /\ completed' => \A s \in Steps : phase'[s] \notin {"inflight", "parked"}

Spec == Init /\ [][Next]_ledgerVars
===============================================================================
