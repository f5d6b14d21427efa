------------------------------ MODULE RunService ------------------------------
(***************************************************************************)
(* The harness run service (server/harness/run-service.ts): one run record *)
(* with its lease, its steps, their recorded effects and approvals, and    *)
(* the step calls that execute against it.                                 *)
(*                                                                         *)
(* RunService.serialize gives every durable transaction of a run the run's *)
(* queue to itself, and store.write replaces the record in one rename, so  *)
(* one transaction is one action here.  What happens between transactions  *)
(* is not atomic: a step call is admitted in one transaction, authorizes   *)
(* again and runs its handler outside the queue, and commits in another.   *)
(* Each of those is an action of its own, so other callers, a takeover, a  *)
(* cancellation or a crash may fall between any two of them.               *)
(*                                                                         *)
(* Time is abstracted to what the code compares it with: `lease' says the  *)
(* lease has not expired, approval.valid that the decision has not.        *)
(***************************************************************************)
EXTENDS Integers, FiniteSets

CONSTANTS
  Steps,          \* step ids a driver may ask for
  Owners,         \* lease owners of the running process (one per driver object)
  Calls,          \* slots for RunService.step calls in flight
  Intent,         \* the exact intent of each step, with its declared effect class
  Held,           \* steps a hook may hold for approval
  Budget,         \* the run's budget
  NoOwner,        \* owner: null
  Gone,           \* an owner of a process that died: owner ids are drawn per process
  WritesFail,     \* whether store.write may fail
  MaxFence,       \* bound on lease generations (claims and restarts explored)
  MaxGeneration   \* bound on identity rotations explored

Kinds == {"model", "tool", "transform", "approval", "wait"}
Effects == {"pure", "read", "idempotent", "non-idempotent"}
Destinations == {"local", "external"}

\* The effect and destinations each declared class must have.  "none" stands for
\* a definition without effectRecord.
ClassAllows(i) ==
  CASE i.class = "none"                  -> TRUE
    [] i.class = "pure"                  -> i.effect = "pure"
    [] i.class = "read"                  -> i.effect = "read"
    [] i.class = "idempotent-write"      -> i.effect = "idempotent" /\ i.destination = "local"
    [] i.class = "non-idempotent-effect" -> i.effect = "non-idempotent" /\ i.destination = "local"
    [] i.class = "external-send"         -> i.effect = "non-idempotent" /\ i.destination = "external"
    [] OTHER                             -> FALSE

Classes ==
  {"none", "pure", "read", "idempotent-write", "non-idempotent-effect", "external-send"}

StepIntents ==
  [kind : Kinds, effect : Effects, destination : Destinations, class : Classes,
   approval : BOOLEAN, cost : Nat, maxAttempts : Nat \ {0}]

\* What RunService.intentOf accepts: a declared effect belongs to a tool step and
\* agrees with the intent.
ASSUME IntentAssumption ==
  /\ Intent \in [Steps -> StepIntents]
  /\ Held \subseteq Steps
  /\ \A s \in Steps : /\ ClassAllows(Intent[s])
                      /\ Intent[s].class # "none" => Intent[s].kind = "tool"
  /\ NoOwner \notin Owners /\ Gone \notin Owners /\ NoOwner # Gone

ASSUME BoundAssumption ==
  /\ MaxFence \in Nat
  /\ MaxGeneration \in Nat
  /\ WritesFail \in BOOLEAN
  /\ Budget.units \in Nat /\ Budget.modelCalls \in Nat /\ Budget.toolCalls \in Nat

VARIABLES
  \* the durable record
  runState, owner, lease, fence,
  state,          \* step -> StepState, or "absent" before RunService.ensure
  attempt, leaseFence,
  effect,         \* status of the step's last EffectRecord, "none" without one
  approval,       \* the step's saved approval: [generation, valid], or NoApproval
  used,           \* budget spent
  \* the process
  process,        \* "down", "starting" (exclusive startup) or "up"
  controller,     \* the run's AbortController in the map: "none", "live", "aborted"
  call,           \* the step calls in flight
  generation,     \* the current identity generation
  \* history, read by properties only
  open,           \* step -> attempts whose effect may have happened, nobody having said
  answered,       \* step -> those of them whose handler finished its work
  unsaved         \* step -> the attempt whose failure could not be saved, if any

leaseVars  == <<owner, lease, fence>>
stepVars   == <<state, attempt, leaseFence, effect>>
memoryVars == <<process, controller, call>>
history    == <<open, answered, unsaved>>
vars == <<runState, leaseVars, stepVars, approval, used, memoryVars, generation, history>>

RunStates ==
  {"queued", "running", "waiting", "reconcile_required", "completed", "failed", "cancelled"}

StepStates ==
  {"absent", "pending", "running", "succeeded", "retry_wait", "waiting_approval",
   "waiting_event", "reconcile_required", "failed", "cancelled"}

EffectStatuses ==
  {"none", "intended", "applied", "failed", "uncertain", "abandoned",
   "reconciled-applied", "reconciled-not-applied"}

\* How a call ends: the handler succeeded; it reported that nothing was done; it
\* finished but its output was refused or could not be saved ("lost"); it timed
\* out or its sink said the effect may have landed; the model provider refused
\* for credits or a check-in before sending; or it suspended on an event.
Outcomes == {"none", "ok", "error", "lost", "unknown", "refused", "suspended"}

Idle == [phase |-> "idle"]

InFlight ==
  [phase : {"authorizing", "handling", "returned", "failing"},
   step : Steps, owner : Owners, fence : Nat, attempt : Nat,
   signal : {"live", "stale_lease", "aborted"},
   entry : {"mapped", "dropped"},   \* whether its controller is still in the map
   outcome : Outcomes]

NoApproval == [generation |-> -1, valid |-> FALSE]
Approvals == [generation : -1 .. MaxGeneration, valid : BOOLEAN]

-------------------------------------------------------------------------------
\* Classification of steps.

\* Declared classes that change the world.
WorldClasses == {"idempotent-write", "non-idempotent-effect", "external-send"}

\* An outcome the service never guesses: a non-idempotent effect, or a request to
\* an external model provider.
NeedsReconciliation(s) ==
  \/ Intent[s].effect = "non-idempotent"
  \/ Intent[s].kind = "model" /\ Intent[s].destination = "external"

\* The step's last recorded effect changes the world.
ChangesWorld(s) == effect[s] # "none" /\ Intent[s].class \in WorldClasses

\* Mutant of InterruptedIsUncertain: a recorded write is rerun after an interruption.
WritesAreRerun(s) == NeedsReconciliation(s)

\* An attempt of s that ends without an outcome may have changed the world.
InterruptedIsUncertain(s) == NeedsReconciliation(s) \/ ChangesWorld(s)

\* Steps whose attempts `open' follows: the ones that may change the world.
Guarded(s) == NeedsReconciliation(s) \/ Intent[s].class \in WorldClasses

\* Mutant of SettleInterrupted: the step's state is written as the effect's status.
SettleWithStepState(status, next) == IF status # "intended" THEN status ELSE next

\* settleInterrupted: the effect record of an attempt that ended without an
\* outcome, given the state its step moves to.
SettleInterrupted(status, next) ==
  IF status # "intended" THEN status
  ELSE IF next = "reconcile_required" THEN "uncertain" ELSE "abandoned"

\* Runs fence and claim({ refuseSettled }) refuse.
Settled == {"completed", "cancelled", "failed", "reconcile_required"}

Parked(s) == state[s] = "reconcile_required"

-------------------------------------------------------------------------------
\* The lease.

\* guard(run, owner): the caller owns an unexpired lease.
Owns(o) == owner = o /\ lease = "held"

\* Mutant of OwnsAttempt: the step's state and attempt are not read again.
OwnsLeaseOnly(c) == Owns(call[c].owner) /\ fence = call[c].fence

\* guard(run, owner, fence) and the checks that the attempt is still the call's own.
OwnsAttempt(c) ==
  /\ Owns(call[c].owner)
  /\ fence = call[c].fence
  /\ state[call[c].step] = "running"
  /\ attempt[call[c].step] = call[c].attempt

\* The calls once c has gone on to `phase' with `outcome'.
Becomes(c, phase, outcome) ==
  [call EXCEPT ![c] = [call[c] EXCEPT !.phase = phase, !.outcome = outcome]]

\* Abort the controller in the map for `reason', leaving it there or dropping it.
Aborted(reason, entry) ==
  [c \in Calls |->
     IF call[c] # Idle /\ call[c].entry = "mapped"
     THEN [call[c] EXCEPT !.signal = IF @ = "live" THEN reason ELSE @,
                          !.entry = entry]
     ELSE call[c]]

\* controllers.delete without an abort: the calls keep a signal nobody will raise.
Unregistered ==
  [c \in Calls |-> IF call[c] # Idle THEN [call[c] EXCEPT !.entry = "dropped"] ELSE call[c]]

\* Mutants of Renews: an expired lease is renewed by its owner; any lease is.
RenewsExpired(o) == owner = o
RenewsAnyLease(o) == owner # NoOwner

\* claim by the live owner keeps the fence; every other claim moves it.
Renews(o) == owner = o /\ lease = "held"

LeaseBusy(o) == owner \notin {NoOwner, o} /\ lease = "held"

\* What claim writes into the record, renewal or not.
Claims(o, refuseSettled) ==
  /\ process = "up"
  /\ refuseSettled => runState \notin Settled
  /\ ~LeaseBusy(o)
  /\ owner' = o
  /\ lease' = "held"
  /\ runState' = IF runState = "queued" THEN "running" ELSE runState

RenewLease(o, refuseSettled) ==
  /\ Claims(o, refuseSettled)
  /\ Renews(o)
  /\ UNCHANGED <<fence, stepVars, approval, used, memoryVars, generation, history>>

\* A free or expired lease is taken, and the signal of the old attempts aborted.
TakeLease(o, refuseSettled) ==
  /\ Claims(o, refuseSettled)
  /\ ~Renews(o)
  /\ fence < MaxFence
  /\ fence' = fence + 1
  /\ controller' = "none"
  /\ call' = Aborted("stale_lease", "dropped")
  /\ UNCHANGED <<stepVars, approval, used, process, generation, history>>

\* leaseExpiresAt passes.
ExpireLease ==
  /\ lease = "held"
  /\ lease' = "lapsed"
  /\ UNCHANGED <<runState, owner, fence, stepVars, approval, used, memoryVars,
                 generation, history>>

-------------------------------------------------------------------------------
\* Admission: the first transaction of RunService.step.  The principal's
\* generation g and the hooks' verdict `hold' were read before the transaction,
\* so g may be older than the current generation.

\* The call reaches the step: not cancelled, and its driver holds the lease.
Admits(c, s, o) ==
  /\ process = "up"
  /\ call[c] = Idle
  /\ runState # "cancelled"
  /\ Owns(o)

\* A step recorded running under an older fence: its owner lost the lease.
Orphaned(s) == state[s] = "running" /\ leaseFence[s] # fence

\* A step whose next attempt may start, attempts permitting.
Runnable(s) ==
  /\ \/ state[s] \in {"absent", "pending", "retry_wait", "waiting_approval", "waiting_event", "failed"}
     \/ Orphaned(s) /\ ~InterruptedIsUncertain(s)
  /\ attempt[s] < Intent[s].maxAttempts

\* Approved for this exact intent, under this identity, and not expired.
IsApproved(s, g) == approval[s].valid /\ approval[s].generation = g

NeedsApproval(s, hold) == Intent[s].approval \/ hold

OverBudget(s) ==
  \/ Intent[s].cost > Budget.units - used.units
  \/ Intent[s].kind = "model" /\ used.modelCalls >= Budget.modelCalls
  \/ Intent[s].kind = "tool" /\ used.toolCalls >= Budget.toolCalls

\* Mutant of NextAttempt: a retry keeps the number of the attempt it repeats.
RepeatedAttempt(s) == IF attempt[s] = 0 THEN 1 ELSE attempt[s]

\* The number of the attempt about to start.
NextAttempt(s) == attempt[s] + 1

\* An attempt the lost owner left running may have changed the world: park it.
AdmitParks(c, s, o) ==
  /\ Admits(c, s, o)
  /\ Orphaned(s)
  /\ InterruptedIsUncertain(s)
  /\ state' = [state EXCEPT ![s] = "reconcile_required"]
  /\ effect' = [effect EXCEPT ![s] = SettleInterrupted(@, "reconcile_required")]
  /\ runState' = "reconcile_required"
  /\ UNCHANGED <<leaseVars, attempt, leaseFence, approval, used, memoryVars, generation, history>>

\* No approval covers the attempt: the step and the run wait for one.
AdmitWaits(c, s, o, g, hold) ==
  /\ Admits(c, s, o)
  /\ Runnable(s)
  /\ NeedsApproval(s, hold)
  /\ ~IsApproved(s, g)
  /\ state' = [state EXCEPT ![s] = "waiting_approval"]
  /\ effect' = [effect EXCEPT ![s] =
                  IF state[s] = "running" THEN SettleInterrupted(@, state[s]) ELSE @]
  /\ runState' = "waiting"
  /\ UNCHANGED <<leaseVars, attempt, leaseFence, approval, used, memoryVars, generation, history>>

\* The budget refuses; only a step seen for the first time is saved, as pending.
AdmitBlocks(c, s, o, g, hold) ==
  /\ Admits(c, s, o)
  /\ Runnable(s)
  /\ NeedsApproval(s, hold) => IsApproved(s, g)
  /\ OverBudget(s)
  /\ state[s] = "absent"
  /\ state' = [state EXCEPT ![s] = "pending"]
  /\ UNCHANGED <<runState, leaseVars, attempt, leaseFence, effect, approval, used, memoryVars,
                 generation, history>>

\* The attempt starts: budget spent, the step running under this fence, and its
\* effect recorded as intended in the same commit.  Under a controller that is aborted
\* already it fails at once, and its handler is not entered.
AdmitStarts(c, s, o, g, hold) ==
  /\ Admits(c, s, o)
  /\ Runnable(s)
  /\ NeedsApproval(s, hold) => IsApproved(s, g)
  /\ ~OverBudget(s)
  /\ used' = [units |-> used.units + Intent[s].cost,
              modelCalls |-> used.modelCalls + (IF Intent[s].kind = "model" THEN 1 ELSE 0),
              toolCalls |-> used.toolCalls + (IF Intent[s].kind = "tool" THEN 1 ELSE 0)]
  /\ state' = [state EXCEPT ![s] = "running"]
  /\ attempt' = [attempt EXCEPT ![s] = NextAttempt(s)]
  /\ leaseFence' = [leaseFence EXCEPT ![s] = fence]
  /\ effect' = [effect EXCEPT ![s] =
                  IF Intent[s].class \in {"none", "pure"} THEN @ ELSE "intended"]
  /\ runState' = "running"
  /\ controller' = IF controller = "none" THEN "live" ELSE controller
  /\ call' = [call EXCEPT ![c] =
       [phase |-> IF controller = "aborted" THEN "failing" ELSE "authorizing",
        step |-> s, owner |-> o, fence |-> fence, attempt |-> NextAttempt(s),
        signal |-> IF controller = "aborted" THEN "aborted" ELSE "live",
        entry |-> "mapped",
        outcome |-> IF controller = "aborted" THEN "error" ELSE "none"]]
  /\ open' = [open EXCEPT ![s] = IF Guarded(s) /\ controller # "aborted"
                                 THEN @ \cup {NextAttempt(s)} ELSE @]
  /\ unsaved' = [unsaved EXCEPT ![s] = {}]
  /\ UNCHANGED <<leaseVars, approval, process, generation, answered>>

-------------------------------------------------------------------------------
\* The attempt: outside the queue.

\* The second policy check is an await of its own; the signal was read before it,
\* so a handler may be entered after its attempt was taken over or cancelled.
EnterHandler(c) ==
  /\ call[c] # Idle
  /\ call[c].phase = "authorizing"
  /\ call' = Becomes(c, "handling", "none")
  /\ UNCHANGED <<runState, leaseVars, stepVars, approval, used, process, controller,
                 generation, history>>

\* The policy check refuses (a withdrawn grant): the handler is never entered.
RefuseDispatch(c) ==
  /\ call[c] # Idle
  /\ call[c].phase = "authorizing"
  /\ call' = Becomes(c, "failing", "error")
  /\ open' = [open EXCEPT ![call[c].step] = @ \ {call[c].attempt}]
  /\ UNCHANGED <<runState, leaseVars, stepVars, approval, used, process, controller, generation,
                 answered, unsaved>>

\* What a handler of s can report.
CanReport(s, outcome) ==
  /\ outcome # "none"
  /\ outcome = "refused" => Intent[s].kind = "model"
  /\ outcome = "suspended" => Intent[s].kind = "wait"

\* The handler says that nothing was done.  An error from an effect that is never
\* guessed says nothing of the kind.
SaysNothingDone(s, outcome) ==
  \/ outcome \in {"refused", "suspended"}
  \/ outcome = "error" /\ ~NeedsReconciliation(s)

\* The handler finishes, with an output to commit or an error to record.  "lost"
\* is an effect that happened whose output the tool contract or the result-phase
\* policy check then refused.
HandlerReturns(c, outcome) ==
  /\ call[c] # Idle
  /\ call[c].phase = "handling"
  /\ CanReport(call[c].step, outcome)
  /\ call' = Becomes(c, IF outcome = "ok" THEN "returned" ELSE "failing", outcome)
  /\ open' = [open EXCEPT ![call[c].step] =
                IF SaysNothingDone(call[c].step, outcome) THEN @ \ {call[c].attempt} ELSE @]
  /\ answered' = [answered EXCEPT ![call[c].step] =
                    IF outcome \in {"ok", "lost"}
                    THEN @ \cup ({call[c].attempt} \cap open[call[c].step]) ELSE @]
  /\ UNCHANGED <<runState, leaseVars, stepVars, approval, used, process, controller, generation,
                 unsaved>>

\* The success transaction: still the owner, under the same fence and attempt.
CommitSuccess(c) ==
  /\ call[c] # Idle
  /\ call[c].phase = "returned"
  /\ OwnsAttempt(c)
  /\ LET s == call[c].step IN
       /\ state' = [state EXCEPT ![s] = "succeeded"]
       /\ effect' = [effect EXCEPT ![s] = IF @ = "intended" THEN "applied" ELSE @]
       /\ open' = [open EXCEPT ![s] = {}]
       /\ answered' = [answered EXCEPT ![s] = {}]
  /\ call' = [call EXCEPT ![c] = Idle]
  /\ UNCHANGED <<runState, leaseVars, attempt, leaseFence, approval, used, process, controller,
                 generation, unsaved>>

\* The success transaction is refused (the lease, the fence or the attempt is no
\* longer the call's), or its write fails: the call goes on to record an error.
CommitLost(c) ==
  /\ call[c] # Idle
  /\ call[c].phase = "returned"
  /\ ~OwnsAttempt(c) \/ WritesFail
  /\ call' = Becomes(c, "failing", "lost")
  /\ UNCHANGED <<runState, leaseVars, stepVars, approval, used, process, controller,
                 generation, history>>

\* The state a failed attempt leaves its step in.
FailedState(s, outcome) ==
  IF outcome = "suspended" /\ Intent[s].effect = "pure" /\ Intent[s].destination = "local"
  THEN "waiting_event"
  ELSE IF outcome = "refused" THEN "failed"
  ELSE IF NeedsReconciliation(s) \/ (ChangesWorld(s) /\ outcome = "unknown")
  THEN "reconcile_required"
  ELSE "retry_wait"

\* The failure transaction, by a caller that was not taken over and still owns
\* the attempt.
RecordFailure(c) ==
  /\ call[c] # Idle
  /\ call[c].phase = "failing"
  /\ call[c].signal # "stale_lease"
  /\ OwnsAttempt(c)
  /\ LET s == call[c].step
         next == FailedState(s, call[c].outcome)
     IN /\ state' = [state EXCEPT ![s] = next]
        /\ effect' = [effect EXCEPT ![s] =
             IF @ # "intended" THEN @
             ELSE IF next = "reconcile_required" THEN "uncertain" ELSE "failed"]
        /\ runState' = CASE next = "reconcile_required" -> "reconcile_required"
                         [] next = "waiting_event"      -> "waiting"
                         [] OTHER                       -> runState
  /\ call' = [call EXCEPT ![c] = Idle]
  /\ UNCHANGED <<leaseVars, attempt, leaseFence, approval, used, process, controller,
                 generation, history>>

\* The call ends with nothing recorded: a takeover, a lost lease, an attempt that
\* is no longer running, or a write that failed.
DropFailure(c) ==
  /\ call[c] # Idle
  /\ call[c].phase = "failing"
  /\ call[c].signal = "stale_lease" \/ ~OwnsAttempt(c) \/ WritesFail
  /\ call' = [call EXCEPT ![c] = Idle]
  /\ unsaved' = [unsaved EXCEPT ![call[c].step] =
                   IF call[c].signal # "stale_lease" /\ OwnsAttempt(c)
                   THEN @ \cup {call[c].attempt} ELSE @]
  /\ UNCHANGED <<runState, leaseVars, stepVars, approval, used, process, controller, generation,
                 open, answered>>

-------------------------------------------------------------------------------
\* Decisions, stops and endings.

\* decide "approved": bound to the current identity; the step may be asked for again.
Approve(s) ==
  /\ process = "up"
  /\ state[s] = "waiting_approval"
  /\ approval' = [approval EXCEPT ![s] = [generation |-> generation, valid |-> TRUE]]
  /\ state' = [state EXCEPT ![s] = "pending"]
  /\ UNCHANGED <<runState, leaseVars, attempt, leaseFence, effect, used, memoryVars,
                 generation, history>>

\* decide "denied": the step and the run are cancelled, and the controller is
\* aborted but stays in the map.  Other steps are left as they are.  The abort comes
\* before the write, which may fail.
Deny(s) ==
  /\ process = "up"
  /\ state[s] = "waiting_approval"
  /\ \/ /\ approval' = [approval EXCEPT ![s] = NoApproval]
        /\ state' = [state EXCEPT ![s] = "cancelled"]
        /\ runState' = "cancelled"
     \/ WritesFail /\ UNCHANGED <<approval, state, runState>>
  /\ controller' = IF controller = "none" THEN "none" ELSE "aborted"
  /\ call' = Aborted("aborted", "mapped")
  /\ UNCHANGED <<leaseVars, attempt, leaseFence, effect, used, process, generation, history>>

\* A saved decision expires.
ExpireApproval(s) ==
  /\ approval[s].valid
  /\ approval' = [approval EXCEPT ![s] = [generation |-> approval[s].generation, valid |-> FALSE]]
  /\ UNCHANGED <<runState, leaseVars, stepVars, used, memoryVars,
                 generation, history>>

\* The identity generation rotates: approvals of older generations stop counting.
RotateIdentity ==
  /\ generation < MaxGeneration
  /\ generation' = generation + 1
  /\ UNCHANGED <<runState, leaseVars, stepVars, approval, used, memoryVars, history>>

\* Mutant of CancelledState: an attempt in flight is relabelled as cancelled.
RelabelledState(s) ==
  IF state[s] \in {"running", "pending", "waiting_approval", "waiting_event", "retry_wait"}
  THEN "cancelled" ELSE state[s]

\* cancel: an uncertain attempt is parked, any other unfinished step is cancelled.
CancelledState(s) ==
  IF state[s] = "running" /\ InterruptedIsUncertain(s) THEN "reconcile_required"
  ELSE IF state[s] \in {"running", "pending", "waiting_approval", "waiting_event", "retry_wait"}
  THEN "cancelled"
  ELSE state[s]

\* cancel: an attempt that may have changed the world is parked, never relabelled.
\* A run already completed or cancelled keeps its record; its signal is aborted
\* all the same.
Cancel ==
  /\ process = "up"
  /\ IF runState \in {"completed", "cancelled"}
     THEN UNCHANGED <<runState, state, effect>>
     ELSE /\ runState' = "cancelled"
          /\ state' = [s \in Steps |-> CancelledState(s)]
          /\ effect' = [s \in Steps |->
               IF state[s] = "running" THEN SettleInterrupted(effect[s], CancelledState(s))
               ELSE effect[s]]
  /\ controller' = "none"
  /\ call' = Aborted("aborted", "dropped")
  /\ UNCHANGED <<leaseVars, attempt, leaseFence, approval, used, process, generation, history>>

\* Mutant of OthersParked: asked before the step itself has left the parked state.
AnyParked(s) == \E t \in Steps : Parked(t)

\* After s is settled, another step still waits for reconciliation.
OthersParked(s) == \E t \in Steps \ {s} : Parked(t)

\* reconcileEffect: someone, or the sink's reconciler, says whether it happened.
ReconcileEffect(s, applied) ==
  /\ process # "down"
  /\ Parked(s)
  /\ effect[s] = "uncertain"
  /\ effect' = [effect EXCEPT ![s] =
                  IF applied THEN "reconciled-applied" ELSE "reconciled-not-applied"]
  /\ state' = [state EXCEPT ![s] = IF applied THEN "succeeded" ELSE "retry_wait"]
  /\ runState' = IF /\ runState = "reconcile_required"
                    /\ ~OthersParked(s)
                 THEN "queued" ELSE runState
  /\ open' = [open EXCEPT ![s] = {}]
  /\ answered' = [answered EXCEPT ![s] = {}]
  /\ UNCHANGED <<leaseVars, attempt, leaseFence, approval, used, memoryVars, generation, unsaved>>

\* Mutant of HoldsRun: a step still running does not hold the run.
HoldsRunIfParked(s) == Parked(s)

\* A step that keeps the run from completing.
HoldsRun(s) == state[s] \in {"reconcile_required", "running"}

\* complete: refused while a step is parked or running, and idempotent.
Complete(o) ==
  /\ process = "up"
  /\ \/ runState = "completed"
     \/ /\ runState \notin {"cancelled", "reconcile_required"}
        /\ \A s \in Steps : ~HoldsRun(s)
        /\ Owns(o)
  /\ runState' = "completed"
  /\ controller' = "none"
  /\ call' = Unregistered
  /\ UNCHANGED <<leaseVars, stepVars, approval, used, process, generation, history>>

\* fail: a completed, cancelled or parked run keeps its state.  The controller is
\* dropped from the map without being aborted.
FailRun(o) ==
  /\ process = "up"
  /\ \/ runState \in {"completed", "cancelled", "reconcile_required"} /\ UNCHANGED runState
     \/ /\ runState \notin {"completed", "cancelled", "reconcile_required"}
        /\ Owns(o)
        /\ runState' = "failed"
  /\ controller' = "none"
  /\ call' = Unregistered
  /\ UNCHANGED <<leaseVars, stepVars, approval, used, process, generation, history>>

-------------------------------------------------------------------------------
\* Crash and exclusive startup.

\* The process dies: the record keeps its lease, whose owner no driver of the next
\* process is, and the calls are gone.
Crash ==
  /\ process # "down"
  /\ fence < MaxFence
  /\ process' = "down"
  /\ owner' = IF owner = NoOwner THEN NoOwner ELSE Gone
  /\ controller' = "none"
  /\ call' = [c \in Calls |-> Idle]
  /\ UNCHANGED <<runState, lease, fence, stepVars, approval, used, generation, history>>

\* What recover makes of a step: an uncertain attempt in flight is parked.
RecoveredState(s) ==
  IF state[s] # "running" THEN state[s]
  ELSE IF InterruptedIsUncertain(s) THEN "reconcile_required" ELSE "retry_wait"

\* recover: a live run loses the dead process's lease, and its running steps are
\* parked or made ready again.  A settled or parked run is left as it is.
Recover ==
  /\ process = "down"
  /\ process' = "starting"
  /\ IF runState \notin {"running", "queued", "waiting"}
     THEN UNCHANGED <<runState, leaseVars, state, effect>>
     ELSE /\ owner' = NoOwner
          /\ lease' = "lapsed"
          /\ fence' = fence + 1
          /\ state' = [s \in Steps |-> RecoveredState(s)]
          /\ effect' = [s \in Steps |->
               IF state[s] = "running" THEN SettleInterrupted(effect[s], RecoveredState(s))
               ELSE effect[s]]
          /\ runState' =
               IF \E s \in Steps : RecoveredState(s) = "reconcile_required" THEN "reconcile_required"
               ELSE IF \E s \in Steps : RecoveredState(s) = "waiting_approval" THEN "waiting"
               ELSE "queued"
  /\ UNCHANGED <<attempt, leaseFence, approval, used, controller, call, generation, history>>

\* A provider turn that read and changed nothing but the provider's own record.
ReadOnlyTurn(s) ==
  Intent[s].kind = "model" /\ Intent[s].destination = "external" /\ Intent[s].effect = "read"

\* reconcileInterrupted: startup settles a run parked only for such turns; each is
\* cancelled, never resent.
ReconcileInterrupted ==
  /\ process = "starting"
  /\ runState = "reconcile_required"
  /\ \E s \in Steps : Parked(s)
  /\ \A s \in Steps : Parked(s) => ReadOnlyTurn(s)
  /\ state' = [s \in Steps |-> IF Parked(s) THEN "cancelled" ELSE state[s]]
  /\ runState' = "queued"
  /\ UNCHANGED <<leaseVars, attempt, leaseFence, effect, approval, used, memoryVars,
                 generation, history>>

\* Startup ends: drivers and clients are served.
Open ==
  /\ process = "starting"
  /\ process' = "up"
  /\ UNCHANGED <<runState, leaseVars, stepVars, approval, used, controller, call, generation, history>>

-------------------------------------------------------------------------------
\* start: a run just created.
Init ==
  /\ runState = "queued"
  /\ owner = NoOwner /\ lease = "lapsed" /\ fence = 0
  /\ state = [s \in Steps |-> "absent"]
  /\ attempt = [s \in Steps |-> 0]
  /\ leaseFence = [s \in Steps |-> 0]
  /\ effect = [s \in Steps |-> "none"]
  /\ approval = [s \in Steps |-> NoApproval]
  /\ used = [units |-> 0, modelCalls |-> 0, toolCalls |-> 0]
  /\ process = "up" /\ controller = "none"
  /\ call = [c \in Calls |-> Idle]
  /\ generation = 0
  /\ open = [s \in Steps |-> {}]
  /\ answered = [s \in Steps |-> {}] /\ unsaved = [s \in Steps |-> {}]

Lease(o) ==
  \/ \E r \in BOOLEAN : RenewLease(o, r) \/ TakeLease(o, r)
  \/ Complete(o)
  \/ FailRun(o)

Admission(c, s, o) ==
  \/ AdmitParks(c, s, o)
  \/ \E g \in 0 .. generation, hold \in {h \in BOOLEAN : h => s \in Held} :
       AdmitWaits(c, s, o, g, hold) \/ AdmitBlocks(c, s, o, g, hold) \/ AdmitStarts(c, s, o, g, hold)

Execution(c) ==
  \/ EnterHandler(c)
  \/ RefuseDispatch(c)
  \/ \E outcome \in Outcomes : HandlerReturns(c, outcome)
  \/ CommitSuccess(c)
  \/ CommitLost(c)
  \/ RecordFailure(c)
  \/ DropFailure(c)

Decision(s) ==
  \/ Approve(s)
  \/ Deny(s)
  \/ ExpireApproval(s)
  \/ \E applied \in BOOLEAN : ReconcileEffect(s, applied)

Next ==
  \/ \E o \in Owners : Lease(o)
  \/ \E c \in Calls, s \in Steps, o \in Owners : Admission(c, s, o)
  \/ \E c \in Calls : Execution(c)
  \/ \E s \in Steps : Decision(s)
  \/ ExpireLease \/ RotateIdentity \/ Cancel
  \/ Crash \/ Recover \/ ReconcileInterrupted \/ Open

Spec == Init /\ [][Next]_vars

-------------------------------------------------------------------------------
\* Properties.

\* Every part of the record and of the process keeps its type, and an idle call
\* slot carries nothing of the call it served.
TypeOK ==
  /\ runState \in RunStates
  /\ owner \in Owners \cup {NoOwner, Gone} /\ lease \in {"held", "lapsed"} /\ fence \in Nat
  /\ state \in [Steps -> StepStates]
  /\ attempt \in [Steps -> Nat]
  /\ leaseFence \in [Steps -> Nat]
  /\ effect \in [Steps -> EffectStatuses]
  /\ approval \in [Steps -> Approvals]
  /\ used \in [units : Nat, modelCalls : Nat, toolCalls : Nat]
  /\ process \in {"down", "starting", "up"}
  /\ controller \in {"none", "live", "aborted"}
  /\ call \in [Calls -> InFlight \cup {Idle}]
  /\ generation \in 0 .. MaxGeneration
  /\ {open, answered, unsaved} \subseteq [Steps -> SUBSET Nat]

\* No attempt starts while an earlier one may have changed the world and its handler
\* never finished: it crashed, was taken over, stopped, timed out or said it did not
\* know.  An effect that is never guessed starts only when no attempt is open at all.
\* (step, recover, cancel and settleInterrupted together.)
NeverOnAGuess ==
  [][\A s \in Steps :
       attempt'[s] # attempt[s] =>
         /\ open[s] \subseteq answered[s]
         /\ NeedsReconciliation(s) => open[s] = {}]_vars

\* No write is executed again while an earlier attempt of it may have happened and
\* nobody has said: `failed' means that the handler reported the failure.
WritesAreNotRepeated ==
  [][\A s \in Steps : attempt'[s] # attempt[s] => open[s] = {}]_vars

\* A fence belongs to one owner: whoever holds the lease under the fence of a call
\* in flight is the owner that call was made for, so no two drivers can commit
\* under one fence.  (claim, recover and guard.)
FenceNamesOneOwner ==
  \A c \in Calls :
    call[c] # Idle =>
      /\ call[c].fence <= fence
      /\ call[c].fence = fence /\ lease = "held" => owner = call[c].owner

\* Two calls in flight never stand for the same attempt of a step, so at most one
\* of them can commit it: a second call of a running step starts a new attempt
\* only after the fence moved on.
OneCallPerAttempt ==
  \A c, d \in Calls :
    c # d /\ call[c] # Idle /\ call[d] # Idle =>
      <<call[c].step, call[c].attempt>> # <<call[d].step, call[d].attempt>>

\* A step that succeeded or was cancelled never changes again: no late commit, no
\* late failure, no second decision and no recovery reaches it.
StepsSettleOnce ==
  [][\A s \in Steps : state[s] \in {"succeeded", "cancelled"} => state'[s] = state[s]]_vars

\* While the record says completed, no step runs and none is parked, whoever wrote
\* last.  (complete's check, against every handler that starts or parks a step.)
CompletedHoldsNothing ==
  runState = "completed" => \A s \in Steps : state[s] \notin {"running", "reconcile_required"}

\* A run parked for reconciliation has something to reconcile: it cannot be stuck
\* parked with every step settled.
ParkedRunHasParkedStep ==
  runState = "reconcile_required" => \E s \in Steps : Parked(s)

\* A parked step that recorded an effect says it is uncertain, so reconcileEffect
\* can settle it, whichever of takeover, crash, stop and failure parked it.
ParkedEffectIsUncertain ==
  \A s \in Steps :
    Parked(s) /\ Intent[s].class \in WorldClasses => effect[s] = "uncertain"

\* A step recorded in flight under a lease its driver still holds has a call that
\* will settle it, unless the store refused to save that call's failure: it is not
\* left to answer `already in flight' for as long as that driver renews.  (step,
\* claim, cancel and decide.)
InFlightHasACall ==
  owner \in Owners /\ lease = "held" =>
    \A s \in Steps :
      state[s] = "running" /\ leaseFence[s] = fence =>
        \/ attempt[s] \in unsaved[s]
        \/ \E c \in Calls :
             call[c] # Idle /\ call[c].step = s /\ call[c].attempt = attempt[s]

\* A cancelled run never becomes live again, whatever it still had in flight.
CancelledStaysCancelled ==
  [][runState = "cancelled" => runState' = "cancelled"]_vars

-------------------------------------------------------------------------------
\* What the service promises of its steps.

\* The ledger's phase of a step.
PhaseOf(s) ==
  CASE state[s] = "running"            -> "inflight"
    [] state[s] = "reconcile_required" -> "parked"
    [] state[s] = "succeeded"          -> "done"
    [] state[s] = "cancelled"          -> "dropped"
    [] OTHER                           -> "ready"

Ledger ==
  INSTANCE StepLedger WITH
    Irrevocable <- {s \in Steps : NeedsReconciliation(s)},
    phase <- [s \in Steps |-> PhaseOf(s)],
    uncertain <- [s \in Steps |-> open[s] # {}],
    completed <- runState = "completed"

\* The run service implements the step ledger: whatever the order of takeovers,
\* cancellations, restarts and late handlers, each step of the record makes only
\* the ledger's moves.
ImplementsLedger == Ledger!Spec
===============================================================================
