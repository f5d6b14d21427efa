--------------------------- MODULE RunServiceProofs ---------------------------
(***************************************************************************)
(* Proofs about RunService, for every set of steps, owners and calls,      *)
(* every intent and every bound.                                           *)
(***************************************************************************)
EXTENDS RunService, TLAPS

Phases == {"authorizing", "handling", "returned", "failing"}

\* An idle slot is not a call in flight.
LEMMA IdleIsNotInFlight == \A k \in InFlight : k # Idle
BY DEF InFlight, Idle

\* A call that goes on to another phase is still the same call, and the others stay.
LEMMA BecomesFacts ==
  ASSUME call \in [Calls -> InFlight \cup {Idle}], NEW c \in Calls, call[c] # Idle,
         NEW phase \in Phases, NEW outcome \in Outcomes
  PROVE  /\ Becomes(c, phase, outcome) \in [Calls -> InFlight \cup {Idle}]
         /\ Becomes(c, phase, outcome)[c] # Idle
         /\ Becomes(c, phase, outcome)[c].phase = phase
         /\ Becomes(c, phase, outcome)[c].outcome = outcome
         /\ Becomes(c, phase, outcome)[c].step = call[c].step
         /\ Becomes(c, phase, outcome)[c].owner = call[c].owner
         /\ Becomes(c, phase, outcome)[c].fence = call[c].fence
         /\ Becomes(c, phase, outcome)[c].attempt = call[c].attempt
         /\ Becomes(c, phase, outcome)[c].signal = call[c].signal
         /\ \A d \in Calls \ {c} : Becomes(c, phase, outcome)[d] = call[d]
<1> DEFINE k == [call[c] EXCEPT !.phase = phase, !.outcome = outcome]
<1>1. k \in InFlight
  BY DEF InFlight, Phases
<1>2. /\ k.phase = phase /\ k.outcome = outcome /\ k.step = call[c].step
      /\ k.owner = call[c].owner /\ k.fence = call[c].fence /\ k.attempt = call[c].attempt
      /\ k.signal = call[c].signal
  BY DEF InFlight
<1> HIDE DEF k
<1>3. Becomes(c, phase, outcome) = [call EXCEPT ![c] = k]
  BY DEF Becomes, k
<1> QED
  BY <1>1, <1>2, <1>3, IdleIsNotInFlight

\* Aborting and unregistering change no call but its signal and registration.
LEMMA AbortedFacts ==
  ASSUME call \in [Calls -> InFlight \cup {Idle}],
         NEW reason \in {"stale_lease", "aborted"}, NEW entry \in {"mapped", "dropped"}
  PROVE  /\ Aborted(reason, entry) \in [Calls -> InFlight \cup {Idle}]
         /\ \A c \in Calls :
              /\ call[c] = Idle => Aborted(reason, entry)[c] = Idle
              /\ call[c] # Idle =>
                   /\ Aborted(reason, entry)[c] # Idle
                   /\ Aborted(reason, entry)[c].phase = call[c].phase
                   /\ Aborted(reason, entry)[c].outcome = call[c].outcome
                   /\ Aborted(reason, entry)[c].step = call[c].step
                   /\ Aborted(reason, entry)[c].owner = call[c].owner
                   /\ Aborted(reason, entry)[c].fence = call[c].fence
                   /\ Aborted(reason, entry)[c].attempt = call[c].attempt
                   /\ Aborted(reason, entry)[c].signal \in {reason, call[c].signal}
<1> DEFINE k(c) == [call[c] EXCEPT !.signal = IF @ = "live" THEN reason ELSE @, !.entry = entry]
<1>1. ASSUME NEW c \in Calls, call[c] # Idle
      PROVE  /\ k(c) \in InFlight
             /\ k(c).phase = call[c].phase /\ k(c).outcome = call[c].outcome
             /\ k(c).step = call[c].step /\ k(c).owner = call[c].owner
             /\ k(c).fence = call[c].fence /\ k(c).attempt = call[c].attempt
             /\ k(c).signal \in {reason, call[c].signal}
  BY <1>1 DEF InFlight
<1> HIDE DEF k
<1>2. Aborted(reason, entry) =
        [c \in Calls |-> IF call[c] # Idle /\ call[c].entry = "mapped" THEN k(c) ELSE call[c]]
  BY DEF Aborted, k
<1> QED
  BY <1>1, <1>2, IdleIsNotInFlight

\* Dropping the controller changes no call but its registration.
LEMMA UnregisteredFacts ==
  ASSUME call \in [Calls -> InFlight \cup {Idle}]
  PROVE  /\ Unregistered \in [Calls -> InFlight \cup {Idle}]
         /\ \A c \in Calls :
              /\ call[c] = Idle => Unregistered[c] = Idle
              /\ call[c] # Idle =>
                   /\ Unregistered[c] # Idle
                   /\ Unregistered[c].phase = call[c].phase
                   /\ Unregistered[c].outcome = call[c].outcome
                   /\ Unregistered[c].step = call[c].step
                   /\ Unregistered[c].owner = call[c].owner
                   /\ Unregistered[c].fence = call[c].fence
                   /\ Unregistered[c].attempt = call[c].attempt
                   /\ Unregistered[c].signal = call[c].signal
<1> DEFINE k(c) == [call[c] EXCEPT !.entry = "dropped"]
<1>1. ASSUME NEW c \in Calls, call[c] # Idle
      PROVE  /\ k(c) \in InFlight
             /\ k(c).phase = call[c].phase /\ k(c).outcome = call[c].outcome
             /\ k(c).step = call[c].step /\ k(c).owner = call[c].owner
             /\ k(c).fence = call[c].fence /\ k(c).attempt = call[c].attempt
             /\ k(c).signal = call[c].signal
  BY <1>1 DEF InFlight
<1> HIDE DEF k
<1>2. Unregistered = [c \in Calls |-> IF call[c] # Idle THEN k(c) ELSE call[c]]
  BY DEF Unregistered, k
<1> QED
  BY <1>1, <1>2, IdleIsNotInFlight

\* Every action keeps the type of the state.
LEMMA TypeStep == ASSUME TypeOK, [Next]_vars PROVE TypeOK'
<1>1. ASSUME NEW o \in Owners, NEW r \in BOOLEAN, RenewLease(o, r)
      PROVE  TypeOK'
  BY <1>1 DEF RenewLease, TypeOK, leaseVars, stepVars, memoryVars, history, Claims, RunStates
<1>2. ASSUME NEW o \in Owners, NEW r \in BOOLEAN, TakeLease(o, r)
      PROVE  TypeOK'
  <2>1. call' \in [Calls -> InFlight \cup {Idle}]
    BY <1>2, AbortedFacts DEF TakeLease, TypeOK
  <2> QED
    BY <1>2, <2>1 DEF TakeLease, TypeOK, leaseVars, stepVars, memoryVars, history, Claims,
       RunStates
<1>3. ASSUME NEW o \in Owners, Complete(o)
      PROVE  TypeOK'
  <2>1. call' \in [Calls -> InFlight \cup {Idle}]
    BY <1>3, UnregisteredFacts DEF Complete, TypeOK
  <2> QED
    BY <1>3, <2>1 DEF Complete, TypeOK, leaseVars, stepVars, memoryVars, history, RunStates
<1>4. ASSUME NEW o \in Owners, FailRun(o)
      PROVE  TypeOK'
  <2>1. call' \in [Calls -> InFlight \cup {Idle}]
    BY <1>4, UnregisteredFacts DEF FailRun, TypeOK
  <2> QED
    BY <1>4, <2>1 DEF FailRun, TypeOK, leaseVars, stepVars, memoryVars, history, RunStates
<1>5. ASSUME NEW c \in Calls, NEW s \in Steps, NEW o \in Owners, AdmitParks(c, s, o)
      PROVE  TypeOK'
  BY <1>5 DEF AdmitParks, TypeOK, leaseVars, stepVars, memoryVars, history, RunStates,
     StepStates, EffectStatuses, SettleInterrupted
<1>6. ASSUME NEW c \in Calls, NEW s \in Steps, NEW o \in Owners,
          NEW g \in 0 .. generation, NEW hold \in BOOLEAN,
          AdmitWaits(c, s, o, g, hold)
      PROVE  TypeOK'
  BY <1>6 DEF AdmitWaits, TypeOK, leaseVars, stepVars, memoryVars, history, RunStates,
     StepStates, EffectStatuses, SettleInterrupted
<1>7. ASSUME NEW c \in Calls, NEW s \in Steps, NEW o \in Owners,
          NEW g \in 0 .. generation, NEW hold \in BOOLEAN,
          AdmitBlocks(c, s, o, g, hold)
      PROVE  TypeOK'
  BY <1>7 DEF AdmitBlocks, TypeOK, leaseVars, stepVars, memoryVars, history, StepStates
<1>8. ASSUME NEW c \in Calls, NEW s \in Steps, NEW o \in Owners,
          NEW g \in 0 .. generation, NEW hold \in BOOLEAN,
          AdmitStarts(c, s, o, g, hold)
      PROVE  TypeOK'
  <2>1. Intent[s].cost \in Nat
    BY IntentAssumption DEF StepIntents
  <2>2. used' \in [units : Nat, modelCalls : Nat, toolCalls : Nat]
    BY <1>8, <2>1 DEF AdmitStarts, TypeOK
  <2>3. NextAttempt(s) \in Nat /\ fence \in Nat
    BY DEF TypeOK, NextAttempt
  <2>4. o \in Owners
    OBVIOUS
  <2>5. call' \in [Calls -> InFlight \cup {Idle}]
    BY <1>8, <2>3 DEF AdmitStarts, TypeOK, InFlight, Outcomes, NextAttempt
  <2>6. {open', answered', unsaved'} \subseteq [Steps -> SUBSET Nat]
    BY <1>8, <2>3 DEF AdmitStarts, TypeOK
  <2> QED
    BY <1>8, <2>2, <2>3, <2>5, <2>6
    DEF AdmitStarts, TypeOK, leaseVars, RunStates, StepStates, EffectStatuses, Approvals
<1>9. ASSUME NEW c \in Calls, EnterHandler(c)
      PROVE  TypeOK'
  <2>1. call' \in [Calls -> InFlight \cup {Idle}]
    BY <1>9, BecomesFacts DEF EnterHandler, TypeOK, Phases, Outcomes
  <2> QED
    BY <1>9, <2>1 DEF EnterHandler, TypeOK, leaseVars, stepVars, memoryVars, history
<1>10. ASSUME NEW c \in Calls, RefuseDispatch(c)
      PROVE  TypeOK'
  <2>1. call' \in [Calls -> InFlight \cup {Idle}]
    BY <1>10, BecomesFacts DEF RefuseDispatch, TypeOK, Phases, Outcomes
  <2>2. open' \in [Steps -> SUBSET Nat]
    BY <1>10 DEF RefuseDispatch, TypeOK, history
  <2> QED
    BY <1>10, <2>1, <2>2 DEF RefuseDispatch, TypeOK, leaseVars, stepVars, memoryVars, history
<1>11. ASSUME NEW c \in Calls, NEW outcome \in Outcomes, HandlerReturns(c, outcome)
      PROVE  TypeOK'
  <2>1. call' \in [Calls -> InFlight \cup {Idle}]
    BY <1>11, BecomesFacts DEF HandlerReturns, TypeOK, Phases, Outcomes
  <2>2. call[c].attempt \in Nat
    BY <1>11 DEF HandlerReturns, TypeOK, InFlight
  <2>3. open' \in [Steps -> SUBSET Nat]
    BY <1>11 DEF HandlerReturns, TypeOK
  <2>4. answered' \in [Steps -> SUBSET Nat]
    BY <1>11, <2>2 DEF HandlerReturns, TypeOK
  <2> QED
    BY <1>11, <2>1, <2>3, <2>4 DEF HandlerReturns, TypeOK, leaseVars, stepVars
<1>12. ASSUME NEW c \in Calls, CommitSuccess(c)
      PROVE  TypeOK'
  BY <1>12 DEF CommitSuccess, TypeOK, leaseVars, stepVars, memoryVars, history, StepStates,
     EffectStatuses, InFlight
<1>13. ASSUME NEW c \in Calls, CommitLost(c)
      PROVE  TypeOK'
  <2>1. call' \in [Calls -> InFlight \cup {Idle}]
    BY <1>13, BecomesFacts DEF CommitLost, TypeOK, Phases, Outcomes
  <2> QED
    BY <1>13, <2>1 DEF CommitLost, TypeOK, leaseVars, stepVars, memoryVars, history
<1>14. ASSUME NEW c \in Calls, RecordFailure(c)
      PROVE  TypeOK'
  BY <1>14 DEF RecordFailure, TypeOK, leaseVars, stepVars, memoryVars, history, StepStates,
     EffectStatuses, RunStates, FailedState, InFlight
<1>15. ASSUME NEW c \in Calls, DropFailure(c)
      PROVE  TypeOK'
  <2>1. call[c].attempt \in Nat
    BY <1>15 DEF DropFailure, TypeOK, InFlight
  <2>2. unsaved' \in [Steps -> SUBSET Nat]
    BY <1>15, <2>1 DEF DropFailure, TypeOK
  <2>3. call' \in [Calls -> InFlight \cup {Idle}]
    BY <1>15 DEF DropFailure, TypeOK
  <2> QED
    BY <1>15, <2>2, <2>3 DEF DropFailure, TypeOK, leaseVars, stepVars
<1>16. ASSUME NEW s \in Steps, Approve(s)
      PROVE  TypeOK'
  BY <1>16 DEF Approve, TypeOK, leaseVars, stepVars, memoryVars, history, StepStates, Approvals
<1>17. ASSUME NEW s \in Steps, Deny(s)
      PROVE  TypeOK'
  <2>1. call' \in [Calls -> InFlight \cup {Idle}]
    BY <1>17, AbortedFacts DEF Deny, TypeOK
  <2>2. /\ approval' \in [Steps -> Approvals] /\ state' \in [Steps -> StepStates]
        /\ runState' \in RunStates
    <3>1. NoApproval \in Approvals
      BY BoundAssumption DEF Approvals, NoApproval
    <3>2. CASE UNCHANGED <<approval, state, runState>>
      BY <3>2 DEF TypeOK
    <3>3. CASE /\ approval' = [approval EXCEPT ![s] = NoApproval]
               /\ state' = [state EXCEPT ![s] = "cancelled"]
               /\ runState' = "cancelled"
      BY <3>1, <3>3 DEF TypeOK, StepStates, RunStates
    <3> QED
      BY <1>17, <3>2, <3>3 DEF Deny
  <2> QED
    BY <1>17, <2>1, <2>2 DEF Deny, TypeOK, leaseVars, history
<1>18. ASSUME NEW s \in Steps, ExpireApproval(s)
      PROVE  TypeOK'
  BY <1>18 DEF ExpireApproval, TypeOK, leaseVars, stepVars, memoryVars, history, Approvals
<1>19. ASSUME NEW s \in Steps, NEW applied \in BOOLEAN, ReconcileEffect(s, applied)
      PROVE  TypeOK'
  BY <1>19 DEF ReconcileEffect, TypeOK, leaseVars, stepVars, memoryVars, history, StepStates,
     EffectStatuses, RunStates
<1>20. ASSUME ExpireLease
      PROVE  TypeOK'
  BY <1>20 DEF ExpireLease, TypeOK, leaseVars, stepVars, memoryVars, history
<1>21. ASSUME RotateIdentity
      PROVE  TypeOK'
  BY <1>21, BoundAssumption DEF RotateIdentity, TypeOK, leaseVars, stepVars, memoryVars, history
<1>22. ASSUME Cancel
      PROVE  TypeOK'
  <2>1. call' \in [Calls -> InFlight \cup {Idle}]
    BY <1>22, AbortedFacts DEF Cancel, TypeOK
  <2> QED
    BY <1>22, <2>1 DEF Cancel, TypeOK, leaseVars, stepVars, memoryVars, history, StepStates,
       EffectStatuses, RunStates, CancelledState,
           SettleInterrupted
<1>23. ASSUME Crash
      PROVE  TypeOK'
  BY <1>23 DEF Crash, TypeOK, leaseVars, stepVars, memoryVars, history
<1>24. ASSUME Recover
      PROVE  TypeOK'
  BY <1>24 DEF Recover, TypeOK, leaseVars, stepVars, memoryVars, history, StepStates,
     EffectStatuses, RunStates, RecoveredState, SettleInterrupted
<1>25. ASSUME ReconcileInterrupted
      PROVE  TypeOK'
  BY <1>25 DEF ReconcileInterrupted, TypeOK, leaseVars, stepVars, memoryVars, history,
     RunStates, StepStates
<1>26. ASSUME Open
      PROVE  TypeOK'
  BY <1>26 DEF Open, TypeOK, leaseVars, stepVars, memoryVars, history
<1>27. ASSUME UNCHANGED vars
      PROVE  TypeOK'
  BY <1>27 DEF TypeOK, vars, leaseVars, stepVars, memoryVars, history
<1> QED
  BY <1>1, <1>2, <1>3, <1>4, <1>5, <1>6, <1>7, <1>8, <1>9, <1>10, <1>11, <1>12, <1>13, <1>14,
     <1>15, <1>16, <1>17, <1>18, <1>19, <1>20, <1>21, <1>22, <1>23, <1>24, <1>25, <1>26, <1>27
  DEF Next, Lease, Admission, Execution, Decision

\* A run just created has the right type.
LEMMA TypeInit == Init => TypeOK
BY BoundAssumption
DEF Init, TypeOK, RunStates, StepStates, EffectStatuses, Approvals, NoApproval

\* Every part of the record and of the process keeps its type: of every run of
\* the service, for every set of steps, drivers and calls.
THEOREM TypeCorrect == Spec => []TypeOK
BY TypeInit, TypeStep, PTL DEF Spec

-------------------------------------------------------------------------------
\* The calls in flight are the ones there were: none changed what it stands for.
SameCalls ==
  \A c \in Calls :
    call'[c] # Idle =>
      /\ call[c] # Idle
      /\ call'[c].step = call[c].step /\ call'[c].attempt = call[c].attempt
      /\ call'[c].owner = call[c].owner /\ call'[c].fence = call[c].fence

\* Some attempt starts.
SomeStart ==
  \E c \in Calls, s \in Steps, o \in Owners, g \in 0 .. generation, hold \in BOOLEAN :
    AdmitStarts(c, s, o, g, hold)

\* A call that goes on to another phase stands for what it stood for.
LEMMA BecomesSame ==
  ASSUME call \in [Calls -> InFlight \cup {Idle}], NEW c \in Calls, call[c] # Idle,
         NEW phase \in Phases, NEW outcome \in Outcomes, call' = Becomes(c, phase, outcome)
  PROVE  SameCalls
<1>1. /\ call'[c].step = call[c].step /\ call'[c].attempt = call[c].attempt
      /\ call'[c].owner = call[c].owner /\ call'[c].fence = call[c].fence
  BY BecomesFacts
<1>2. \A d \in Calls \ {c} : call'[d] = call[d]
  BY BecomesFacts
<1> QED
  BY <1>1, <1>2 DEF SameCalls

\* Only the start of an attempt makes a call or numbers an attempt.
LEMMA CallsStay ==
  ASSUME TypeOK, [Next]_vars, ~SomeStart
  PROVE  SameCalls /\ attempt' = attempt /\ leaseFence' = leaseFence
<1>1. ASSUME NEW o \in Owners, NEW r \in BOOLEAN, RenewLease(o, r)
      PROVE  SameCalls /\ attempt' = attempt /\ leaseFence' = leaseFence
  BY <1>1 DEF RenewLease, TypeOK, SameCalls, stepVars, memoryVars, history
<1>2. ASSUME NEW o \in Owners, NEW r \in BOOLEAN, TakeLease(o, r)
      PROVE  SameCalls /\ attempt' = attempt /\ leaseFence' = leaseFence
  BY <1>2, AbortedFacts DEF TakeLease, TypeOK, SameCalls, stepVars, history
<1>3. ASSUME NEW o \in Owners, Complete(o)
      PROVE  SameCalls /\ attempt' = attempt /\ leaseFence' = leaseFence
  BY <1>3, UnregisteredFacts DEF Complete, TypeOK, SameCalls, stepVars, history
<1>4. ASSUME NEW o \in Owners, FailRun(o)
      PROVE  SameCalls /\ attempt' = attempt /\ leaseFence' = leaseFence
  BY <1>4, UnregisteredFacts DEF FailRun, TypeOK, SameCalls, stepVars, history
<1>5. ASSUME NEW c \in Calls, NEW s \in Steps, NEW o \in Owners, AdmitParks(c, s, o)
      PROVE  SameCalls /\ attempt' = attempt /\ leaseFence' = leaseFence
  BY <1>5 DEF AdmitParks, TypeOK, SameCalls, stepVars, memoryVars, history
<1>6. ASSUME NEW c \in Calls, NEW s \in Steps, NEW o \in Owners,
          NEW g \in 0 .. generation, NEW hold \in BOOLEAN,
          AdmitWaits(c, s, o, g, hold)
      PROVE  SameCalls /\ attempt' = attempt /\ leaseFence' = leaseFence
  BY <1>6 DEF AdmitWaits, TypeOK, SameCalls, stepVars, memoryVars, history
<1>7. ASSUME NEW c \in Calls, NEW s \in Steps, NEW o \in Owners,
          NEW g \in 0 .. generation, NEW hold \in BOOLEAN,
          AdmitBlocks(c, s, o, g, hold)
      PROVE  SameCalls /\ attempt' = attempt /\ leaseFence' = leaseFence
  BY <1>7 DEF AdmitBlocks, TypeOK, SameCalls, stepVars, memoryVars, history
<1>8. ASSUME NEW c \in Calls, NEW s \in Steps, NEW o \in Owners,
          NEW g \in 0 .. generation, NEW hold \in BOOLEAN,
          AdmitStarts(c, s, o, g, hold)
      PROVE  SameCalls /\ attempt' = attempt /\ leaseFence' = leaseFence
  BY <1>8 DEF SomeStart
<1>9. ASSUME NEW c \in Calls, EnterHandler(c)
      PROVE  SameCalls /\ attempt' = attempt /\ leaseFence' = leaseFence
  BY <1>9, BecomesSame DEF EnterHandler, TypeOK, Phases, Outcomes, stepVars, history
<1>10. ASSUME NEW c \in Calls, RefuseDispatch(c)
      PROVE  SameCalls /\ attempt' = attempt /\ leaseFence' = leaseFence
  BY <1>10, BecomesSame DEF RefuseDispatch, TypeOK, Phases, Outcomes, stepVars, history
<1>11. ASSUME NEW c \in Calls, NEW outcome \in Outcomes, HandlerReturns(c, outcome)
      PROVE  SameCalls /\ attempt' = attempt /\ leaseFence' = leaseFence
  BY <1>11, BecomesSame DEF HandlerReturns, TypeOK, Phases, Outcomes, stepVars, history
<1>12. ASSUME NEW c \in Calls, CommitSuccess(c)
      PROVE  SameCalls /\ attempt' = attempt /\ leaseFence' = leaseFence
  BY <1>12 DEF CommitSuccess, TypeOK, SameCalls, stepVars, memoryVars, history
<1>13. ASSUME NEW c \in Calls, CommitLost(c)
      PROVE  SameCalls /\ attempt' = attempt /\ leaseFence' = leaseFence
  BY <1>13, BecomesSame DEF CommitLost, TypeOK, Phases, Outcomes, stepVars, history
<1>14. ASSUME NEW c \in Calls, RecordFailure(c)
      PROVE  SameCalls /\ attempt' = attempt /\ leaseFence' = leaseFence
  BY <1>14 DEF RecordFailure, TypeOK, SameCalls, stepVars, memoryVars, history
<1>15. ASSUME NEW c \in Calls, DropFailure(c)
      PROVE  SameCalls /\ attempt' = attempt /\ leaseFence' = leaseFence
  BY <1>15 DEF DropFailure, TypeOK, SameCalls, stepVars, memoryVars, history
<1>16. ASSUME NEW s \in Steps, Approve(s)
      PROVE  SameCalls /\ attempt' = attempt /\ leaseFence' = leaseFence
  BY <1>16 DEF Approve, TypeOK, SameCalls, stepVars, memoryVars, history
<1>17. ASSUME NEW s \in Steps, Deny(s)
      PROVE  SameCalls /\ attempt' = attempt /\ leaseFence' = leaseFence
  BY <1>17, AbortedFacts DEF Deny, TypeOK, SameCalls, stepVars, history
<1>18. ASSUME NEW s \in Steps, ExpireApproval(s)
      PROVE  SameCalls /\ attempt' = attempt /\ leaseFence' = leaseFence
  BY <1>18 DEF ExpireApproval, TypeOK, SameCalls, stepVars, memoryVars, history
<1>19. ASSUME NEW s \in Steps, NEW applied \in BOOLEAN, ReconcileEffect(s, applied)
      PROVE  SameCalls /\ attempt' = attempt /\ leaseFence' = leaseFence
  BY <1>19 DEF ReconcileEffect, TypeOK, SameCalls, stepVars, memoryVars, history
<1>20. ASSUME ExpireLease
      PROVE  SameCalls /\ attempt' = attempt /\ leaseFence' = leaseFence
  BY <1>20 DEF ExpireLease, TypeOK, SameCalls, stepVars, memoryVars, history
<1>21. ASSUME RotateIdentity
      PROVE  SameCalls /\ attempt' = attempt /\ leaseFence' = leaseFence
  BY <1>21 DEF RotateIdentity, TypeOK, SameCalls, stepVars, memoryVars, history
<1>22. ASSUME Cancel
      PROVE  SameCalls /\ attempt' = attempt /\ leaseFence' = leaseFence
  BY <1>22, AbortedFacts DEF Cancel, TypeOK, SameCalls, stepVars, history
<1>23. ASSUME Crash
      PROVE  SameCalls /\ attempt' = attempt /\ leaseFence' = leaseFence
  BY <1>23 DEF Crash, TypeOK, SameCalls, stepVars, memoryVars, history
<1>24. ASSUME Recover
      PROVE  SameCalls /\ attempt' = attempt /\ leaseFence' = leaseFence
  BY <1>24 DEF Recover, TypeOK, SameCalls, stepVars, memoryVars, history
<1>25. ASSUME ReconcileInterrupted
      PROVE  SameCalls /\ attempt' = attempt /\ leaseFence' = leaseFence
  BY <1>25 DEF ReconcileInterrupted, TypeOK, SameCalls, stepVars, memoryVars, history
<1>26. ASSUME Open
      PROVE  SameCalls /\ attempt' = attempt /\ leaseFence' = leaseFence
  BY <1>26 DEF Open, TypeOK, SameCalls, stepVars, memoryVars, history
<1>27. ASSUME UNCHANGED vars
      PROVE  SameCalls /\ attempt' = attempt /\ leaseFence' = leaseFence
  BY <1>27 DEF SameCalls, vars, stepVars, memoryVars, history
<1> QED
  BY <1>1, <1>2, <1>3, <1>4, <1>5, <1>6, <1>7, <1>8, <1>9, <1>10, <1>11, <1>12, <1>13, <1>14,
     <1>15, <1>16, <1>17, <1>18, <1>19, <1>20, <1>21, <1>22, <1>23, <1>24, <1>25, <1>26, <1>27
  DEF Next, Lease, Admission, Execution, Decision

\* The fence moves on, or the lease stays whose it was, or there are no calls.
LeaseMoves ==
  /\ fence' >= fence
  /\ \/ fence' > fence
     \/ fence' = fence /\ (lease' = "held" => lease = "held" /\ owner' = owner)
     \/ \A c \in Calls : call'[c] = Idle

\* A lease changes hands only under a new fence.
LEMMA LeaseMovesWithFence ==
  ASSUME TypeOK, [Next]_vars
  PROVE  LeaseMoves
<1>1. ASSUME NEW o \in Owners, NEW r \in BOOLEAN, RenewLease(o, r)
      PROVE  LeaseMoves
  BY <1>1 DEF RenewLease, Claims, Renews, TypeOK, LeaseMoves
<1>2. ASSUME NEW o \in Owners, NEW r \in BOOLEAN, TakeLease(o, r)
      PROVE  LeaseMoves
  BY <1>2 DEF TakeLease, TypeOK, LeaseMoves
<1>3. ASSUME NEW o \in Owners, Complete(o)
      PROVE  LeaseMoves
  BY <1>3 DEF Complete, TypeOK, LeaseMoves, leaseVars
<1>4. ASSUME NEW o \in Owners, FailRun(o)
      PROVE  LeaseMoves
  BY <1>4 DEF FailRun, TypeOK, LeaseMoves, leaseVars
<1>5. ASSUME NEW c \in Calls, NEW s \in Steps, NEW o \in Owners, AdmitParks(c, s, o)
      PROVE  LeaseMoves
  BY <1>5 DEF AdmitParks, TypeOK, LeaseMoves, leaseVars
<1>6. ASSUME NEW c \in Calls, NEW s \in Steps, NEW o \in Owners,
          NEW g \in 0 .. generation, NEW hold \in BOOLEAN,
          AdmitWaits(c, s, o, g, hold)
      PROVE  LeaseMoves
  BY <1>6 DEF AdmitWaits, TypeOK, LeaseMoves, leaseVars
<1>7. ASSUME NEW c \in Calls, NEW s \in Steps, NEW o \in Owners,
          NEW g \in 0 .. generation, NEW hold \in BOOLEAN,
          AdmitBlocks(c, s, o, g, hold)
      PROVE  LeaseMoves
  BY <1>7 DEF AdmitBlocks, TypeOK, LeaseMoves, leaseVars
<1>8. ASSUME NEW c \in Calls, NEW s \in Steps, NEW o \in Owners,
          NEW g \in 0 .. generation, NEW hold \in BOOLEAN,
          AdmitStarts(c, s, o, g, hold)
      PROVE  LeaseMoves
  BY <1>8 DEF AdmitStarts, TypeOK, LeaseMoves, leaseVars
<1>9. ASSUME NEW c \in Calls, EnterHandler(c)
      PROVE  LeaseMoves
  BY <1>9 DEF EnterHandler, TypeOK, LeaseMoves, leaseVars
<1>10. ASSUME NEW c \in Calls, RefuseDispatch(c)
      PROVE  LeaseMoves
  BY <1>10 DEF RefuseDispatch, TypeOK, LeaseMoves, leaseVars
<1>11. ASSUME NEW c \in Calls, NEW outcome \in Outcomes, HandlerReturns(c, outcome)
      PROVE  LeaseMoves
  BY <1>11 DEF HandlerReturns, TypeOK, LeaseMoves, leaseVars
<1>12. ASSUME NEW c \in Calls, CommitSuccess(c)
      PROVE  LeaseMoves
  BY <1>12 DEF CommitSuccess, TypeOK, LeaseMoves, leaseVars
<1>13. ASSUME NEW c \in Calls, CommitLost(c)
      PROVE  LeaseMoves
  BY <1>13 DEF CommitLost, TypeOK, LeaseMoves, leaseVars
<1>14. ASSUME NEW c \in Calls, RecordFailure(c)
      PROVE  LeaseMoves
  BY <1>14 DEF RecordFailure, TypeOK, LeaseMoves, leaseVars
<1>15. ASSUME NEW c \in Calls, DropFailure(c)
      PROVE  LeaseMoves
  BY <1>15 DEF DropFailure, TypeOK, LeaseMoves, leaseVars
<1>16. ASSUME NEW s \in Steps, Approve(s)
      PROVE  LeaseMoves
  BY <1>16 DEF Approve, TypeOK, LeaseMoves, leaseVars
<1>17. ASSUME NEW s \in Steps, Deny(s)
      PROVE  LeaseMoves
  BY <1>17 DEF Deny, TypeOK, LeaseMoves, leaseVars
<1>18. ASSUME NEW s \in Steps, ExpireApproval(s)
      PROVE  LeaseMoves
  BY <1>18 DEF ExpireApproval, TypeOK, LeaseMoves, leaseVars
<1>19. ASSUME NEW s \in Steps, NEW applied \in BOOLEAN, ReconcileEffect(s, applied)
      PROVE  LeaseMoves
  BY <1>19 DEF ReconcileEffect, TypeOK, LeaseMoves, leaseVars
<1>20. ASSUME ExpireLease
      PROVE  LeaseMoves
  BY <1>20 DEF ExpireLease, TypeOK, LeaseMoves, leaseVars
<1>21. ASSUME RotateIdentity
      PROVE  LeaseMoves
  BY <1>21 DEF RotateIdentity, TypeOK, LeaseMoves, leaseVars
<1>22. ASSUME Cancel
      PROVE  LeaseMoves
  BY <1>22 DEF Cancel, TypeOK, LeaseMoves, leaseVars
<1>23. ASSUME Crash
      PROVE  LeaseMoves
  BY <1>23 DEF Crash, TypeOK, LeaseMoves
<1>24. ASSUME Recover
      PROVE  LeaseMoves
  BY <1>24 DEF Recover, TypeOK, LeaseMoves, leaseVars
<1>25. ASSUME ReconcileInterrupted
      PROVE  LeaseMoves
  BY <1>25 DEF ReconcileInterrupted, TypeOK, LeaseMoves, leaseVars
<1>26. ASSUME Open
      PROVE  LeaseMoves
  BY <1>26 DEF Open, TypeOK, LeaseMoves, leaseVars
<1>27. ASSUME UNCHANGED vars
      PROVE  LeaseMoves
  BY <1>27 DEF TypeOK, LeaseMoves, vars, leaseVars
<1> QED
  BY <1>1, <1>2, <1>3, <1>4, <1>5, <1>6, <1>7, <1>8, <1>9, <1>10, <1>11, <1>12, <1>13, <1>14,
     <1>15, <1>16, <1>17, <1>18, <1>19, <1>20, <1>21, <1>22, <1>23, <1>24, <1>25, <1>26, <1>27
  DEF Next, Lease, Admission, Execution, Decision

\* The attempt a call stands for has been numbered.
CallsAreNumbered ==
  \A c \in Calls : call[c] # Idle => call[c].attempt <= attempt[call[c].step]

\* What the fence of a call says of its owner.
LEMMA FenceStep ==
  ASSUME TypeOK, [Next]_vars, FenceNamesOneOwner
  PROVE  FenceNamesOneOwner'
<1>1. TypeOK'
  BY TypeStep
<1>2. CASE SomeStart
  <2>1. PICK c \in Calls, s \in Steps, o \in Owners, g \in 0 .. generation, hold \in BOOLEAN :
          AdmitStarts(c, s, o, g, hold)
    BY <1>2 DEF SomeStart
  <2>2. /\ call'[c].fence = fence /\ call'[c].owner = o
        /\ \A d \in Calls \ {c} : call'[d] = call[d]
    BY <2>1 DEF AdmitStarts, TypeOK
  <2>3. owner = o /\ owner' = owner /\ lease' = lease /\ fence' = fence /\ fence \in Nat
    BY <2>1 DEF AdmitStarts, Admits, Owns, leaseVars, TypeOK
  <2> QED
    BY <2>2, <2>3 DEF FenceNamesOneOwner
<1>3. CASE ~SomeStart
  <2>1. SameCalls
    BY <1>3, CallsStay
  <2>2. LeaseMoves
    BY LeaseMovesWithFence
  <2> SUFFICES ASSUME NEW c \in Calls, call'[c] # Idle
               PROVE  /\ call'[c].fence <= fence'
                      /\ call'[c].fence = fence' /\ lease' = "held" => owner' = call'[c].owner
    BY DEF FenceNamesOneOwner
  <2>3. /\ call[c] # Idle /\ call'[c].fence = call[c].fence /\ call'[c].owner = call[c].owner
    BY <2>1 DEF SameCalls
  <2>4. /\ call[c].fence <= fence
        /\ call[c].fence = fence /\ lease = "held" => owner = call[c].owner
    BY <2>3 DEF FenceNamesOneOwner
  <2>5. fence \in Nat /\ fence' \in Nat /\ call[c].fence \in Nat
    BY <1>1, <2>3 DEF TypeOK, InFlight
  <2> QED
    BY <2>2, <2>3, <2>4, <2>5 DEF LeaseMoves
<1> QED
  BY <1>2, <1>3

\* A new attempt takes a number no call has.
LEMMA AttemptStep ==
  ASSUME TypeOK, [Next]_vars, CallsAreNumbered, OneCallPerAttempt
  PROVE  CallsAreNumbered' /\ OneCallPerAttempt'
<1>1. CASE SomeStart
  <2>1. PICK c \in Calls, s \in Steps, o \in Owners, g \in 0 .. generation, hold \in BOOLEAN :
          AdmitStarts(c, s, o, g, hold)
    BY <1>1 DEF SomeStart
  <2>2. /\ call'[c].step = s /\ call'[c].attempt = attempt[s] + 1
        /\ \A d \in Calls \ {c} : call'[d] = call[d]
        /\ attempt'[s] = attempt[s] + 1
        /\ \A t \in Steps \ {s} : attempt'[t] = attempt[t]
    BY <2>1 DEF AdmitStarts, NextAttempt, TypeOK
  <2>3. /\ \A t \in Steps : attempt[t] \in Nat
        /\ \A d \in Calls : call[d] # Idle => call[d].step \in Steps /\ call[d].attempt \in Nat
    BY DEF TypeOK, InFlight
  <2>4. CallsAreNumbered'
    BY <2>2, <2>3 DEF CallsAreNumbered
  <2>5. OneCallPerAttempt'
    BY <2>2, <2>3 DEF OneCallPerAttempt, CallsAreNumbered
  <2> QED
    BY <2>4, <2>5
<1>2. CASE ~SomeStart
  <2>1. SameCalls /\ attempt' = attempt /\ leaseFence' = leaseFence
    BY <1>2, CallsStay
  <2> QED
    BY <2>1 DEF SameCalls, CallsAreNumbered, OneCallPerAttempt
<1> QED
  BY <1>1, <1>2

-------------------------------------------------------------------------------
\* What makes the uncertain outcomes safe: an inductive invariant, step by step.

Ready(s) == state[s] \notin {"running", "reconcile_required", "succeeded", "cancelled"}

\* A recorded write is in flight under its intent, parked under an uncertain one,
\* and ready again over an open attempt only as a recorded failure of a handler that
\* finished; an effect that is never guessed is ready only when nothing is open, and
\* only its last attempt is.
StepSafe(s) ==
  /\ state[s] = "running" /\ Intent[s].class \in WorldClasses => effect[s] = "intended"
  /\ Parked(s) /\ Intent[s].class \in WorldClasses => effect[s] = "uncertain"
  /\ Ready(s) /\ open[s] # {} =>
       ~NeedsReconciliation(s) /\ effect[s] = "failed" /\ open[s] \subseteq answered[s]
  /\ state[s] = "running" /\ ~NeedsReconciliation(s) =>
       \A n \in open[s] : n = attempt[s] \/ n \in answered[s]
  /\ open[s] # {} => Guarded(s)
  /\ NeedsReconciliation(s) => open[s] \subseteq {attempt[s]}
  /\ \A n \in open[s] : n <= attempt[s]

StepsSafe == \A s \in Steps : StepSafe(s)

\* What a call reports, once its handler is done, is so: a handler that said nothing
\* was done has closed its attempt, and one that finished its work has answered for it.
Honest(c) ==
  call[c] # Idle =>
    /\ call[c].phase = "failing" => call[c].outcome \notin {"none", "ok"}
    /\ call[c].phase = "failing" /\ SaysNothingDone(call[c].step, call[c].outcome) =>
         call[c].attempt \notin open[call[c].step]
    /\ call[c].phase = "returned" \/ (call[c].phase = "failing" /\ call[c].outcome = "lost") =>
         (call[c].attempt \in open[call[c].step] => call[c].attempt \in answered[call[c].step])

CallsAreHonest == \A c \in Calls : Honest(c)

\* No attempt of t opens, and no answer for an open one is lost.
HistoryKept(t) ==
  \A n \in open'[t] : n \in open[t] /\ (n \in answered[t] => n \in answered'[t])

\* A handler's report only closes attempts.
LEMMA StepSafeKept ==
  ASSUME NEW s \in Steps, StepSafe(s), state'[s] = state[s], effect'[s] = effect[s],
         attempt'[s] = attempt[s], HistoryKept(s)
  PROVE  StepSafe(s)'
BY DEF StepSafe, Parked, Ready, Guarded, NeedsReconciliation, HistoryKept

\* A step in flight that may be rerun has nothing open.
LEMMA RerunIsClosed ==
  ASSUME NEW s \in Steps, StepSafe(s), state[s] = "running", ~InterruptedIsUncertain(s)
  PROVE  open[s] = {}
BY DEF StepSafe, InterruptedIsUncertain, ChangesWorld, Guarded

\* Every action keeps every step safe.
LEMMA StepsSafeStep ==
  ASSUME TypeOK, StepsSafe, CallsAreHonest, [Next]_vars
  PROVE  StepsSafe'
<1>1. ASSUME NEW o \in Owners, NEW r \in BOOLEAN, RenewLease(o, r)
      PROVE  \A s \in Steps : StepSafe(s)'
  BY <1>1, StepSafeKept DEF RenewLease, StepsSafe, stepVars, history, HistoryKept
<1>2. ASSUME NEW o \in Owners, NEW r \in BOOLEAN, TakeLease(o, r)
      PROVE  \A t \in Steps : StepSafe(t)'
  BY <1>2, StepSafeKept DEF TakeLease, StepsSafe, stepVars, history, HistoryKept
<1>3. ASSUME NEW o \in Owners, Complete(o)
      PROVE  \A t \in Steps : StepSafe(t)'
  BY <1>3, StepSafeKept DEF Complete, StepsSafe, stepVars, history, HistoryKept
<1>4. ASSUME NEW o \in Owners, FailRun(o)
      PROVE  \A t \in Steps : StepSafe(t)'
  BY <1>4, StepSafeKept DEF FailRun, StepsSafe, stepVars, history, HistoryKept
<1>5. ASSUME NEW c \in Calls, NEW s \in Steps, NEW o \in Owners, AdmitParks(c, s, o)
      PROVE  \A t \in Steps : StepSafe(t)'
  <2> TAKE t \in Steps
  <2>1. CASE t # s
    BY <1>5, <2>1, StepSafeKept DEF AdmitParks, TypeOK, StepsSafe, stepVars, history,
       HistoryKept
  <2>2. CASE t = s
    BY <1>5, <2>2 DEF AdmitParks, Orphaned, TypeOK, SettleInterrupted, StepsSafe, StepSafe,
       Parked, Ready, Guarded, stepVars, history,
      WorldClasses
  <2> QED
    BY <2>1, <2>2
<1>6. ASSUME NEW c \in Calls, NEW s \in Steps, NEW o \in Owners,
          NEW g \in 0 .. generation, NEW hold \in BOOLEAN,
          AdmitWaits(c, s, o, g, hold)
      PROVE  \A t \in Steps : StepSafe(t)'
  <2> TAKE t \in Steps
  <2>1. CASE t # s
    BY <1>6, <2>1, StepSafeKept DEF AdmitWaits, TypeOK, StepsSafe, stepVars, history,
       HistoryKept
  <2>2. CASE t = s
    <3>1. Ready(s) \/ open[s] = {}
      BY <1>6, RerunIsClosed DEF AdmitWaits, Runnable, Orphaned, Ready, StepsSafe
    <3>2. Ready(s) => effect'[s] = effect[s]
      BY <1>6 DEF AdmitWaits, TypeOK, Ready
    <3> QED
      BY <1>6, <2>2, <3>1, <3>2 DEF AdmitWaits, TypeOK, StepsSafe, StepSafe, Parked, Ready,
         Guarded, stepVars, history
  <2> QED
    BY <2>1, <2>2
<1>7. ASSUME NEW c \in Calls, NEW s \in Steps, NEW o \in Owners,
          NEW g \in 0 .. generation, NEW hold \in BOOLEAN,
          AdmitBlocks(c, s, o, g, hold)
      PROVE  \A t \in Steps : StepSafe(t)'
  <2> TAKE t \in Steps
  <2>1. CASE t # s
    BY <1>7, <2>1, StepSafeKept DEF AdmitBlocks, TypeOK, StepsSafe, stepVars, history,
       HistoryKept
  <2>2. CASE t = s
    BY <1>7, <2>2 DEF AdmitBlocks, TypeOK, StepsSafe, StepSafe, Parked, Ready, Guarded,
       stepVars, history
  <2> QED
    BY <2>1, <2>2
<1>8. ASSUME NEW c \in Calls, NEW s \in Steps, NEW o \in Owners,
          NEW g \in 0 .. generation, NEW hold \in BOOLEAN,
          AdmitStarts(c, s, o, g, hold)
      PROVE  \A t \in Steps : StepSafe(t)'
  <2> TAKE t \in Steps
  <2>1. CASE t # s
    BY <1>8, <2>1, StepSafeKept DEF AdmitStarts, TypeOK, StepsSafe, stepVars, history,
       HistoryKept
  <2>2. CASE t = s
    <3>1. NeedsReconciliation(s) => open[s] = {}
      BY <1>8 DEF AdmitStarts, Runnable, InterruptedIsUncertain, StepsSafe, StepSafe, Ready
    <3>2. /\ state'[s] = "running" /\ attempt'[s] = NextAttempt(s)
          /\ open'[s] = IF Guarded(s) /\ controller # "aborted"
                        THEN open[s] \cup {NextAttempt(s)} ELSE open[s]
          /\ answered'[s] = answered[s] /\ attempt[s] \in Nat /\ NextAttempt(s) = attempt[s] + 1
          /\ Intent[s].class \in WorldClasses => effect'[s] = "intended"
      BY <1>8 DEF AdmitStarts, TypeOK, WorldClasses, NextAttempt
    <3>3. ~NeedsReconciliation(s) => open[s] \subseteq answered[s]
      BY <1>8, RerunIsClosed DEF AdmitStarts, Runnable, Orphaned, StepsSafe, StepSafe, Ready
    <3>4. \A n \in open[s] : n \in Nat
      BY <1>8 DEF TypeOK
    <3> QED
      BY <2>2, <3>1, <3>2, <3>3, <3>4 DEF StepsSafe, StepSafe, Parked, Ready, Guarded,
         stepVars, history
  <2> QED
    BY <2>1, <2>2
<1>9. ASSUME NEW c \in Calls, EnterHandler(c)
      PROVE  \A t \in Steps : StepSafe(t)'
  BY <1>9, StepSafeKept DEF EnterHandler, StepsSafe, stepVars, history, HistoryKept
<1>10. ASSUME NEW c \in Calls, RefuseDispatch(c)
      PROVE  \A t \in Steps : StepSafe(t)'
  <2> TAKE s \in Steps
  <2>1. HistoryKept(s)
    BY <1>10 DEF RefuseDispatch, TypeOK, HistoryKept
  <2> QED
    BY <1>10, <2>1, StepSafeKept DEF RefuseDispatch, StepsSafe, stepVars
<1>11. ASSUME NEW c \in Calls, NEW outcome \in Outcomes, HandlerReturns(c, outcome)
      PROVE  \A t \in Steps : StepSafe(t)'
  <2> TAKE s \in Steps
  <2>1. HistoryKept(s)
    BY <1>11 DEF HandlerReturns, TypeOK, HistoryKept
  <2> QED
    BY <1>11, <2>1, StepSafeKept DEF HandlerReturns, StepsSafe, stepVars
<1>12. ASSUME NEW c \in Calls, CommitSuccess(c)
      PROVE  \A t \in Steps : StepSafe(t)'
  <2> TAKE t \in Steps
  <2>1. CASE t # call[c].step
    BY <1>12, <2>1, StepSafeKept DEF CommitSuccess, TypeOK, StepsSafe, stepVars, history,
       HistoryKept
  <2>2. CASE t = call[c].step
    BY <1>12, <2>2 DEF CommitSuccess, TypeOK, InFlight, StepsSafe, StepSafe, Parked, Ready,
       Guarded, stepVars, history
  <2> QED
    BY <2>1, <2>2
<1>13. ASSUME NEW c \in Calls, CommitLost(c)
      PROVE  \A t \in Steps : StepSafe(t)'
  BY <1>13, StepSafeKept DEF CommitLost, StepsSafe, stepVars, history, HistoryKept
<1>14. ASSUME NEW c \in Calls, RecordFailure(c)
      PROVE  \A t \in Steps : StepSafe(t)'
  <2> DEFINE s == call[c].step
             next == FailedState(s, call[c].outcome)
  <2>1. /\ s \in Steps /\ call[c] # Idle /\ call[c].phase = "failing"
        /\ state[s] = "running" /\ attempt[s] = call[c].attempt
    BY <1>14 DEF RecordFailure, OwnsAttempt, TypeOK, InFlight
  <2>2. /\ state' = [state EXCEPT ![s] = next]
        /\ effect' = [effect EXCEPT ![s] =
             IF @ # "intended" THEN @
             ELSE IF next = "reconcile_required" THEN "uncertain" ELSE "failed"]
        /\ attempt' = attempt /\ open' = open /\ answered' = answered
    BY <1>14 DEF RecordFailure, history
  <2>3. /\ next \in {"waiting_event", "failed", "reconcile_required", "retry_wait"}
        /\ NeedsReconciliation(s) /\ next # "reconcile_required" =>
             call[c].outcome \in {"refused", "suspended"}
        /\ ChangesWorld(s) /\ next # "reconcile_required" => call[c].outcome # "unknown"
    BY DEF FailedState
  <2>4. NeedsReconciliation(s) /\ next # "reconcile_required" => open[s] = {}
    BY <2>1, <2>3 DEF CallsAreHonest, Honest, SaysNothingDone, StepsSafe, StepSafe
  <2>7. ~NeedsReconciliation(s) /\ next # "reconcile_required" => open[s] \subseteq answered[s]
    <3> SUFFICES ASSUME ~NeedsReconciliation(s), next # "reconcile_required", NEW n \in open[s]
                 PROVE  n \in answered[s]
      OBVIOUS
    <3>1. StepSafe(s) /\ Honest(c)
      BY <2>1 DEF StepsSafe, CallsAreHonest
    <3>2. ChangesWorld(s)
      BY <2>1, <3>1 DEF StepSafe, Guarded, ChangesWorld
    <3>3. call[c].outcome \in {"error", "lost", "refused", "suspended"}
      BY <2>1, <2>3, <3>1, <3>2 DEF Honest, TypeOK, InFlight, Outcomes
    <3> QED
      BY <2>1, <3>1, <3>3 DEF StepSafe, Honest, SaysNothingDone
  <2> HIDE DEF s, next
  <2> TAKE t \in Steps
  <2>5. CASE t # s
    BY <2>1, <2>2, <2>5, StepSafeKept DEF TypeOK, StepsSafe, HistoryKept
  <2>6. CASE t = s
    <3>1. /\ state'[s] = next /\ open'[s] = open[s] /\ answered'[s] = answered[s]
          /\ attempt'[s] = attempt[s]
      BY <2>1, <2>2 DEF TypeOK
    <3>2. Intent[s].class \in WorldClasses =>
            effect'[s] = IF next = "reconcile_required" THEN "uncertain" ELSE "failed"
      BY <2>1, <2>2 DEF TypeOK, StepsSafe, StepSafe
    <3> QED
      BY <2>1, <2>3, <2>4, <2>6, <2>7, <3>1, <3>2 DEF StepsSafe, StepSafe, Parked, Ready,
         Guarded, stepVars, history
  <2> QED
    BY <2>5, <2>6
<1>15. ASSUME NEW c \in Calls, DropFailure(c)
      PROVE  \A t \in Steps : StepSafe(t)'
  BY <1>15, StepSafeKept DEF DropFailure, StepsSafe, stepVars, history, HistoryKept
<1>16. ASSUME NEW s \in Steps, Approve(s)
      PROVE  \A t \in Steps : StepSafe(t)'
  <2> TAKE t \in Steps
  <2>1. CASE t # s
    BY <1>16, <2>1, StepSafeKept DEF Approve, TypeOK, StepsSafe, stepVars, history, HistoryKept
  <2>2. CASE t = s
    BY <1>16, <2>2 DEF Approve, TypeOK, StepsSafe, StepSafe, Parked, Ready, Guarded, stepVars,
       history
  <2> QED
    BY <2>1, <2>2
<1>17. ASSUME NEW s \in Steps, Deny(s)
      PROVE  \A t \in Steps : StepSafe(t)'
  <2> TAKE t \in Steps
  <2>1. CASE t # s
    BY <1>17, <2>1, StepSafeKept DEF Deny, TypeOK, StepsSafe, stepVars, history, HistoryKept
  <2>2. CASE t = s
    BY <1>17, <2>2 DEF Deny, TypeOK, StepsSafe, StepSafe, Parked, Ready, Guarded, stepVars,
       history
  <2> QED
    BY <2>1, <2>2
<1>18. ASSUME NEW s \in Steps, ExpireApproval(s)
      PROVE  \A t \in Steps : StepSafe(t)'
  BY <1>18, StepSafeKept DEF ExpireApproval, StepsSafe, stepVars, history, HistoryKept
<1>19. ASSUME NEW s \in Steps, NEW applied \in BOOLEAN, ReconcileEffect(s, applied)
      PROVE  \A t \in Steps : StepSafe(t)'
  <2> TAKE t \in Steps
  <2>1. CASE t # s
    BY <1>19, <2>1, StepSafeKept DEF ReconcileEffect, TypeOK, StepsSafe, stepVars, history,
       HistoryKept
  <2>2. CASE t = s
    BY <1>19, <2>2 DEF ReconcileEffect, TypeOK, StepsSafe, StepSafe, Parked, Ready, Guarded,
       stepVars, history
  <2> QED
    BY <2>1, <2>2
<1>20. ASSUME ExpireLease
      PROVE  \A t \in Steps : StepSafe(t)'
  BY <1>20, StepSafeKept DEF ExpireLease, StepsSafe, stepVars, history, HistoryKept
<1>21. ASSUME RotateIdentity
      PROVE  \A t \in Steps : StepSafe(t)'
  BY <1>21, StepSafeKept DEF RotateIdentity, StepsSafe, stepVars, history, HistoryKept
<1>22. ASSUME Cancel
      PROVE  \A t \in Steps : StepSafe(t)'
  <2> TAKE s \in Steps
  <2>1. CASE state[s] # "running"
    BY <1>22, <2>1 DEF Cancel, CancelledState, TypeOK, StepsSafe, StepSafe, Parked, Ready,
       Guarded, stepVars, history
  <2>2. CASE state[s] = "running" /\ InterruptedIsUncertain(s)
    BY <1>22, <2>2 DEF Cancel, CancelledState, SettleInterrupted, TypeOK, StepsSafe, StepSafe,
       Parked, Ready, Guarded, stepVars, history, WorldClasses
  <2>3. CASE state[s] = "running" /\ ~InterruptedIsUncertain(s)
    <3>1. open[s] = {} /\ Intent[s].class \notin WorldClasses
      BY <2>3, RerunIsClosed DEF StepsSafe, StepSafe, InterruptedIsUncertain, ChangesWorld
    <3> QED
      BY <1>22, <2>3, <3>1 DEF Cancel, CancelledState, TypeOK, StepsSafe, StepSafe, Parked,
         Ready, Guarded, stepVars, history
  <2> QED
    BY <2>1, <2>2, <2>3
<1>23. ASSUME Crash
      PROVE  \A t \in Steps : StepSafe(t)'
  BY <1>23, StepSafeKept DEF Crash, StepsSafe, stepVars, history, HistoryKept
<1>24. ASSUME Recover
      PROVE  \A t \in Steps : StepSafe(t)'
  <2> TAKE s \in Steps
  <2>1. CASE state[s] # "running"
    BY <1>24, <2>1 DEF Recover, RecoveredState, TypeOK, StepsSafe, StepSafe, Parked, Ready,
       Guarded, stepVars, history
  <2>2. CASE state[s] = "running" /\ InterruptedIsUncertain(s)
    BY <1>24, <2>2 DEF Recover, RecoveredState, SettleInterrupted, TypeOK, StepsSafe, StepSafe,
       Parked, Ready, Guarded, stepVars, history, WorldClasses
  <2>3. CASE state[s] = "running" /\ ~InterruptedIsUncertain(s)
    <3>1. open[s] = {} /\ Intent[s].class \notin WorldClasses
      BY <2>3, RerunIsClosed DEF StepsSafe, StepSafe, InterruptedIsUncertain, ChangesWorld
    <3> QED
      BY <1>24, <2>3, <3>1 DEF Recover, RecoveredState, TypeOK, StepsSafe, StepSafe, Parked,
         Ready, Guarded, stepVars, history
  <2> QED
    BY <2>1, <2>2, <2>3
<1>25. ASSUME ReconcileInterrupted
      PROVE  \A t \in Steps : StepSafe(t)'
  <2> TAKE s \in Steps
  <2> QED
    BY <1>25 DEF ReconcileInterrupted, TypeOK, StepsSafe, StepSafe, Parked, Ready, Guarded,
       stepVars, history
<1>26. ASSUME Open
      PROVE  \A t \in Steps : StepSafe(t)'
  BY <1>26, StepSafeKept DEF Open, StepsSafe, stepVars, history, HistoryKept
<1>27. ASSUME UNCHANGED vars
      PROVE  \A t \in Steps : StepSafe(t)'
  BY <1>27, StepSafeKept DEF StepsSafe, vars, stepVars, history, HistoryKept
<1> QED
  BY <1>1, <1>2, <1>3, <1>4, <1>5, <1>6, <1>7, <1>8, <1>9, <1>10, <1>11, <1>12, <1>13, <1>14,
     <1>15, <1>16, <1>17, <1>18, <1>19, <1>20, <1>21, <1>22, <1>23, <1>24, <1>25, <1>26, <1>27
  DEF StepsSafe, Next, Lease, Admission, Execution, Decision

\* A call that reports what it reported before, if it is still there.
SameReport(d) ==
  call'[d] # Idle =>
    /\ call[d] # Idle
    /\ call'[d].phase = call[d].phase /\ call'[d].outcome = call[d].outcome
    /\ call'[d].step = call[d].step /\ call'[d].attempt = call[d].attempt

\* Its report stays true while history is kept.
LEMMA HonestKept ==
  ASSUME TypeOK, NEW d \in Calls, Honest(d), SameReport(d), \A t \in Steps : HistoryKept(t)
  PROVE  Honest(d)'
<1>1. call[d] # Idle => call[d].step \in Steps
  BY DEF TypeOK, InFlight
<1>2. call[d] # Idle /\ call[d].attempt \in open'[call[d].step] =>
        /\ call[d].attempt \in open[call[d].step]
        /\ call[d].attempt \in answered[call[d].step] =>
             call[d].attempt \in answered'[call[d].step]
  BY <1>1 DEF HistoryKept
<1> QED
  BY <1>2 DEF Honest, SameReport, SaysNothingDone, NeedsReconciliation

\* What another call does leaves the reports of the rest as they are.
LEMMA OthersHonest ==
  ASSUME TypeOK, CallsAreHonest, NEW c \in Calls, Honest(c)', \A t \in Steps : HistoryKept(t),
         \A d \in Calls \ {c} : call'[d] = call[d]
  PROVE  CallsAreHonest'
<1> SUFFICES ASSUME NEW d \in Calls, d # c PROVE Honest(d)'
  BY DEF CallsAreHonest
<1>1. SameReport(d) /\ Honest(d)
  BY DEF SameReport, CallsAreHonest
<1> QED
  BY <1>1, HonestKept

\* Only the start of an attempt opens one, and every report is true when it is made.
LEMMA OthersStayHonest ==
  ASSUME TypeOK, CallsAreHonest, [Next]_vars, ~SomeStart
  PROVE  CallsAreHonest'
<1>0. ASSUME \A t \in Steps : HistoryKept(t), \A d \in Calls : SameReport(d)
      PROVE  CallsAreHonest'
  BY <1>0, HonestKept DEF CallsAreHonest
<1>1. ASSUME NEW o \in Owners, NEW r \in BOOLEAN, RenewLease(o, r)
      PROVE  CallsAreHonest'
  <2>1. \A t \in Steps : HistoryKept(t)
    BY <1>1 DEF RenewLease, TypeOK, HistoryKept, history
  <2>2. \A d \in Calls : SameReport(d)
    BY <1>1 DEF RenewLease, TypeOK, SameReport, memoryVars
  <2> QED
    BY <1>0, <2>1, <2>2
<1>2. ASSUME NEW o \in Owners, NEW r \in BOOLEAN, TakeLease(o, r)
      PROVE  CallsAreHonest'
  <2>1. \A t \in Steps : HistoryKept(t)
    BY <1>2 DEF TakeLease, TypeOK, HistoryKept, history
  <2>2. \A d \in Calls : SameReport(d)
    BY <1>2, AbortedFacts DEF TakeLease, TypeOK, SameReport, memoryVars
  <2> QED
    BY <1>0, <2>1, <2>2
<1>3. ASSUME NEW o \in Owners, Complete(o)
      PROVE  CallsAreHonest'
  <2>1. \A t \in Steps : HistoryKept(t)
    BY <1>3 DEF Complete, TypeOK, HistoryKept, history
  <2>2. \A d \in Calls : SameReport(d)
    BY <1>3, UnregisteredFacts DEF Complete, TypeOK, SameReport, memoryVars
  <2> QED
    BY <1>0, <2>1, <2>2
<1>4. ASSUME NEW o \in Owners, FailRun(o)
      PROVE  CallsAreHonest'
  <2>1. \A t \in Steps : HistoryKept(t)
    BY <1>4 DEF FailRun, TypeOK, HistoryKept, history
  <2>2. \A d \in Calls : SameReport(d)
    BY <1>4, UnregisteredFacts DEF FailRun, TypeOK, SameReport, memoryVars
  <2> QED
    BY <1>0, <2>1, <2>2
<1>5. ASSUME NEW c \in Calls, NEW s \in Steps, NEW o \in Owners, AdmitParks(c, s, o)
      PROVE  CallsAreHonest'
  <2>1. \A t \in Steps : HistoryKept(t)
    BY <1>5 DEF AdmitParks, TypeOK, HistoryKept, history
  <2>2. \A d \in Calls : SameReport(d)
    BY <1>5 DEF AdmitParks, TypeOK, SameReport, memoryVars
  <2> QED
    BY <1>0, <2>1, <2>2
<1>6. ASSUME NEW c \in Calls, NEW s \in Steps, NEW o \in Owners,
          NEW g \in 0 .. generation, NEW hold \in BOOLEAN,
          AdmitWaits(c, s, o, g, hold)
      PROVE  CallsAreHonest'
  <2>1. \A t \in Steps : HistoryKept(t)
    BY <1>6 DEF AdmitWaits, TypeOK, HistoryKept, history
  <2>2. \A d \in Calls : SameReport(d)
    BY <1>6 DEF AdmitWaits, TypeOK, SameReport, memoryVars
  <2> QED
    BY <1>0, <2>1, <2>2
<1>7. ASSUME NEW c \in Calls, NEW s \in Steps, NEW o \in Owners,
          NEW g \in 0 .. generation, NEW hold \in BOOLEAN,
          AdmitBlocks(c, s, o, g, hold)
      PROVE  CallsAreHonest'
  <2>1. \A t \in Steps : HistoryKept(t)
    BY <1>7 DEF AdmitBlocks, TypeOK, HistoryKept, history
  <2>2. \A d \in Calls : SameReport(d)
    BY <1>7 DEF AdmitBlocks, TypeOK, SameReport, memoryVars
  <2> QED
    BY <1>0, <2>1, <2>2
<1>8. ASSUME NEW c \in Calls, NEW s \in Steps, NEW o \in Owners,
          NEW g \in 0 .. generation, NEW hold \in BOOLEAN,
          AdmitStarts(c, s, o, g, hold)
      PROVE  CallsAreHonest'
  BY <1>8 DEF SomeStart
<1>9. ASSUME NEW c \in Calls, EnterHandler(c)
      PROVE  CallsAreHonest'
  <2>1. \A t \in Steps : HistoryKept(t)
    BY <1>9 DEF EnterHandler, TypeOK, HistoryKept, history
  <2>2. /\ call[c] # Idle /\ call[c].step \in Steps
        /\ call'[c].phase = "handling" /\ call'[c].outcome = "none"
        /\ call'[c].step = call[c].step /\ call'[c].attempt = call[c].attempt
        /\ \A d \in Calls \ {c} : call'[d] = call[d]
    BY <1>9, BecomesFacts DEF EnterHandler, TypeOK, Phases, Outcomes, InFlight
  <2>3. Honest(c)'
    BY <1>9, <2>2 DEF EnterHandler, CallsAreHonest, Honest, SaysNothingDone,
       NeedsReconciliation, CanReport, TypeOK, history
  <2> QED
    BY <2>1, <2>2, <2>3, OthersHonest
<1>10. ASSUME NEW c \in Calls, RefuseDispatch(c)
      PROVE  CallsAreHonest'
  <2>1. \A t \in Steps : HistoryKept(t)
    BY <1>10 DEF RefuseDispatch, TypeOK, HistoryKept, history
  <2>2. /\ call[c] # Idle /\ call[c].step \in Steps
        /\ call'[c].phase = "failing" /\ call'[c].outcome = "error"
        /\ call'[c].step = call[c].step /\ call'[c].attempt = call[c].attempt
        /\ \A d \in Calls \ {c} : call'[d] = call[d]
    BY <1>10, BecomesFacts DEF RefuseDispatch, TypeOK, Phases, Outcomes, InFlight
  <2>3. Honest(c)'
    BY <1>10, <2>2 DEF RefuseDispatch, CallsAreHonest, Honest, SaysNothingDone,
       NeedsReconciliation, CanReport, TypeOK, history
  <2> QED
    BY <2>1, <2>2, <2>3, OthersHonest
<1>11. ASSUME NEW c \in Calls, NEW outcome \in Outcomes, HandlerReturns(c, outcome)
      PROVE  CallsAreHonest'
  <2>1. \A t \in Steps : HistoryKept(t)
    BY <1>11 DEF HandlerReturns, TypeOK, HistoryKept, history
  <2>2. /\ call[c] # Idle /\ call[c].step \in Steps
        /\ call'[c].phase = (IF outcome = "ok" THEN "returned" ELSE "failing")
        /\ call'[c].outcome = outcome
        /\ call'[c].step = call[c].step /\ call'[c].attempt = call[c].attempt
        /\ \A d \in Calls \ {c} : call'[d] = call[d]
    <3>1. /\ call \in [Calls -> InFlight \cup {Idle}] /\ call[c] # Idle
          /\ call' = Becomes(c, IF outcome = "ok" THEN "returned" ELSE "failing", outcome)
      BY <1>11 DEF HandlerReturns, TypeOK
    <3>2. (IF outcome = "ok" THEN "returned" ELSE "failing") \in Phases
      BY DEF Phases
    <3> QED
      BY <1>11, <3>1, <3>2, BecomesFacts DEF InFlight
  <2>3. Honest(c)'
    BY <1>11, <2>2 DEF HandlerReturns, CallsAreHonest, Honest, SaysNothingDone,
       NeedsReconciliation, CanReport, TypeOK, history
  <2> QED
    BY <2>1, <2>2, <2>3, OthersHonest
<1>12. ASSUME NEW c \in Calls, CommitSuccess(c)
      PROVE  CallsAreHonest'
  <2>1. \A t \in Steps : HistoryKept(t)
    BY <1>12 DEF CommitSuccess, TypeOK, HistoryKept, history
  <2>2. \A d \in Calls : SameReport(d)
    BY <1>12 DEF CommitSuccess, TypeOK, SameReport, memoryVars
  <2> QED
    BY <1>0, <2>1, <2>2
<1>13. ASSUME NEW c \in Calls, CommitLost(c)
      PROVE  CallsAreHonest'
  <2>1. \A t \in Steps : HistoryKept(t)
    BY <1>13 DEF CommitLost, TypeOK, HistoryKept, history
  <2>2. /\ call[c] # Idle /\ call[c].step \in Steps
        /\ call'[c].phase = "failing" /\ call'[c].outcome = "lost"
        /\ call'[c].step = call[c].step /\ call'[c].attempt = call[c].attempt
        /\ \A d \in Calls \ {c} : call'[d] = call[d]
    BY <1>13, BecomesFacts DEF CommitLost, TypeOK, Phases, Outcomes, InFlight
  <2>3. Honest(c)'
    BY <1>13, <2>2 DEF CommitLost, CallsAreHonest, Honest, SaysNothingDone,
       NeedsReconciliation, CanReport, TypeOK, history
  <2> QED
    BY <2>1, <2>2, <2>3, OthersHonest
<1>14. ASSUME NEW c \in Calls, RecordFailure(c)
      PROVE  CallsAreHonest'
  <2>1. \A t \in Steps : HistoryKept(t)
    BY <1>14 DEF RecordFailure, TypeOK, HistoryKept, history
  <2>2. \A d \in Calls : SameReport(d)
    BY <1>14 DEF RecordFailure, TypeOK, SameReport, memoryVars
  <2> QED
    BY <1>0, <2>1, <2>2
<1>15. ASSUME NEW c \in Calls, DropFailure(c)
      PROVE  CallsAreHonest'
  <2>1. \A t \in Steps : HistoryKept(t)
    BY <1>15 DEF DropFailure, TypeOK, HistoryKept, history
  <2>2. \A d \in Calls : SameReport(d)
    BY <1>15 DEF DropFailure, TypeOK, SameReport, memoryVars
  <2> QED
    BY <1>0, <2>1, <2>2
<1>16. ASSUME NEW s \in Steps, Approve(s)
      PROVE  CallsAreHonest'
  <2>1. \A t \in Steps : HistoryKept(t)
    BY <1>16 DEF Approve, TypeOK, HistoryKept, history
  <2>2. \A d \in Calls : SameReport(d)
    BY <1>16 DEF Approve, TypeOK, SameReport, memoryVars
  <2> QED
    BY <1>0, <2>1, <2>2
<1>17. ASSUME NEW s \in Steps, Deny(s)
      PROVE  CallsAreHonest'
  <2>1. \A t \in Steps : HistoryKept(t)
    BY <1>17 DEF Deny, TypeOK, HistoryKept, history
  <2>2. \A d \in Calls : SameReport(d)
    BY <1>17, AbortedFacts DEF Deny, TypeOK, SameReport, memoryVars
  <2> QED
    BY <1>0, <2>1, <2>2
<1>18. ASSUME NEW s \in Steps, ExpireApproval(s)
      PROVE  CallsAreHonest'
  <2>1. \A t \in Steps : HistoryKept(t)
    BY <1>18 DEF ExpireApproval, TypeOK, HistoryKept, history
  <2>2. \A d \in Calls : SameReport(d)
    BY <1>18 DEF ExpireApproval, TypeOK, SameReport, memoryVars
  <2> QED
    BY <1>0, <2>1, <2>2
<1>19. ASSUME NEW s \in Steps, NEW applied \in BOOLEAN, ReconcileEffect(s, applied)
      PROVE  CallsAreHonest'
  <2>1. \A t \in Steps : HistoryKept(t)
    BY <1>19 DEF ReconcileEffect, TypeOK, HistoryKept, history
  <2>2. \A d \in Calls : SameReport(d)
    BY <1>19 DEF ReconcileEffect, TypeOK, SameReport, memoryVars
  <2> QED
    BY <1>0, <2>1, <2>2
<1>20. ASSUME ExpireLease
      PROVE  CallsAreHonest'
  <2>1. \A t \in Steps : HistoryKept(t)
    BY <1>20 DEF ExpireLease, TypeOK, HistoryKept, history
  <2>2. \A d \in Calls : SameReport(d)
    BY <1>20 DEF ExpireLease, TypeOK, SameReport, memoryVars
  <2> QED
    BY <1>0, <2>1, <2>2
<1>21. ASSUME RotateIdentity
      PROVE  CallsAreHonest'
  <2>1. \A t \in Steps : HistoryKept(t)
    BY <1>21 DEF RotateIdentity, TypeOK, HistoryKept, history
  <2>2. \A d \in Calls : SameReport(d)
    BY <1>21 DEF RotateIdentity, TypeOK, SameReport, memoryVars
  <2> QED
    BY <1>0, <2>1, <2>2
<1>22. ASSUME Cancel
      PROVE  CallsAreHonest'
  <2>1. \A t \in Steps : HistoryKept(t)
    BY <1>22 DEF Cancel, TypeOK, HistoryKept, history
  <2>2. \A d \in Calls : SameReport(d)
    BY <1>22, AbortedFacts DEF Cancel, TypeOK, SameReport, memoryVars
  <2> QED
    BY <1>0, <2>1, <2>2
<1>23. ASSUME Crash
      PROVE  CallsAreHonest'
  <2>1. \A t \in Steps : HistoryKept(t)
    BY <1>23 DEF Crash, TypeOK, HistoryKept, history
  <2>2. \A d \in Calls : SameReport(d)
    BY <1>23 DEF Crash, TypeOK, SameReport, memoryVars
  <2> QED
    BY <1>0, <2>1, <2>2
<1>24. ASSUME Recover
      PROVE  CallsAreHonest'
  <2>1. \A t \in Steps : HistoryKept(t)
    BY <1>24 DEF Recover, TypeOK, HistoryKept, history
  <2>2. \A d \in Calls : SameReport(d)
    BY <1>24 DEF Recover, TypeOK, SameReport, memoryVars
  <2> QED
    BY <1>0, <2>1, <2>2
<1>25. ASSUME ReconcileInterrupted
      PROVE  CallsAreHonest'
  <2>1. \A t \in Steps : HistoryKept(t)
    BY <1>25 DEF ReconcileInterrupted, TypeOK, HistoryKept, history
  <2>2. \A d \in Calls : SameReport(d)
    BY <1>25 DEF ReconcileInterrupted, TypeOK, SameReport, memoryVars
  <2> QED
    BY <1>0, <2>1, <2>2
<1>26. ASSUME Open
      PROVE  CallsAreHonest'
  <2>1. \A t \in Steps : HistoryKept(t)
    BY <1>26 DEF Open, TypeOK, HistoryKept, history
  <2>2. \A d \in Calls : SameReport(d)
    BY <1>26 DEF Open, TypeOK, SameReport, memoryVars
  <2> QED
    BY <1>0, <2>1, <2>2
<1>27. ASSUME UNCHANGED vars
      PROVE  CallsAreHonest'
  <2>1. \A t \in Steps : HistoryKept(t)
    BY <1>27 DEF vars, TypeOK, HistoryKept, history
  <2>2. \A d \in Calls : SameReport(d)
    BY <1>27 DEF vars, TypeOK, SameReport, memoryVars
  <2> QED
    BY <1>0, <2>1, <2>2
<1> QED
  BY <1>1, <1>2, <1>3, <1>4, <1>5, <1>6, <1>7, <1>8, <1>9, <1>10, <1>11, <1>12, <1>13, <1>14,
     <1>15, <1>16, <1>17, <1>18, <1>19, <1>20, <1>21, <1>22, <1>23, <1>24, <1>25, <1>26, <1>27
  DEF Next, Lease, Admission, Execution, Decision

\* The reports stay true: later attempts have later numbers.
LEMMA CallsAreHonestStep ==
  ASSUME TypeOK, [Next]_vars, CallsAreNumbered, StepsSafe, CallsAreHonest
  PROVE  CallsAreHonest'
<1>1. CASE SomeStart
  <2>1. PICK c \in Calls, s \in Steps, o \in Owners, g \in 0 .. generation, hold \in BOOLEAN :
          AdmitStarts(c, s, o, g, hold)
    BY <1>1 DEF SomeStart
  <2>2. /\ call'[c].step = s /\ call'[c].attempt = attempt[s] + 1
        /\ call'[c].phase = IF controller = "aborted" THEN "failing" ELSE "authorizing"
        /\ call'[c].outcome = IF controller = "aborted" THEN "error" ELSE "none"
        /\ \A d \in Calls \ {c} : call'[d] = call[d]
        /\ open'[s] \subseteq open[s] \cup {attempt[s] + 1}
        /\ controller = "aborted" => open'[s] = open[s]
        /\ \A t \in Steps \ {s} : open'[t] = open[t]
        /\ answered' = answered
    BY <2>1 DEF AdmitStarts, NextAttempt, TypeOK
  <2>3. /\ \A t \in Steps : attempt[t] \in Nat
        /\ \A d \in Calls : call[d] # Idle => call[d].step \in Steps /\ call[d].attempt \in Nat
    BY DEF TypeOK, InFlight
  <2>4. attempt[s] + 1 \notin open[s]
    BY <2>3 DEF StepsSafe, StepSafe
  <2>5. Honest(c)'
    BY <2>2, <2>4 DEF Honest
  <2>6. ASSUME NEW d \in Calls, d # c PROVE Honest(d)'
    <3>1. Honest(d) /\ call'[d] = call[d]
      BY <2>2, <2>6 DEF CallsAreHonest
    <3>2. call[d] # Idle => call[d].attempt <= attempt[call[d].step]
      BY DEF CallsAreNumbered
    <3>3. call[d] # Idle /\ call[d].attempt \in open'[call[d].step] =>
            call[d].attempt \in open[call[d].step]
      BY <2>2, <2>3, <3>2
    <3> QED
      BY <2>2, <3>1, <3>3 DEF Honest, SaysNothingDone, NeedsReconciliation
  <2> QED
    BY <2>5, <2>6 DEF CallsAreHonest
<1>2. CASE ~SomeStart
  BY <1>2, OthersStayHonest
<1> QED
  BY <1>1, <1>2

-------------------------------------------------------------------------------
\* What the run's state says of its steps.
RunAgrees == CompletedHoldsNothing /\ ParkedRunHasParkedStep

\* A run's state and its steps that hold it change together.
LEMMA RunAgreesKept ==
  ASSUME RunAgrees, runState' = runState, state' = state
  PROVE  RunAgrees'
BY DEF RunAgrees, CompletedHoldsNothing, ParkedRunHasParkedStep, Parked

\* Every action keeps the run in agreement with its steps.
LEMMA RunAgreesStep ==
  ASSUME TypeOK, RunAgrees, [Next]_vars
  PROVE  RunAgrees'
<1>1. ASSUME NEW o \in Owners, NEW r \in BOOLEAN, RenewLease(o, r)
      PROVE  RunAgrees'
  BY <1>1 DEF RenewLease, Claims, stepVars, history, RunAgrees, CompletedHoldsNothing,
     ParkedRunHasParkedStep, Parked
<1>2. ASSUME NEW o \in Owners, NEW r \in BOOLEAN, TakeLease(o, r)
      PROVE  RunAgrees'
  BY <1>2 DEF TakeLease, Claims, stepVars, history, RunAgrees, CompletedHoldsNothing,
     ParkedRunHasParkedStep, Parked
<1>3. ASSUME NEW o \in Owners, Complete(o)
      PROVE  RunAgrees'
  BY <1>3 DEF Complete, HoldsRun, stepVars, history, RunAgrees, CompletedHoldsNothing,
     ParkedRunHasParkedStep, Parked
<1>4. ASSUME NEW o \in Owners, FailRun(o)
      PROVE  RunAgrees'
  BY <1>4 DEF FailRun, stepVars, history, RunAgrees, CompletedHoldsNothing,
     ParkedRunHasParkedStep, Parked
<1>5. ASSUME NEW c \in Calls, NEW s \in Steps, NEW o \in Owners, AdmitParks(c, s, o)
      PROVE  RunAgrees'
  BY <1>5 DEF AdmitParks, TypeOK, stepVars, history, RunAgrees, CompletedHoldsNothing,
     ParkedRunHasParkedStep, Parked
<1>6. ASSUME NEW c \in Calls, NEW s \in Steps, NEW o \in Owners,
          NEW g \in 0 .. generation, NEW hold \in BOOLEAN,
          AdmitWaits(c, s, o, g, hold)
      PROVE  RunAgrees'
  BY <1>6 DEF AdmitWaits, TypeOK, stepVars, history, RunAgrees, CompletedHoldsNothing,
     ParkedRunHasParkedStep, Parked
<1>7. ASSUME NEW c \in Calls, NEW s \in Steps, NEW o \in Owners,
          NEW g \in 0 .. generation, NEW hold \in BOOLEAN,
          AdmitBlocks(c, s, o, g, hold)
      PROVE  RunAgrees'
  BY <1>7 DEF AdmitBlocks, TypeOK, stepVars, history, RunAgrees, CompletedHoldsNothing,
     ParkedRunHasParkedStep, Parked
<1>8. ASSUME NEW c \in Calls, NEW s \in Steps, NEW o \in Owners,
          NEW g \in 0 .. generation, NEW hold \in BOOLEAN,
          AdmitStarts(c, s, o, g, hold)
      PROVE  RunAgrees'
  BY <1>8 DEF AdmitStarts, TypeOK, stepVars, history, RunAgrees, CompletedHoldsNothing,
     ParkedRunHasParkedStep, Parked
<1>9. ASSUME NEW c \in Calls, EnterHandler(c)
      PROVE  RunAgrees'
  BY <1>9, RunAgreesKept DEF EnterHandler, stepVars, history
<1>10. ASSUME NEW c \in Calls, RefuseDispatch(c)
      PROVE  RunAgrees'
  BY <1>10, RunAgreesKept DEF RefuseDispatch, stepVars, history
<1>11. ASSUME NEW c \in Calls, NEW outcome \in Outcomes, HandlerReturns(c, outcome)
      PROVE  RunAgrees'
  BY <1>11, RunAgreesKept DEF HandlerReturns, stepVars, history
<1>12. ASSUME NEW c \in Calls, CommitSuccess(c)
      PROVE  RunAgrees'
  BY <1>12 DEF CommitSuccess, OwnsAttempt, InFlight, TypeOK, RunAgrees, CompletedHoldsNothing,
     ParkedRunHasParkedStep, Parked
<1>13. ASSUME NEW c \in Calls, CommitLost(c)
      PROVE  RunAgrees'
  BY <1>13, RunAgreesKept DEF CommitLost, stepVars, history
<1>14. ASSUME NEW c \in Calls, RecordFailure(c)
      PROVE  RunAgrees'
  BY <1>14 DEF RecordFailure, FailedState, OwnsAttempt, InFlight, TypeOK, RunAgrees,
     CompletedHoldsNothing, ParkedRunHasParkedStep, Parked
<1>15. ASSUME NEW c \in Calls, DropFailure(c)
      PROVE  RunAgrees'
  BY <1>15, RunAgreesKept DEF DropFailure, stepVars, history
<1>16. ASSUME NEW s \in Steps, Approve(s)
      PROVE  RunAgrees'
  BY <1>16 DEF Approve, TypeOK, stepVars, history, RunAgrees, CompletedHoldsNothing,
     ParkedRunHasParkedStep, Parked
<1>17. ASSUME NEW s \in Steps, Deny(s)
      PROVE  RunAgrees'
  BY <1>17 DEF Deny, TypeOK, stepVars, history, RunAgrees, CompletedHoldsNothing,
     ParkedRunHasParkedStep, Parked
<1>18. ASSUME NEW s \in Steps, ExpireApproval(s)
      PROVE  RunAgrees'
  BY <1>18, RunAgreesKept DEF ExpireApproval, stepVars, history
<1>19. ASSUME NEW s \in Steps, NEW applied \in BOOLEAN, ReconcileEffect(s, applied)
      PROVE  RunAgrees'
  BY <1>19 DEF ReconcileEffect, OthersParked, TypeOK, RunAgrees, CompletedHoldsNothing,
     ParkedRunHasParkedStep, Parked
<1>20. ASSUME ExpireLease
      PROVE  RunAgrees'
  BY <1>20, RunAgreesKept DEF ExpireLease, stepVars, history
<1>21. ASSUME RotateIdentity
      PROVE  RunAgrees'
  BY <1>21, RunAgreesKept DEF RotateIdentity, stepVars, history
<1>22. ASSUME Cancel
      PROVE  RunAgrees'
  BY <1>22 DEF Cancel, RunAgrees, CompletedHoldsNothing, ParkedRunHasParkedStep, Parked
<1>23. ASSUME Crash
      PROVE  RunAgrees'
  BY <1>23, RunAgreesKept DEF Crash, stepVars, history
<1>24. ASSUME Recover
      PROVE  RunAgrees'
  BY <1>24 DEF Recover, RunAgrees, CompletedHoldsNothing, ParkedRunHasParkedStep, Parked
<1>25. ASSUME ReconcileInterrupted
      PROVE  RunAgrees'
  BY <1>25 DEF ReconcileInterrupted, TypeOK, stepVars, history, RunAgrees,
     CompletedHoldsNothing, ParkedRunHasParkedStep, Parked
<1>26. ASSUME Open
      PROVE  RunAgrees'
  BY <1>26, RunAgreesKept DEF Open, stepVars, history
<1>27. ASSUME UNCHANGED vars
      PROVE  RunAgrees'
  BY <1>27, RunAgreesKept DEF vars, stepVars, history
<1> QED
  BY <1>1, <1>2, <1>3, <1>4, <1>5, <1>6, <1>7, <1>8, <1>9, <1>10, <1>11, <1>12, <1>13, <1>14,
     <1>15, <1>16, <1>17, <1>18, <1>19, <1>20, <1>21, <1>22, <1>23, <1>24, <1>25, <1>26, <1>27
  DEF Next, Lease, Admission, Execution, Decision

-------------------------------------------------------------------------------
\* The run service implements the step ledger.

\* Where a line of the ledger may go, in the words of the run service.
LineMoves(t) ==
  LET from == PhaseOf(t)
      to == PhaseOf(t)'
      was == open[t] # {}
      is == open'[t] # {}
      irrevocable == NeedsReconciliation(t)
  IN \/ to = from /\ (is => was)
     \/ /\ from \in {"ready", "inflight"} /\ to = "inflight"
        /\ irrevocable => from = "ready" /\ ~was
     \/ from = "inflight" /\ to = "done" /\ ~is
     \/ from = "inflight" /\ to = "ready" /\ (is => was) /\ (irrevocable => ~is)
     \/ from = "inflight" /\ to = "parked" /\ is = was
     \/ from = "parked" /\ to \in {"done", "ready"} /\ ~is
     \/ /\ from \in {"ready", "inflight", "parked"} /\ to = "dropped" /\ is = was
        /\ irrevocable => from # "inflight"

\* They are the ledger's moves.
LEMMA LineMovesAreMoves ==
  ASSUME NEW t \in Steps, LineMoves(t)
  PROVE  Ledger!Moves(t)
BY DEF LineMoves, Ledger!Moves, Ledger!Keeps, Ledger!Starts, Ledger!Finishes, Ledger!Returns,
       Ledger!Parks, Ledger!Reconciles, Ledger!Drops

\* A line whose step keeps its state keeps its phase.
LEMMA LineKept ==
  ASSUME NEW t \in Steps, state'[t] = state[t], open'[t] \subseteq open[t]
  PROVE  LineMoves(t)
BY DEF LineMoves, PhaseOf

\* Every action moves every step as the ledger allows.
LEMMA LinesStep ==
  ASSUME TypeOK, StepsSafe, CallsAreHonest, [Next]_vars
  PROVE  \A t \in Steps : LineMoves(t)
<1>1. ASSUME NEW o \in Owners, NEW r \in BOOLEAN, RenewLease(o, r)
      PROVE  \A t \in Steps : LineMoves(t)
  BY <1>1, LineKept DEF RenewLease, stepVars, history
<1>2. ASSUME NEW o \in Owners, NEW r \in BOOLEAN, TakeLease(o, r)
      PROVE  \A t \in Steps : LineMoves(t)
  BY <1>2, LineKept DEF TakeLease, stepVars, history
<1>3. ASSUME NEW o \in Owners, Complete(o)
      PROVE  \A t \in Steps : LineMoves(t)
  BY <1>3, LineKept DEF Complete, stepVars, history
<1>4. ASSUME NEW o \in Owners, FailRun(o)
      PROVE  \A t \in Steps : LineMoves(t)
  BY <1>4, LineKept DEF FailRun, stepVars, history
<1>5. ASSUME NEW c \in Calls, NEW s \in Steps, NEW o \in Owners, AdmitParks(c, s, o)
      PROVE  \A t \in Steps : LineMoves(t)
  <2> TAKE t \in Steps
  <2>1. CASE t # s
    BY <1>5, <2>1, LineKept DEF AdmitParks, TypeOK, stepVars, history
  <2>2. CASE t = s
    BY <1>5, <2>2 DEF AdmitParks, Orphaned, TypeOK, LineMoves, PhaseOf, history
  <2> QED
    BY <2>1, <2>2
<1>6. ASSUME NEW c \in Calls, NEW s \in Steps, NEW o \in Owners,
          NEW g \in 0 .. generation, NEW hold \in BOOLEAN,
          AdmitWaits(c, s, o, g, hold)
      PROVE  \A t \in Steps : LineMoves(t)
  <2> TAKE t \in Steps
  <2>1. CASE t # s
    BY <1>6, <2>1, LineKept DEF AdmitWaits, TypeOK, stepVars, history
  <2>2. CASE t = s
    <3>1. state[s] = "running" => ~NeedsReconciliation(s)
      BY <1>6 DEF AdmitWaits, Runnable, Orphaned, InterruptedIsUncertain, history
    <3>2. /\ state'[s] = "waiting_approval" /\ open'[s] = open[s]
          /\ state[s] \notin {"reconcile_required", "succeeded", "cancelled"}
      BY <1>6 DEF AdmitWaits, Runnable, Orphaned, TypeOK, history
    <3> QED
      BY <2>2, <3>1, <3>2 DEF LineMoves, PhaseOf
  <2> QED
    BY <2>1, <2>2
<1>7. ASSUME NEW c \in Calls, NEW s \in Steps, NEW o \in Owners,
          NEW g \in 0 .. generation, NEW hold \in BOOLEAN,
          AdmitBlocks(c, s, o, g, hold)
      PROVE  \A t \in Steps : LineMoves(t)
  <2> TAKE t \in Steps
  <2>1. CASE t # s
    BY <1>7, <2>1, LineKept DEF AdmitBlocks, TypeOK, stepVars, history
  <2>2. CASE t = s
    BY <1>7, <2>2 DEF AdmitBlocks, TypeOK, LineMoves, PhaseOf, history
  <2> QED
    BY <2>1, <2>2
<1>8. ASSUME NEW c \in Calls, NEW s \in Steps, NEW o \in Owners,
          NEW g \in 0 .. generation, NEW hold \in BOOLEAN,
          AdmitStarts(c, s, o, g, hold)
      PROVE  \A t \in Steps : LineMoves(t)
  <2> TAKE t \in Steps
  <2>1. CASE t # s
    BY <1>8, <2>1, LineKept DEF AdmitStarts, TypeOK, stepVars, history
  <2>2. CASE t = s
    <3>1. NeedsReconciliation(s) => Ready(s) /\ open[s] = {}
      BY <1>8 DEF AdmitStarts, Runnable, Orphaned, InterruptedIsUncertain, StepsSafe, StepSafe,
         Ready, history
    <3>2. /\ state'[s] = "running"
          /\ state[s] \notin {"reconcile_required", "succeeded", "cancelled"}
      BY <1>8 DEF AdmitStarts, Runnable, Orphaned, TypeOK, history
    <3> QED
      BY <2>2, <3>1, <3>2 DEF LineMoves, PhaseOf, Ready
  <2> QED
    BY <2>1, <2>2
<1>9. ASSUME NEW c \in Calls, EnterHandler(c)
      PROVE  \A t \in Steps : LineMoves(t)
  BY <1>9, LineKept DEF EnterHandler, stepVars, history
<1>10. ASSUME NEW c \in Calls, RefuseDispatch(c)
      PROVE  \A t \in Steps : LineMoves(t)
  <2> TAKE t \in Steps
  <2>1. open'[t] \subseteq open[t]
    BY <1>10 DEF RefuseDispatch, TypeOK, history
  <2> QED
    BY <1>10, <2>1, LineKept DEF RefuseDispatch, stepVars, history
<1>11. ASSUME NEW c \in Calls, NEW outcome \in Outcomes, HandlerReturns(c, outcome)
      PROVE  \A t \in Steps : LineMoves(t)
  <2> TAKE t \in Steps
  <2>1. open'[t] \subseteq open[t]
    BY <1>11 DEF HandlerReturns, TypeOK, history
  <2> QED
    BY <1>11, <2>1, LineKept DEF HandlerReturns, stepVars, history
<1>12. ASSUME NEW c \in Calls, CommitSuccess(c)
      PROVE  \A t \in Steps : LineMoves(t)
  <2> TAKE t \in Steps
  <2>1. CASE t # call[c].step
    BY <1>12, <2>1, LineKept DEF CommitSuccess, TypeOK, stepVars, history
  <2>2. CASE t = call[c].step
    BY <1>12, <2>2 DEF CommitSuccess, OwnsAttempt, TypeOK, InFlight, LineMoves, PhaseOf, history
  <2> QED
    BY <2>1, <2>2
<1>13. ASSUME NEW c \in Calls, CommitLost(c)
      PROVE  \A t \in Steps : LineMoves(t)
  BY <1>13, LineKept DEF CommitLost, stepVars, history
<1>14. ASSUME NEW c \in Calls, RecordFailure(c)
      PROVE  \A t \in Steps : LineMoves(t)
  <2> DEFINE s == call[c].step
             next == FailedState(s, call[c].outcome)
  <2>1. /\ s \in Steps /\ call[c] # Idle /\ call[c].phase = "failing"
        /\ state[s] = "running" /\ attempt[s] = call[c].attempt
    BY <1>14 DEF RecordFailure, OwnsAttempt, TypeOK, InFlight, history
  <2>2. /\ state' = [state EXCEPT ![s] = next]
        /\ open' = open
    BY <1>14 DEF RecordFailure, history
  <2>3. /\ next \in {"waiting_event", "failed", "reconcile_required", "retry_wait"}
        /\ NeedsReconciliation(s) /\ next # "reconcile_required" =>
             call[c].outcome \in {"refused", "suspended"}
    BY DEF FailedState
  <2>4. NeedsReconciliation(s) /\ next # "reconcile_required" => open[s] = {}
    BY <2>1, <2>3 DEF CallsAreHonest, Honest, SaysNothingDone, StepsSafe, StepSafe
  <2> HIDE DEF s, next
  <2> TAKE t \in Steps
  <2>5. CASE t # s
    BY <2>1, <2>2, <2>5, LineKept DEF TypeOK
  <2>6. CASE t = s
    <3>1. state'[s] = next /\ open'[s] = open[s]
      BY <2>1, <2>2 DEF TypeOK
    <3> QED
      BY <2>1, <2>3, <2>4, <2>6, <3>1 DEF LineMoves, PhaseOf
  <2> QED
    BY <2>5, <2>6
<1>15. ASSUME NEW c \in Calls, DropFailure(c)
      PROVE  \A t \in Steps : LineMoves(t)
  BY <1>15, LineKept DEF DropFailure, stepVars, history
<1>16. ASSUME NEW s \in Steps, Approve(s)
      PROVE  \A t \in Steps : LineMoves(t)
  <2> TAKE t \in Steps
  <2>1. CASE t # s
    BY <1>16, <2>1, LineKept DEF Approve, TypeOK, stepVars, history
  <2>2. CASE t = s
    BY <1>16, <2>2 DEF Approve, TypeOK, LineMoves, PhaseOf, history
  <2> QED
    BY <2>1, <2>2
<1>17. ASSUME NEW s \in Steps, Deny(s)
      PROVE  \A t \in Steps : LineMoves(t)
  <2> TAKE t \in Steps
  <2>1. CASE t # s
    BY <1>17, <2>1, LineKept DEF Deny, TypeOK, stepVars, history
  <2>2. CASE t = s
    BY <1>17, <2>2 DEF Deny, TypeOK, LineMoves, PhaseOf, history
  <2> QED
    BY <2>1, <2>2
<1>18. ASSUME NEW s \in Steps, ExpireApproval(s)
      PROVE  \A t \in Steps : LineMoves(t)
  BY <1>18, LineKept DEF ExpireApproval, stepVars, history
<1>19. ASSUME NEW s \in Steps, NEW applied \in BOOLEAN, ReconcileEffect(s, applied)
      PROVE  \A t \in Steps : LineMoves(t)
  <2> TAKE t \in Steps
  <2>1. CASE t # s
    BY <1>19, <2>1, LineKept DEF ReconcileEffect, TypeOK, stepVars, history
  <2>2. CASE t = s
    BY <1>19, <2>2 DEF ReconcileEffect, Parked, TypeOK, LineMoves, PhaseOf, history
  <2> QED
    BY <2>1, <2>2
<1>20. ASSUME ExpireLease
      PROVE  \A t \in Steps : LineMoves(t)
  BY <1>20, LineKept DEF ExpireLease, stepVars, history
<1>21. ASSUME RotateIdentity
      PROVE  \A t \in Steps : LineMoves(t)
  BY <1>21, LineKept DEF RotateIdentity, stepVars, history
<1>22. ASSUME Cancel
      PROVE  \A t \in Steps : LineMoves(t)
  <2> TAKE t \in Steps
  <2>1. CASE state'[t] = state[t]
    BY <1>22, <2>1, LineKept DEF Cancel, history
  <2>2. CASE state'[t] = CancelledState(t)
    BY <1>22, <2>2 DEF Cancel, CancelledState, InterruptedIsUncertain, TypeOK, LineMoves,
       PhaseOf, history
  <2> QED
    BY <1>22, <2>1, <2>2 DEF Cancel, history
<1>23. ASSUME Crash
      PROVE  \A t \in Steps : LineMoves(t)
  BY <1>23, LineKept DEF Crash, stepVars, history
<1>24. ASSUME Recover
      PROVE  \A t \in Steps : LineMoves(t)
  <2> TAKE t \in Steps
  <2>1. CASE state'[t] = state[t]
    BY <1>24, <2>1, LineKept DEF Recover, history
  <2>2. CASE state'[t] = RecoveredState(t)
    BY <1>24, <2>2 DEF Recover, RecoveredState, InterruptedIsUncertain, TypeOK, LineMoves,
       PhaseOf, history
  <2> QED
    BY <1>24, <2>1, <2>2 DEF Recover, history
<1>25. ASSUME ReconcileInterrupted
      PROVE  \A t \in Steps : LineMoves(t)
  <2> TAKE t \in Steps
  <2> QED
    BY <1>25 DEF ReconcileInterrupted, Parked, TypeOK, LineMoves, PhaseOf, history
<1>26. ASSUME Open
      PROVE  \A t \in Steps : LineMoves(t)
  BY <1>26, LineKept DEF Open, stepVars, history
<1>27. ASSUME UNCHANGED vars
      PROVE  \A t \in Steps : LineMoves(t)
  BY <1>27, LineKept DEF vars, stepVars, history
<1> QED
  BY <1>1, <1>2, <1>3, <1>4, <1>5, <1>6, <1>7, <1>8, <1>9, <1>10, <1>11, <1>12, <1>13, <1>14,
     <1>15, <1>16, <1>17, <1>18, <1>19, <1>20, <1>21, <1>22, <1>23, <1>24, <1>25, <1>26, <1>27
  DEF Next, Lease, Admission, Execution, Decision

-------------------------------------------------------------------------------
\* The inductive invariant, and what follows from it.
IInv ==
  /\ TypeOK
  /\ FenceNamesOneOwner
  /\ CallsAreNumbered
  /\ OneCallPerAttempt
  /\ StepsSafe
  /\ CallsAreHonest
  /\ RunAgrees

\* A run just created satisfies it.
LEMMA IInvInit == Init => IInv
<1> SUFFICES ASSUME Init PROVE IInv
  OBVIOUS
<1>1. TypeOK
  BY TypeInit
<1>2. FenceNamesOneOwner /\ CallsAreNumbered /\ OneCallPerAttempt /\ CallsAreHonest
  BY DEF Init, FenceNamesOneOwner, CallsAreNumbered, OneCallPerAttempt, CallsAreHonest, Honest
<1>3. StepsSafe
  BY DEF Init, StepsSafe, StepSafe, Parked
<1>4. RunAgrees
  BY DEF Init, RunAgrees, CompletedHoldsNothing, ParkedRunHasParkedStep
<1> QED
  BY <1>1, <1>2, <1>3, <1>4 DEF IInv

\* Every action keeps it.
LEMMA IInvStep == IInv /\ [Next]_vars => IInv'
<1> SUFFICES ASSUME IInv, [Next]_vars PROVE IInv'
  OBVIOUS
<1>1. TypeOK'
  BY TypeStep DEF IInv
<1>2. FenceNamesOneOwner'
  BY FenceStep DEF IInv
<1>3. CallsAreNumbered' /\ OneCallPerAttempt'
  BY AttemptStep DEF IInv
<1>4. StepsSafe'
  BY StepsSafeStep DEF IInv
<1>5. CallsAreHonest'
  BY CallsAreHonestStep DEF IInv
<1>6. RunAgrees'
  BY RunAgreesStep DEF IInv
<1> QED
  BY <1>1, <1>2, <1>3, <1>4, <1>5, <1>6 DEF IInv

\* It holds throughout.
LEMMA Invariance == Spec => []IInv
BY IInvInit, IInvStep, PTL DEF Spec

\* A fence belongs to one owner: no two drivers can commit under one fence.
THEOREM OneOwnerPerFence == Spec => []FenceNamesOneOwner
<1>1. IInv => FenceNamesOneOwner
  BY DEF IInv
<1> QED
  BY <1>1, Invariance, PTL

\* Two calls in flight never stand for the same attempt of a step.
THEOREM AttemptsAreCalledOnce == Spec => []OneCallPerAttempt
<1>1. IInv => OneCallPerAttempt
  BY DEF IInv
<1> QED
  BY <1>1, Invariance, PTL

\* A parked write always carries an uncertain effect record, so whoever looks at
\* the sink can settle it.
THEOREM ParkedIsUncertain == Spec => []ParkedEffectIsUncertain
<1>1. IInv => ParkedEffectIsUncertain
  BY DEF IInv, StepsSafe, StepSafe, ParkedEffectIsUncertain
<1> QED
  BY <1>1, Invariance, PTL

\* A completed run has no step in flight and none parked.
THEOREM CompletedIsComplete == Spec => []CompletedHoldsNothing
<1>1. IInv => CompletedHoldsNothing
  BY DEF IInv, RunAgrees
<1> QED
  BY <1>1, Invariance, PTL

\* A run parked for reconciliation has a step to reconcile.
THEOREM ParkedCanBeReconciled == Spec => []ParkedRunHasParkedStep
<1>1. IInv => ParkedRunHasParkedStep
  BY DEF IInv, RunAgrees
<1> QED
  BY <1>1, Invariance, PTL

\* No attempt starts over an open one whose handler never finished, and never over any
\* open one of an effect that is not guessed.
THEOREM AttemptsAreNeverGuesses == Spec => NeverOnAGuess
<1> DEFINE Settles(s) ==
             attempt'[s] # attempt[s] =>
               /\ open[s] \subseteq answered[s]
               /\ NeedsReconciliation(s) => open[s] = {}
<1>1. ASSUME IInv, [Next]_vars, NEW s \in Steps
      PROVE  Settles(s)
  <2>1. CASE ~SomeStart
    BY <1>1, <2>1, CallsStay DEF IInv
  <2>2. CASE SomeStart
    <3>1. PICK c \in Calls, t \in Steps, o \in Owners, g \in 0 .. generation, hold \in BOOLEAN :
            AdmitStarts(c, t, o, g, hold)
      BY <2>2 DEF SomeStart
    <3>2. CASE s # t
      BY <1>1, <3>1, <3>2 DEF AdmitStarts, IInv, TypeOK
    <3>3. CASE s = t
      <4>1. StepSafe(s)
        BY <1>1 DEF IInv, StepsSafe
      <4>2. CASE Ready(s)
        BY <4>1, <4>2 DEF StepSafe
      <4>3. CASE ~Ready(s)
        <5>1. state[s] = "running" /\ ~InterruptedIsUncertain(s)
          BY <3>1, <3>3, <4>3 DEF AdmitStarts, Runnable, Orphaned, Ready
        <5> QED
          BY <4>1, <5>1, RerunIsClosed
      <4> QED
        BY <4>2, <4>3
    <3> QED
      BY <3>2, <3>3
  <2> QED
    BY <2>1, <2>2
<1>2. IInv /\ [Next]_vars => [\A s \in Steps : Settles(s)]_vars
  BY <1>1
<1> QED
  BY <1>2, Invariance, PTL DEF Spec, NeverOnAGuess

\* A step that succeeded or was cancelled never changes again.
THEOREM SettledStepsStay == Spec => StepsSettleOnce
<1> DEFINE Stays(s) == state[s] \in {"succeeded", "cancelled"} => state'[s] = state[s]
<1>1. ASSUME IInv, [Next]_vars, NEW s \in Steps
      PROVE  Stays(s)
  <2>1. LineMoves(s)
    BY <1>1, LinesStep DEF IInv
  <2> QED
    BY <2>1 DEF LineMoves, PhaseOf
<1>2. IInv /\ [Next]_vars => [\A s \in Steps : Stays(s)]_vars
  BY <1>1
<1> QED
  BY <1>2, Invariance, PTL DEF Spec, StepsSettleOnce

\* The initial record is an empty ledger.
LEMMA LedgerInit == Init => Ledger!Init
BY DEF Init, Ledger!Init, PhaseOf

\* Every step of the run service is a step of the ledger, or leaves it alone.
LEMMA LedgerStep == IInv /\ IInv' /\ [Next]_vars => [Ledger!Next]_Ledger!ledgerVars
<1> SUFFICES ASSUME IInv, IInv', [Next]_vars PROVE Ledger!Next
  OBVIOUS
<1>1. \A t \in Steps : Ledger!Moves(t)
  BY LinesStep, LineMovesAreMoves DEF IInv
<1>2. \A t \in Steps : PhaseOf(t)' \in Ledger!Phases
  BY DEF PhaseOf, Ledger!Phases
<1>3. (runState = "completed")' => \A t \in Steps : PhaseOf(t)' \notin {"inflight", "parked"}
  BY DEF IInv, RunAgrees, CompletedHoldsNothing, PhaseOf
<1> QED
  BY <1>1, <1>2, <1>3 DEF Ledger!Next

\* The run service implements the step ledger, whatever the order of takeovers,
\* cancellations, restarts and late handlers.
THEOREM RunServiceImplementsLedger == Spec => ImplementsLedger
<1>1. Init => Ledger!Init
  BY LedgerInit
<1>2. IInv /\ IInv' /\ [Next]_vars => [Ledger!Next]_Ledger!ledgerVars
  BY LedgerStep
<1> QED
  BY <1>1, <1>2, Invariance, PTL DEF Spec, ImplementsLedger, Ledger!Spec

-------------------------------------------------------------------------------
\* No step is left in flight without a call that will settle it.

\* A signal says stale_lease only once the fence has moved on.
StaleIsFenced ==
  \A c \in Calls :
    call[c] # Idle /\ call[c].signal = "stale_lease" => call[c].fence < fence

\* The call of a step's last attempt was made under the fence the step records.
AttemptHasFence ==
  \A c \in Calls :
    call[c] # Idle /\ call[c].attempt = attempt[call[c].step] =>
      call[c].fence = leaseFence[call[c].step]

\* No step records a fence still to come.
FencesBound == \A s \in Steps : leaseFence[s] <= fence

\* Only a takeover tells a call its lease is stale.
SignalsStay ==
  \A d \in Calls :
    call'[d] # Idle /\ call'[d].signal = "stale_lease" =>
      fence' > fence \/ (call[d] # Idle /\ call[d].signal = "stale_lease")

\* Every other action leaves such signals alone.
LEMMA SignalsFollowTheFence ==
  ASSUME TypeOK, [Next]_vars
  PROVE  SignalsStay
<1>1. ASSUME NEW o \in Owners, NEW r \in BOOLEAN, RenewLease(o, r)
      PROVE  SignalsStay
  BY <1>1 DEF RenewLease, SignalsStay, TypeOK, memoryVars, history
<1>2. ASSUME NEW o \in Owners, NEW r \in BOOLEAN, TakeLease(o, r)
      PROVE  SignalsStay
  BY <1>2 DEF TakeLease, SignalsStay, TypeOK
<1>3. ASSUME NEW o \in Owners, Complete(o)
      PROVE  SignalsStay
  BY <1>3, UnregisteredFacts DEF Complete, TypeOK, SignalsStay
<1>4. ASSUME NEW o \in Owners, FailRun(o)
      PROVE  SignalsStay
  BY <1>4, UnregisteredFacts DEF FailRun, TypeOK, SignalsStay
<1>5. ASSUME NEW c \in Calls, NEW s \in Steps, NEW o \in Owners, AdmitParks(c, s, o)
      PROVE  SignalsStay
  BY <1>5 DEF AdmitParks, SignalsStay, TypeOK, memoryVars, history
<1>6. ASSUME NEW c \in Calls, NEW s \in Steps, NEW o \in Owners,
          NEW g \in 0 .. generation, NEW hold \in BOOLEAN,
          AdmitWaits(c, s, o, g, hold)
      PROVE  SignalsStay
  BY <1>6 DEF AdmitWaits, SignalsStay, TypeOK, memoryVars, history
<1>7. ASSUME NEW c \in Calls, NEW s \in Steps, NEW o \in Owners,
          NEW g \in 0 .. generation, NEW hold \in BOOLEAN,
          AdmitBlocks(c, s, o, g, hold)
      PROVE  SignalsStay
  BY <1>7 DEF AdmitBlocks, SignalsStay, TypeOK, memoryVars, history
<1>8. ASSUME NEW c \in Calls, NEW s \in Steps, NEW o \in Owners,
          NEW g \in 0 .. generation, NEW hold \in BOOLEAN,
          AdmitStarts(c, s, o, g, hold)
      PROVE  SignalsStay
  <2>1. /\ call'[c].signal # "stale_lease"
        /\ \A d \in Calls \ {c} : call'[d] = call[d]
    BY <1>8 DEF AdmitStarts, TypeOK
  <2> QED
    BY <2>1 DEF SignalsStay
<1>9. ASSUME NEW c \in Calls, EnterHandler(c)
      PROVE  SignalsStay
  <2>1. /\ call'[c].signal = call[c].signal
        /\ \A d \in Calls \ {c} : call'[d] = call[d]
    BY <1>9, BecomesFacts DEF EnterHandler, TypeOK, Phases, Outcomes
  <2> QED
    BY <1>9, <2>1 DEF EnterHandler, SignalsStay
<1>10. ASSUME NEW c \in Calls, RefuseDispatch(c)
      PROVE  SignalsStay
  <2>1. /\ call'[c].signal = call[c].signal
        /\ \A d \in Calls \ {c} : call'[d] = call[d]
    BY <1>10, BecomesFacts DEF RefuseDispatch, TypeOK, Phases, Outcomes
  <2> QED
    BY <1>10, <2>1 DEF RefuseDispatch, SignalsStay
<1>11. ASSUME NEW c \in Calls, NEW outcome \in Outcomes, HandlerReturns(c, outcome)
      PROVE  SignalsStay
  <2>1. /\ call'[c].signal = call[c].signal
        /\ \A d \in Calls \ {c} : call'[d] = call[d]
    BY <1>11, BecomesFacts DEF HandlerReturns, TypeOK, Phases, Outcomes
  <2> QED
    BY <1>11, <2>1 DEF HandlerReturns, SignalsStay
<1>12. ASSUME NEW c \in Calls, CommitSuccess(c)
      PROVE  SignalsStay
  BY <1>12 DEF CommitSuccess, SignalsStay, TypeOK, memoryVars, history
<1>13. ASSUME NEW c \in Calls, CommitLost(c)
      PROVE  SignalsStay
  <2>1. /\ call'[c].signal = call[c].signal
        /\ \A d \in Calls \ {c} : call'[d] = call[d]
    BY <1>13, BecomesFacts DEF CommitLost, TypeOK, Phases, Outcomes
  <2> QED
    BY <1>13, <2>1 DEF CommitLost, SignalsStay
<1>14. ASSUME NEW c \in Calls, RecordFailure(c)
      PROVE  SignalsStay
  BY <1>14 DEF RecordFailure, SignalsStay, TypeOK, memoryVars, history
<1>15. ASSUME NEW c \in Calls, DropFailure(c)
      PROVE  SignalsStay
  BY <1>15 DEF DropFailure, SignalsStay, TypeOK, memoryVars, history
<1>16. ASSUME NEW s \in Steps, Approve(s)
      PROVE  SignalsStay
  BY <1>16 DEF Approve, SignalsStay, TypeOK, memoryVars, history
<1>17. ASSUME NEW s \in Steps, Deny(s)
      PROVE  SignalsStay
  BY <1>17, AbortedFacts DEF Deny, TypeOK, SignalsStay
<1>18. ASSUME NEW s \in Steps, ExpireApproval(s)
      PROVE  SignalsStay
  BY <1>18 DEF ExpireApproval, SignalsStay, TypeOK, memoryVars, history
<1>19. ASSUME NEW s \in Steps, NEW applied \in BOOLEAN, ReconcileEffect(s, applied)
      PROVE  SignalsStay
  BY <1>19 DEF ReconcileEffect, SignalsStay, TypeOK, memoryVars, history
<1>20. ASSUME ExpireLease
      PROVE  SignalsStay
  BY <1>20 DEF ExpireLease, SignalsStay, TypeOK, memoryVars, history
<1>21. ASSUME RotateIdentity
      PROVE  SignalsStay
  BY <1>21 DEF RotateIdentity, SignalsStay, TypeOK, memoryVars, history
<1>22. ASSUME Cancel
      PROVE  SignalsStay
  BY <1>22, AbortedFacts DEF Cancel, TypeOK, SignalsStay
<1>23. ASSUME Crash
      PROVE  SignalsStay
  BY <1>23 DEF Crash, SignalsStay, TypeOK, memoryVars, history
<1>24. ASSUME Recover
      PROVE  SignalsStay
  BY <1>24 DEF Recover, SignalsStay, TypeOK, memoryVars, history
<1>25. ASSUME ReconcileInterrupted
      PROVE  SignalsStay
  BY <1>25 DEF ReconcileInterrupted, SignalsStay, TypeOK, memoryVars, history
<1>26. ASSUME Open
      PROVE  SignalsStay
  BY <1>26 DEF Open, SignalsStay, TypeOK, memoryVars, history
<1>27. ASSUME UNCHANGED vars
      PROVE  SignalsStay
  BY <1>27 DEF SignalsStay, vars, memoryVars, history
<1> QED
  BY <1>1, <1>2, <1>3, <1>4, <1>5, <1>6, <1>7, <1>8, <1>9, <1>10, <1>11, <1>12, <1>13, <1>14,
     <1>15, <1>16, <1>17, <1>18, <1>19, <1>20, <1>21, <1>22, <1>23, <1>24, <1>25, <1>26, <1>27
  DEF Next, Lease, Admission, Execution, Decision

\* The calls, their fences and their signals stay in agreement.
LEMMA FencesStep ==
  ASSUME IInv, StaleIsFenced, AttemptHasFence, FencesBound, [Next]_vars
  PROVE  StaleIsFenced' /\ AttemptHasFence' /\ FencesBound'
<1>1. /\ TypeOK /\ TypeOK'
      /\ \A d \in Calls : call[d] # Idle =>
           /\ call[d].step \in Steps /\ call[d].attempt \in Nat /\ call[d].fence \in Nat
           /\ call[d].attempt <= attempt[call[d].step] /\ call[d].fence <= fence
  BY TypeStep DEF IInv, TypeOK, InFlight, CallsAreNumbered, FenceNamesOneOwner
<1>2. fence \in Nat /\ fence' \in Nat /\ fence' >= fence
  BY <1>1, LeaseMovesWithFence DEF TypeOK, LeaseMoves
<1>3. SignalsStay
  BY <1>1, SignalsFollowTheFence
<1>4. CASE SomeStart
  <2>1. PICK c \in Calls, s \in Steps, o \in Owners, g \in 0 .. generation, hold \in BOOLEAN :
          AdmitStarts(c, s, o, g, hold)
    BY <1>4 DEF SomeStart
  <2>2. /\ call[c] = Idle
        /\ call'[c].step = s /\ call'[c].attempt = attempt[s] + 1 /\ call'[c].fence = fence
        /\ \A d \in Calls \ {c} : call'[d] = call[d]
        /\ attempt'[s] = attempt[s] + 1 /\ leaseFence'[s] = fence
        /\ \A t \in Steps \ {s} : attempt'[t] = attempt[t] /\ leaseFence'[t] = leaseFence[t]
        /\ fence' = fence
    BY <1>1, <2>1 DEF AdmitStarts, Admits, NextAttempt, leaseVars, TypeOK
  <2>3. \A t \in Steps : attempt[t] \in Nat /\ leaseFence[t] \in Nat
    BY <1>1 DEF TypeOK
  <2>4. StaleIsFenced'
    BY <1>2, <1>3, <2>2 DEF StaleIsFenced, SignalsStay
  <2>5. AttemptHasFence'
    BY <1>1, <2>2, <2>3 DEF AttemptHasFence
  <2>6. FencesBound'
    BY <1>2, <2>2 DEF FencesBound
  <2> QED
    BY <2>4, <2>5, <2>6
<1>5. CASE ~SomeStart
  <2>1. SameCalls /\ attempt' = attempt /\ leaseFence' = leaseFence
    BY <1>1, <1>5, CallsStay
  <2>2. \A t \in Steps : leaseFence[t] \in Nat
    BY <1>1 DEF TypeOK
  <2>3. StaleIsFenced'
    BY <1>1, <1>2, <1>3, <2>1 DEF StaleIsFenced, SignalsStay, SameCalls
  <2>4. AttemptHasFence'
    BY <2>1 DEF AttemptHasFence, SameCalls
  <2>5. FencesBound'
    BY <1>2, <2>1, <2>2 DEF FencesBound
  <2> QED
    BY <2>3, <2>4, <2>5
<1> QED
  BY <1>4, <1>5

\* A step in flight under a lease its driver holds, and the call that will settle it.
Claimed(t) ==
  owner \in Owners /\ lease = "held" /\ state[t] = "running" /\ leaseFence[t] = fence

HasCall(t) ==
  \/ attempt[t] \in unsaved[t]
  \/ \E c \in Calls : call[c] # Idle /\ call[c].step = t /\ call[c].attempt = attempt[t]

\* Every call is still there, and no failure was left unsaved.
CallsLive ==
  /\ \A c \in Calls :
       call[c] # Idle =>
         call'[c] # Idle /\ call'[c].step = call[c].step /\ call'[c].attempt = call[c].attempt
  /\ unsaved' = unsaved

\* A step that keeps its attempt keeps its call.
LEMMA HasCallKept ==
  ASSUME NEW t \in Steps, InFlightHasACall, Claimed(t)' => Claimed(t), CallsLive,
         attempt' = attempt
  PROVE  Claimed(t)' => HasCall(t)'
BY DEF InFlightHasACall, Claimed, HasCall, CallsLive

\* A call that ends takes no other step's call with it.
LEMMA HasCallKeptByOthers ==
  ASSUME NEW t \in Steps, NEW c \in Calls, InFlightHasACall, Claimed(t)' => Claimed(t),
         call[c].step # t \/ call[c].attempt # attempt[t],
         \A d \in Calls \ {c} : call'[d] = call[d], attempt' = attempt,
         unsaved[t] \subseteq unsaved'[t]
  PROVE  Claimed(t)' => HasCall(t)'
BY DEF InFlightHasACall, Claimed, HasCall

\* No action leaves a claimed step without its call, unless its failure is unsaved.
LEMMA InFlightStep ==
  ASSUME IInv, StaleIsFenced, AttemptHasFence, FencesBound, InFlightHasACall, [Next]_vars
  PROVE  \A t \in Steps : Claimed(t)' => HasCall(t)'
<1>0. TypeOK
  BY DEF IInv
<1>1. ASSUME NEW o \in Owners, NEW r \in BOOLEAN, RenewLease(o, r)
      PROVE  \A t \in Steps : Claimed(t)' => HasCall(t)'
  <2> TAKE t \in Steps
  <2>1. CallsLive /\ attempt' = attempt
    BY <1>1 DEF RenewLease, CallsLive, stepVars, memoryVars, history
  <2>2. Claimed(t)' => Claimed(t)
    BY <1>1 DEF RenewLease, Renews, Claimed, stepVars, history
  <2> QED
    BY <2>1, <2>2, HasCallKept
<1>2. ASSUME NEW o \in Owners, NEW r \in BOOLEAN, TakeLease(o, r)
      PROVE  \A t \in Steps : Claimed(t)' => HasCall(t)'
  <2> TAKE t \in Steps
  <2>1. leaseFence'[t] <= fence /\ fence' = fence + 1 /\ fence \in Nat /\ leaseFence'[t] \in Nat
    BY <1>2, <1>0 DEF TakeLease, FencesBound, TypeOK, stepVars, history
  <2> QED
    BY <2>1 DEF Claimed
<1>3. ASSUME NEW o \in Owners, Complete(o)
      PROVE  \A t \in Steps : Claimed(t)' => HasCall(t)'
  <2> TAKE t \in Steps
  <2>1. CallsLive /\ attempt' = attempt
    BY <1>3, <1>0, UnregisteredFacts DEF Complete, TypeOK, CallsLive, stepVars, history
  <2>2. Claimed(t)' => Claimed(t)
    BY <1>3, <1>0 DEF Complete, TypeOK, Claimed, leaseVars, stepVars, history
  <2> QED
    BY <2>1, <2>2, HasCallKept
<1>4. ASSUME NEW o \in Owners, FailRun(o)
      PROVE  \A t \in Steps : Claimed(t)' => HasCall(t)'
  <2> TAKE t \in Steps
  <2>1. CallsLive /\ attempt' = attempt
    BY <1>4, <1>0, UnregisteredFacts DEF FailRun, TypeOK, CallsLive, stepVars, history
  <2>2. Claimed(t)' => Claimed(t)
    BY <1>4, <1>0 DEF FailRun, TypeOK, Claimed, leaseVars, stepVars, history
  <2> QED
    BY <2>1, <2>2, HasCallKept
<1>5. ASSUME NEW c \in Calls, NEW s \in Steps, NEW o \in Owners, AdmitParks(c, s, o)
      PROVE  \A t \in Steps : Claimed(t)' => HasCall(t)'
  <2> TAKE t \in Steps
  <2>1. CallsLive /\ attempt' = attempt
    BY <1>5, <1>0 DEF AdmitParks, CallsLive, stepVars, memoryVars, history
  <2>2. Claimed(t)' => Claimed(t)
    BY <1>5, <1>0 DEF AdmitParks, TypeOK, Claimed, leaseVars, stepVars, memoryVars, history
  <2> QED
    BY <2>1, <2>2, HasCallKept
<1>6. ASSUME NEW c \in Calls, NEW s \in Steps, NEW o \in Owners,
          NEW g \in 0 .. generation, NEW hold \in BOOLEAN,
          AdmitWaits(c, s, o, g, hold)
      PROVE  \A t \in Steps : Claimed(t)' => HasCall(t)'
  <2> TAKE t \in Steps
  <2>1. CallsLive /\ attempt' = attempt
    BY <1>6, <1>0 DEF AdmitWaits, CallsLive, stepVars, memoryVars, history
  <2>2. Claimed(t)' => Claimed(t)
    BY <1>6, <1>0 DEF AdmitWaits, TypeOK, Claimed, leaseVars, stepVars, memoryVars, history
  <2> QED
    BY <2>1, <2>2, HasCallKept
<1>7. ASSUME NEW c \in Calls, NEW s \in Steps, NEW o \in Owners,
          NEW g \in 0 .. generation, NEW hold \in BOOLEAN,
          AdmitBlocks(c, s, o, g, hold)
      PROVE  \A t \in Steps : Claimed(t)' => HasCall(t)'
  <2> TAKE t \in Steps
  <2>1. CallsLive /\ attempt' = attempt
    BY <1>7, <1>0 DEF AdmitBlocks, CallsLive, stepVars, memoryVars, history
  <2>2. Claimed(t)' => Claimed(t)
    BY <1>7, <1>0 DEF AdmitBlocks, TypeOK, Claimed, leaseVars, stepVars, memoryVars, history
  <2> QED
    BY <2>1, <2>2, HasCallKept
<1>8. ASSUME NEW c \in Calls, NEW s \in Steps, NEW o \in Owners,
          NEW g \in 0 .. generation, NEW hold \in BOOLEAN,
          AdmitStarts(c, s, o, g, hold)
      PROVE  \A t \in Steps : Claimed(t)' => HasCall(t)'
  <2> TAKE t \in Steps
  <2>1. /\ call[c] = Idle
        /\ call'[c] # Idle /\ call'[c].step = s /\ call'[c].attempt = attempt[s] + 1
        /\ \A d \in Calls \ {c} : call'[d] = call[d]
        /\ attempt'[s] = attempt[s] + 1
        /\ \A u \in Steps \ {s} :
             /\ attempt'[u] = attempt[u] /\ unsaved'[u] = unsaved[u]
             /\ Claimed(u)' => Claimed(u)
    BY <1>8, <1>0 DEF AdmitStarts, Admits, NextAttempt, TypeOK, Claimed, leaseVars, Idle
  <2>2. CASE t = s
    BY <2>1, <2>2 DEF HasCall
  <2>3. CASE t # s
    BY <2>1, <2>3 DEF InFlightHasACall, Claimed, HasCall
  <2> QED
    BY <2>2, <2>3
<1>9. ASSUME NEW c \in Calls, EnterHandler(c)
      PROVE  \A t \in Steps : Claimed(t)' => HasCall(t)'
  <2> TAKE t \in Steps
  <2>1. /\ call'[c] # Idle
        /\ call'[c].step = call[c].step /\ call'[c].attempt = call[c].attempt
        /\ \A d \in Calls \ {c} : call'[d] = call[d]
    BY <1>9, <1>0, BecomesFacts DEF EnterHandler, TypeOK, Phases, Outcomes
  <2>2. CallsLive /\ attempt' = attempt
    BY <1>9, <2>1 DEF EnterHandler, CallsLive, stepVars, history
  <2>3. Claimed(t)' => Claimed(t)
    BY <1>9 DEF EnterHandler, Claimed, leaseVars, stepVars, history
  <2> QED
    BY <2>2, <2>3, HasCallKept
<1>10. ASSUME NEW c \in Calls, RefuseDispatch(c)
      PROVE  \A t \in Steps : Claimed(t)' => HasCall(t)'
  <2> TAKE t \in Steps
  <2>1. /\ call'[c] # Idle
        /\ call'[c].step = call[c].step /\ call'[c].attempt = call[c].attempt
        /\ \A d \in Calls \ {c} : call'[d] = call[d]
    BY <1>10, <1>0, BecomesFacts DEF RefuseDispatch, TypeOK, Phases, Outcomes
  <2>2. CallsLive /\ attempt' = attempt
    BY <1>10, <2>1 DEF RefuseDispatch, CallsLive, stepVars, history
  <2>3. Claimed(t)' => Claimed(t)
    BY <1>10 DEF RefuseDispatch, Claimed, leaseVars, stepVars, history
  <2> QED
    BY <2>2, <2>3, HasCallKept
<1>11. ASSUME NEW c \in Calls, NEW outcome \in Outcomes, HandlerReturns(c, outcome)
      PROVE  \A t \in Steps : Claimed(t)' => HasCall(t)'
  <2> TAKE t \in Steps
  <2>1. /\ call'[c] # Idle
        /\ call'[c].step = call[c].step /\ call'[c].attempt = call[c].attempt
        /\ \A d \in Calls \ {c} : call'[d] = call[d]
    BY <1>11, <1>0, BecomesFacts DEF HandlerReturns, TypeOK, Phases, Outcomes
  <2>2. CallsLive /\ attempt' = attempt
    BY <1>11, <2>1 DEF HandlerReturns, CallsLive, stepVars, history
  <2>3. Claimed(t)' => Claimed(t)
    BY <1>11 DEF HandlerReturns, Claimed, leaseVars, stepVars, history
  <2> QED
    BY <2>2, <2>3, HasCallKept
<1>12. ASSUME NEW c \in Calls, CommitSuccess(c)
      PROVE  \A t \in Steps : Claimed(t)' => HasCall(t)'
  <2> TAKE t \in Steps
  <2>1. /\ call[c].step \in Steps /\ attempt' = attempt /\ unsaved' = unsaved
        /\ \A d \in Calls \ {c} : call'[d] = call[d]
    BY <1>12, <1>0 DEF CommitSuccess, TypeOK, InFlight, stepVars, history
  <2>2. CASE t = call[c].step
    BY <1>12, <1>0, <2>2 DEF CommitSuccess, TypeOK, Claimed
  <2>3. CASE t # call[c].step
    <3>1. Claimed(t)' => Claimed(t)
      BY <1>12, <1>0, <2>1, <2>3 DEF CommitSuccess, TypeOK, Claimed, leaseVars
    <3> QED
      BY <2>1, <2>3, <3>1, HasCallKeptByOthers
  <2> QED
    BY <2>2, <2>3
<1>13. ASSUME NEW c \in Calls, CommitLost(c)
      PROVE  \A t \in Steps : Claimed(t)' => HasCall(t)'
  <2> TAKE t \in Steps
  <2>1. /\ call'[c] # Idle
        /\ call'[c].step = call[c].step /\ call'[c].attempt = call[c].attempt
        /\ \A d \in Calls \ {c} : call'[d] = call[d]
    BY <1>13, <1>0, BecomesFacts DEF CommitLost, TypeOK, Phases, Outcomes
  <2>2. CallsLive /\ attempt' = attempt
    BY <1>13, <2>1 DEF CommitLost, CallsLive, stepVars, history
  <2>3. Claimed(t)' => Claimed(t)
    BY <1>13 DEF CommitLost, Claimed, leaseVars, stepVars, history
  <2> QED
    BY <2>2, <2>3, HasCallKept
<1>14. ASSUME NEW c \in Calls, RecordFailure(c)
      PROVE  \A t \in Steps : Claimed(t)' => HasCall(t)'
  <2> TAKE t \in Steps
  <2>1. /\ call[c].step \in Steps /\ attempt' = attempt /\ unsaved' = unsaved
        /\ \A d \in Calls \ {c} : call'[d] = call[d]
    BY <1>14, <1>0 DEF RecordFailure, TypeOK, InFlight, stepVars, history
  <2>2. CASE t = call[c].step
    BY <1>14, <1>0, <2>2 DEF RecordFailure, TypeOK, Claimed, FailedState
  <2>3. CASE t # call[c].step
    <3>1. Claimed(t)' => Claimed(t)
      BY <1>14, <1>0, <2>1, <2>3 DEF RecordFailure, TypeOK, Claimed, leaseVars
    <3> QED
      BY <2>1, <2>3, <3>1, HasCallKeptByOthers
  <2> QED
    BY <2>2, <2>3
<1>15. ASSUME NEW c \in Calls, DropFailure(c)
      PROVE  \A t \in Steps : Claimed(t)' => HasCall(t)'
  <2> TAKE t \in Steps
  <2>1. /\ call[c].step \in Steps /\ attempt' = attempt
        /\ \A d \in Calls \ {c} : call'[d] = call[d]
        /\ unsaved[t] \subseteq unsaved'[t]
    BY <1>15, <1>0 DEF DropFailure, TypeOK, InFlight, stepVars
  <2>2. CASE call[c].step = t /\ call[c].attempt = attempt[t]
    <3>1. SUFFICES ASSUME Claimed(t)' PROVE HasCall(t)'
      OBVIOUS
    <3>2. Claimed(t)
      BY <1>15, <3>1 DEF DropFailure, Claimed, leaseVars, stepVars
    <3>3. call[c].fence = fence
      BY <1>15, <2>2, <3>2 DEF DropFailure, AttemptHasFence, Claimed
    <3>4. owner = call[c].owner
      BY <1>15, <3>2, <3>3 DEF DropFailure, IInv, FenceNamesOneOwner, Claimed
    <3>5. OwnsAttempt(c)
      BY <2>2, <3>2, <3>3, <3>4 DEF OwnsAttempt, Owns, Claimed
    <3>6. call[c].signal # "stale_lease"
      BY <1>15, <1>0, <3>3 DEF DropFailure, StaleIsFenced, TypeOK
    <3>7. unsaved' = [unsaved EXCEPT ![t] = @ \cup {attempt[t]}]
      BY <1>15, <2>2, <3>5, <3>6 DEF DropFailure
    <3> QED
      BY <1>0, <2>1, <3>7 DEF HasCall, TypeOK
  <2>3. CASE call[c].step # t \/ call[c].attempt # attempt[t]
    <3>1. Claimed(t)' => Claimed(t)
      BY <1>15 DEF DropFailure, Claimed, leaseVars, stepVars, history
    <3> QED
      BY <2>1, <2>3, <3>1, HasCallKeptByOthers
  <2> QED
    BY <2>2, <2>3
<1>16. ASSUME NEW s \in Steps, Approve(s)
      PROVE  \A t \in Steps : Claimed(t)' => HasCall(t)'
  <2> TAKE t \in Steps
  <2>1. CallsLive /\ attempt' = attempt
    BY <1>16, <1>0 DEF Approve, CallsLive, stepVars, memoryVars, history
  <2>2. Claimed(t)' => Claimed(t)
    BY <1>16, <1>0 DEF Approve, TypeOK, Claimed, leaseVars, stepVars, memoryVars, history
  <2> QED
    BY <2>1, <2>2, HasCallKept
<1>17. ASSUME NEW s \in Steps, Deny(s)
      PROVE  \A t \in Steps : Claimed(t)' => HasCall(t)'
  <2> TAKE t \in Steps
  <2>1. CallsLive /\ attempt' = attempt
    BY <1>17, <1>0, AbortedFacts DEF Deny, TypeOK, CallsLive, stepVars, history
  <2>2. Claimed(t)' => Claimed(t)
    BY <1>17, <1>0 DEF Deny, TypeOK, Claimed, leaseVars, stepVars, history
  <2> QED
    BY <2>1, <2>2, HasCallKept
<1>18. ASSUME NEW s \in Steps, ExpireApproval(s)
      PROVE  \A t \in Steps : Claimed(t)' => HasCall(t)'
  <2> TAKE t \in Steps
  <2>1. CallsLive /\ attempt' = attempt
    BY <1>18, <1>0 DEF ExpireApproval, CallsLive, stepVars, memoryVars, history
  <2>2. Claimed(t)' => Claimed(t)
    BY <1>18, <1>0 DEF ExpireApproval, TypeOK, Claimed, leaseVars, stepVars, memoryVars, history
  <2> QED
    BY <2>1, <2>2, HasCallKept
<1>19. ASSUME NEW s \in Steps, NEW applied \in BOOLEAN, ReconcileEffect(s, applied)
      PROVE  \A t \in Steps : Claimed(t)' => HasCall(t)'
  <2> TAKE t \in Steps
  <2>1. CallsLive /\ attempt' = attempt
    BY <1>19, <1>0 DEF ReconcileEffect, CallsLive, stepVars, memoryVars, history
  <2>2. Claimed(t)' => Claimed(t)
    BY <1>19, <1>0 DEF ReconcileEffect, TypeOK, Claimed, leaseVars, stepVars, memoryVars,
       history
  <2> QED
    BY <2>1, <2>2, HasCallKept
<1>20. ASSUME ExpireLease
      PROVE  \A t \in Steps : Claimed(t)' => HasCall(t)'
  <2> TAKE t \in Steps
  <2>1. CallsLive /\ attempt' = attempt
    BY <1>20, <1>0 DEF ExpireLease, CallsLive, stepVars, memoryVars, history
  <2>2. Claimed(t)' => Claimed(t)
    BY <1>20, <1>0 DEF ExpireLease, TypeOK, Claimed, leaseVars, stepVars, memoryVars, history
  <2> QED
    BY <2>1, <2>2, HasCallKept
<1>21. ASSUME RotateIdentity
      PROVE  \A t \in Steps : Claimed(t)' => HasCall(t)'
  <2> TAKE t \in Steps
  <2>1. CallsLive /\ attempt' = attempt
    BY <1>21, <1>0 DEF RotateIdentity, CallsLive, stepVars, memoryVars, history
  <2>2. Claimed(t)' => Claimed(t)
    BY <1>21, <1>0 DEF RotateIdentity, TypeOK, Claimed, leaseVars, stepVars, memoryVars, history
  <2> QED
    BY <2>1, <2>2, HasCallKept
<1>22. ASSUME Cancel
      PROVE  \A t \in Steps : Claimed(t)' => HasCall(t)'
  <2> TAKE t \in Steps
  <2>1. CallsLive /\ attempt' = attempt
    BY <1>22, <1>0, AbortedFacts DEF Cancel, TypeOK, CallsLive, stepVars, history
  <2>2. Claimed(t)' => Claimed(t)
    BY <1>22, <1>0 DEF Cancel, TypeOK, Claimed, leaseVars, stepVars, history, CancelledState
  <2> QED
    BY <2>1, <2>2, HasCallKept
<1>23. ASSUME Crash
      PROVE  \A t \in Steps : Claimed(t)' => HasCall(t)'
  <2>1. owner' \notin Owners
    BY <1>23, IntentAssumption DEF Crash
  <2> QED
    BY <2>1 DEF Claimed
<1>24. ASSUME Recover
      PROVE  \A t \in Steps : Claimed(t)' => HasCall(t)'
  <2> TAKE t \in Steps
  <2>1. CallsLive /\ attempt' = attempt
    BY <1>24 DEF Recover, CallsLive, history
  <2>2. Claimed(t)' => Claimed(t)
    BY <1>24, IntentAssumption DEF Recover, Claimed, leaseVars
  <2> QED
    BY <2>1, <2>2, HasCallKept
<1>25. ASSUME ReconcileInterrupted
      PROVE  \A t \in Steps : Claimed(t)' => HasCall(t)'
  <2> TAKE t \in Steps
  <2>1. CallsLive /\ attempt' = attempt
    BY <1>25, <1>0 DEF ReconcileInterrupted, CallsLive, stepVars, memoryVars, history
  <2>2. Claimed(t)' => Claimed(t)
    BY <1>25, <1>0 DEF ReconcileInterrupted, TypeOK, Claimed, leaseVars, stepVars, memoryVars,
       history
  <2> QED
    BY <2>1, <2>2, HasCallKept
<1>26. ASSUME Open
      PROVE  \A t \in Steps : Claimed(t)' => HasCall(t)'
  <2> TAKE t \in Steps
  <2>1. CallsLive /\ attempt' = attempt
    BY <1>26, <1>0 DEF Open, CallsLive, stepVars, memoryVars, history
  <2>2. Claimed(t)' => Claimed(t)
    BY <1>26, <1>0 DEF Open, TypeOK, Claimed, leaseVars, stepVars, memoryVars, history
  <2> QED
    BY <2>1, <2>2, HasCallKept
<1>27. ASSUME UNCHANGED vars
      PROVE  \A t \in Steps : Claimed(t)' => HasCall(t)'
  <2> TAKE t \in Steps
  <2>1. CallsLive /\ attempt' = attempt /\ (Claimed(t)' => Claimed(t))
    BY <1>27 DEF vars, CallsLive, Claimed, leaseVars, stepVars, memoryVars, history
  <2> QED
    BY <2>1, HasCallKept
<1> QED
  BY <1>1, <1>2, <1>3, <1>4, <1>5, <1>6, <1>7, <1>8, <1>9, <1>10, <1>11, <1>12, <1>13, <1>14,
     <1>15, <1>16, <1>17, <1>18, <1>19, <1>20, <1>21, <1>22, <1>23, <1>24, <1>25, <1>26, <1>27
  DEF Next, Lease, Admission, Execution, Decision

CallInv == IInv /\ StaleIsFenced /\ AttemptHasFence /\ FencesBound /\ InFlightHasACall

\* A driver that keeps its lease is never answered "already in flight" for a step
\* nobody is executing, unless the store refused to save how its last call failed.
THEOREM NoStepIsAbandoned == Spec => []InFlightHasACall
<1>1. Init => CallInv
  <2>1. Init => StaleIsFenced /\ AttemptHasFence /\ FencesBound /\ InFlightHasACall
    BY DEF Init, StaleIsFenced, AttemptHasFence, FencesBound, InFlightHasACall
  <2> QED
    BY <2>1, IInvInit DEF CallInv
<1>2. CallInv /\ [Next]_vars => CallInv'
  <2> SUFFICES ASSUME CallInv, [Next]_vars PROVE CallInv'
    OBVIOUS
  <2>1. IInv'
    BY IInvStep DEF CallInv
  <2>2. StaleIsFenced' /\ AttemptHasFence' /\ FencesBound'
    BY FencesStep DEF CallInv
  <2>3. \A t \in Steps : Claimed(t)' => HasCall(t)'
    BY InFlightStep DEF CallInv
  <2>4. InFlightHasACall'
    BY <2>3 DEF InFlightHasACall, Claimed, HasCall
  <2> QED
    BY <2>1, <2>2, <2>4 DEF CallInv
<1>3. CallInv => InFlightHasACall
  BY DEF CallInv
<1> QED
  BY <1>1, <1>2, <1>3, PTL DEF Spec

===============================================================================
