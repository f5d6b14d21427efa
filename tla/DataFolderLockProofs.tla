------------------------- MODULE DataFolderLockProofs -------------------------
(***************************************************************************)
(* Proofs about DataFolderLock, for every number of programs: where the    *)
(* platform reports start times, claims that do not overlap give the       *)
(* folder to one owner, and the lock file names it.                        *)
(***************************************************************************)
EXTENDS DataFolderLock, TLAPS

\* Claims have not overlapped, and the platform reports start times.
InTurn == ~overlapped /\ StartTimes

OneClaimant ==
  \A p, q \in Processes : pc[p] \in Claiming /\ pc[q] \in Claiming => p = q

\* The owner's record is the lock file.
OwnerNamed ==
  \A p \in Processes : pc[p] \in Owning => file = [by |-> p, text |-> "record"]

\* A lock being inspected is still there, or its owner has taken it away.
InspectsFile ==
  \A p \in Processes : pc[p] = "inspecting" => file \in {seen[p], NoFile}

\* Past the inspection nobody owns the folder.
ClaimantIsAlone ==
  \A p, q \in Processes :
    pc[p] \in {"removing", "creating", "writing"} => pc[q] \notin Owning

\* The claimant's own file waits for its record.
WritesOwnFile ==
  \A p \in Processes : pc[p] = "writing" => file = [by |-> p, text |-> "empty"]

LockInv ==
  /\ LockTypeOK
  /\ InTurn => /\ OneClaimant /\ OwnerNamed /\ InspectsFile
               /\ ClaimantIsAlone /\ WritesOwnFile

\* The folder starts without a lock and without claims.
LEMMA LockInit == Init => LockInv
BY DEF Init, LockInv, LockTypeOK, OneClaimant, OwnerNamed, InspectsFile, ClaimantIsAlone,
       WritesOwnFile, Claiming, Owning

\* Every action keeps the type of the state.
LEMMA LockTypeStep ==
  ASSUME LockTypeOK, [Next]_lockVars
  PROVE  LockTypeOK'
<1> USE DEF LockTypeOK, LockFiles, Claiming, Owning
<1>1. ASSUME NEW p \in Processes, ReadLock(p)
      PROVE  LockTypeOK'
  <2>1. overlapped' \in BOOLEAN
    BY <1>1 DEF ReadLock
  <2> QED
    BY <1>1, <2>1 DEF ReadLock
<1>2. ASSUME NEW p \in Processes, Refuse(p) \/ FindStale(p)
      PROVE  LockTypeOK'
  BY <1>2 DEF Refuse, FindStale
<1>3. ASSUME NEW p \in Processes, Remove(p) \/ Create(p) \/ CreateRefused(p)
      PROVE  LockTypeOK'
  BY <1>3 DEF Remove, Create, CreateRefused
<1>4. ASSUME NEW p \in Processes, WriteRecord(p)
      PROVE  LockTypeOK'
  BY <1>4 DEF WriteRecord
<1>5. ASSUME NEW p \in Processes, Listen(p) \/ Release(p) \/ Die(p)
      PROVE  LockTypeOK'
  BY <1>5 DEF Listen, Release, Die
<1>6. ASSUME UNCHANGED lockVars
      PROVE  LockTypeOK'
  BY <1>6 DEF lockVars
<1> QED
  BY <1>1, <1>2, <1>3, <1>4, <1>5, <1>6 DEF Next, Claim

\* While claims do not overlap, every action keeps the folder with one owner.
LEMMA LockStep ==
  ASSUME LockInv, [Next]_lockVars
  PROVE  LockInv'
<1> DEFINE Parts == OneClaimant /\ OwnerNamed /\ InspectsFile /\ ClaimantIsAlone /\ WritesOwnFile
<1>1. LockTypeOK /\ LockTypeOK'
  BY LockTypeStep DEF LockInv
<1> SUFFICES ASSUME InTurn' PROVE Parts'
  BY <1>1 DEF LockInv
<1>2. InTurn
  <2>1. ASSUME NEW p \in Processes, ReadLock(p)
        PROVE  overlapped => overlapped'
    BY <2>1 DEF ReadLock
  <2>2. CASE ~\E p \in Processes : ReadLock(p)
    BY <2>2 DEF Next, Claim, lockVars, Refuse, FindStale, Remove, Create, CreateRefused,
                WriteRecord, Listen, Release, Die, InTurn
  <2> QED
    BY <2>1, <2>2 DEF InTurn
<1>3. Parts
  BY <1>2 DEF LockInv
<1> USE DEF LockTypeOK, OneClaimant, OwnerNamed, InspectsFile, ClaimantIsAlone, WritesOwnFile,
            Claiming, Owning
<1>4. ASSUME NEW p \in Processes, ReadLock(p)
      PROVE  Parts'
  <2>1. \A q \in Processes : pc[q] \notin Claiming
    BY <1>4 DEF ReadLock, InTurn
  <2>2. file = NoFile => \A q \in Processes : pc[q] \notin Owning
    BY <1>3, LockAssumption
  <2>3. /\ file' = file /\ seen'[p] = file
        /\ pc'[p] = IF file = NoFile THEN "creating" ELSE "inspecting"
        /\ \A q \in Processes \ {p} : pc'[q] = pc[q] /\ seen'[q] = seen[q]
    BY <1>1, <1>4 DEF ReadLock
  <2> QED
    BY <1>1, <1>3, <2>1, <2>2, <2>3
<1>5. ASSUME NEW p \in Processes, Refuse(p)
      PROVE  Parts'
  BY <1>1, <1>3, <1>5 DEF Refuse
<1>6. ASSUME NEW p \in Processes, FindStale(p)
      PROVE  Parts'
  <2>1. ASSUME NEW q \in Processes, pc[q] \in Owning
        PROVE  FALSE
    <3>1. file = [by |-> q, text |-> "record"] /\ file # NoFile
      BY <1>1, <1>3, <2>1, LockAssumption DEF LockFiles
    <3>2. seen[p] = file
      BY <1>3, <1>6, <3>1 DEF FindStale
    <3> QED
      BY <1>2, <1>6, <2>1, <3>1, <3>2 DEF FindStale, Held, Alive, InTurn
  <2> QED
    BY <1>1, <1>3, <1>6, <2>1 DEF FindStale
<1>7. ASSUME NEW p \in Processes, Remove(p)
      PROVE  Parts'
  BY <1>1, <1>3, <1>7 DEF Remove
<1>8. ASSUME NEW p \in Processes, Create(p)
      PROVE  Parts'
  BY <1>1, <1>3, <1>8 DEF Create
<1>9. ASSUME NEW p \in Processes, CreateRefused(p)
      PROVE  Parts'
  BY <1>1, <1>3, <1>9 DEF CreateRefused
<1>10. ASSUME NEW p \in Processes, WriteRecord(p)
      PROVE  Parts'
  <2>1. file' = [by |-> p, text |-> "record"]
    BY <1>3, <1>10, LockAssumption DEF WriteRecord
  <2> QED
    BY <1>1, <1>3, <1>10, <2>1 DEF WriteRecord
<1>11. ASSUME NEW p \in Processes, Listen(p)
      PROVE  Parts'
  BY <1>1, <1>3, <1>11 DEF Listen
<1>12. ASSUME NEW p \in Processes, Release(p)
      PROVE  Parts'
  <2>1. \A q \in Processes \ {p} : pc[q] \notin Owning
    BY <1>3, <1>12 DEF Release
  <2>2. \A q \in Processes : pc[q] \notin {"removing", "creating", "writing"}
    BY <1>3, <1>12 DEF Release
  <2> QED
    BY <1>1, <1>3, <1>12, <2>1, <2>2 DEF Release
<1>13. ASSUME NEW p \in Processes, Die(p)
      PROVE  Parts'
  BY <1>1, <1>3, <1>13 DEF Die
<1>14. ASSUME UNCHANGED lockVars
      PROVE  Parts'
  BY <1>3, <1>14 DEF lockVars
<1> QED
  BY <1>4, <1>5, <1>6, <1>7, <1>8, <1>9, <1>10, <1>11, <1>12, <1>13, <1>14 DEF Next, Claim

\* It holds throughout.
LEMMA LockInvariance == Spec => []LockInv
BY LockInit, LockStep, PTL DEF Spec

\* The lock file and every process keep their types, whether claims overlap or not, and
\* a process that inspects a lock read one (readLock).
THEOREM LockTypeCorrect == Spec => []LockTypeOK
<1>1. LockInv => LockTypeOK
  BY DEF LockInv
<1> QED
  BY <1>1, LockInvariance, PTL

\* Programs that claim in turn, however they stop or crash, never share the folder.
THEOREM FolderHasOneOwner ==
  ASSUME StartTimes
  PROVE  Spec => []OneOwnerInTurn
<1>1. LockInv => OneOwnerInTurn
  BY DEF LockInv, InTurn, OwnerNamed, OneOwnerInTurn, OneOwner
<1> QED
  BY <1>1, LockInvariance, PTL

\* The next starter always finds the owner's record.
THEOREM FolderNamesItsOwner ==
  ASSUME StartTimes
  PROVE  Spec => []OwnerIsNamed
<1>1. LockInv => OwnerIsNamed
  BY DEF LockInv, InTurn, OwnerNamed, OwnerIsNamed
<1> QED
  BY <1>1, LockInvariance, PTL
===============================================================================
