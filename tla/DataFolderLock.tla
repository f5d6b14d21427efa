---------------------------- MODULE DataFolderLock ----------------------------
(***************************************************************************)
(* Who owns a data folder (server/lock.ts): claimDataFolder reads the lock *)
(* file, decides whether the process it names still runs, removes a stale  *)
(* one, creates its own exclusively and writes its record into it, each a  *)
(* file-system call of its own; release unlinks whatever is there.         *)
(*                                                                         *)
(* A process is one life of a program: its pid and start time never name   *)
(* another one.  A lock file is known by the process that created it, so a *)
(* record written to an unlinked file reaches no reader.                   *)
(***************************************************************************)
EXTENDS FiniteSets

CONSTANTS
  Processes,    \* programs started on the folder, each once
  NoFile,       \* no lock file
  StartTimes    \* whether the platform reports the start time of a pid

ASSUME LockAssumption ==
  /\ StartTimes \in BOOLEAN
  /\ NoFile \notin [by : Processes, text : {"empty", "record"}]

VARIABLES
  file,   \* the lock file: who created it, and whether it holds their record
  pc,     \* where each process stands
  seen,   \* the lock file each process read
  overlapped  \* history: a claim began while another was under way

lockVars == <<file, pc, seen, overlapped>>

LockFiles == [by : Processes, text : {"empty", "record"}]
Claiming == {"inspecting", "removing", "creating", "writing"}
Owning == {"claimed", "listening"}

Alive(p) == pc[p] \in Claiming \cup Owning

\* Mutants of Held: only the port is asked; every record holds the folder.
HeldByPort(f) == f.text = "record" /\ pc[f.by] = "listening"
HeldByRecord(f) == f.text = "record"

\* inspectLock: an unreadable record or a dead pid does not hold the folder.  A
\* running pid does when its start time matches; where the platform reports none,
\* a port that nothing listens on yet says it does not.
Held(f) ==
  /\ f.text = "record"
  /\ Alive(f.by)
  /\ StartTimes \/ pc[f.by] = "listening"

-------------------------------------------------------------------------------
\* Mutant of ReadLock: a missing lock file is inspected like any other.
ReadLockAlways(p) ==
  /\ pc[p] = "off"
  /\ seen' = [seen EXCEPT ![p] = file]
  /\ pc' = [pc EXCEPT ![p] = "inspecting"]
  /\ overlapped' = (overlapped \/ \E q \in Processes : pc[q] \in Claiming)
  /\ UNCHANGED file

\* claimDataFolder: readLock.
ReadLock(p) ==
  /\ pc[p] = "off"
  /\ seen' = [seen EXCEPT ![p] = file]
  /\ pc' = [pc EXCEPT ![p] = IF file = NoFile THEN "creating" ELSE "inspecting"]
  /\ overlapped' = (overlapped \/ \E q \in Processes : pc[q] \in Claiming)
  /\ UNCHANGED file

\* Mutant of Refuse: the refused starter cleans up the lock it met.
RefuseAndClear(p) ==
  /\ pc[p] = "inspecting"
  /\ Held(seen[p])
  /\ file' = NoFile
  /\ pc' = [pc EXCEPT ![p] = "refused"]
  /\ UNCHANGED <<seen, overlapped>>

\* DataFolderInUse.
Refuse(p) ==
  /\ pc[p] = "inspecting"
  /\ Held(seen[p])
  /\ pc' = [pc EXCEPT ![p] = "refused"]
  /\ UNCHANGED <<file, seen, overlapped>>

\* The lock read is stale.
FindStale(p) ==
  /\ pc[p] = "inspecting"
  /\ ~Held(seen[p])
  /\ pc' = [pc EXCEPT ![p] = "removing"]
  /\ UNCHANGED <<file, seen, overlapped>>

\* removeLock: whatever is there by now is unlinked.
Remove(p) ==
  /\ pc[p] = "removing"
  /\ file' = NoFile
  /\ pc' = [pc EXCEPT ![p] = "creating"]
  /\ UNCHANGED <<seen, overlapped>>

\* open(lockPath, 'wx').
Create(p) ==
  /\ pc[p] = "creating"
  /\ file = NoFile
  /\ file' = [by |-> p, text |-> "empty"]
  /\ pc' = [pc EXCEPT ![p] = "writing"]
  /\ UNCHANGED <<seen, overlapped>>

\* Mutant of CreateRefused: the claim waits for the file to go away.
CreateWaits(p) == pc[p] = "creating" /\ file # NoFile /\ UNCHANGED lockVars

\* EEXIST: someone else created it first.
CreateRefused(p) ==
  /\ pc[p] = "creating"
  /\ file # NoFile
  /\ pc' = [pc EXCEPT ![p] = "refused"]
  /\ UNCHANGED <<file, seen, overlapped>>

\* The record is written through the open handle, and the folder is owned.
WriteRecord(p) ==
  /\ pc[p] = "writing"
  /\ file' = IF file # NoFile /\ file.by = p THEN [file EXCEPT !.text = "record"] ELSE file
  /\ pc' = [pc EXCEPT ![p] = "claimed"]
  /\ UNCHANGED <<seen, overlapped>>

\* The service opens its port.
Listen(p) ==
  /\ pc[p] = "claimed"
  /\ pc' = [pc EXCEPT ![p] = "listening"]
  /\ UNCHANGED <<file, seen, overlapped>>

\* release, on a stop, a failed start or a port in use: unlink whatever is there.
Release(p) ==
  /\ pc[p] \in Owning
  /\ file' = NoFile
  /\ pc' = [pc EXCEPT ![p] = "gone"]
  /\ UNCHANGED <<seen, overlapped>>

\* The process dies, or writing its record fails: the file stays as it is.
Die(p) ==
  /\ Alive(p)
  /\ pc' = [pc EXCEPT ![p] = "gone"]
  /\ UNCHANGED <<file, seen, overlapped>>

-------------------------------------------------------------------------------
Init ==
  /\ file = NoFile
  /\ pc = [p \in Processes |-> "off"]
  /\ seen = [p \in Processes |-> NoFile]
  /\ overlapped = FALSE

\* The steps of a claim already begun.
Claim(p) ==
  Refuse(p) \/ FindStale(p) \/ Remove(p) \/ Create(p) \/ CreateRefused(p) \/ WriteRecord(p)

Next ==
  \E p \in Processes : ReadLock(p) \/ Claim(p) \/ Listen(p) \/ Release(p) \/ Die(p)

\* A program that began to claim goes on with it unless it dies.
Fairness == \A p \in Processes : WF_lockVars(Claim(p))

Spec == Init /\ [][Next]_lockVars /\ Fairness

-------------------------------------------------------------------------------
\* Properties.

\* The lock file and every process keep their types, and a process that inspects
\* a lock read one.
LockTypeOK ==
  /\ file \in LockFiles \cup {NoFile}
  /\ pc \in [Processes -> {"off", "refused", "gone"} \cup Claiming \cup Owning]
  /\ seen \in [Processes -> LockFiles \cup {NoFile}]
  /\ \A p \in Processes : pc[p] = "inspecting" => seen[p] # NoFile
  /\ overlapped \in BOOLEAN

\* At most one process owns the folder.
OneOwner == \A p, q \in Processes : pc[p] \in Owning /\ pc[q] \in Owning => p = q

\* While claims do not overlap, whatever crashes and stops fall between them, at
\* most one process owns the folder.
OneOwnerInTurn == ~overlapped => OneOwner

\* While claims do not overlap, the lock file names the process that owns the
\* folder, so the next starter finds it: no release, stale removal or half-written
\* record has replaced it.
OwnerIsNamed ==
  ~overlapped =>
    \A p \in Processes : pc[p] \in Owning => file = [by |-> p, text |-> "record"]

\* A crash never locks the folder for good: a starter that meets the lock of a
\* process that is gone, or a half-written one, ends up owning the folder unless
\* it dies itself or claims overlap.
StaleLockYields ==
  \A p \in Processes :
    pc[p] = "inspecting" /\ ~(seen[p].text = "record" /\ Alive(seen[p].by))
      ~> pc[p] \in Owning \cup {"gone"} \/ overlapped

\* A start never waits for the folder: every claim ends owning it, refused or dead,
\* overlapping or not.
ClaimsEnd == \A p \in Processes : pc[p] \in Claiming ~> pc[p] \notin Claiming
===============================================================================
