----------------------------- MODULE ProjectStore -----------------------------
(***************************************************************************)
(* How a project's files are changed (server/store.ts): every change runs  *)
(* under one queue, an approved change is first decided and saved, then    *)
(* prepared as a journal, then written file by file, then saved again, and *)
(* recovery replays a journal that was left behind.  Other programs edit   *)
(* the files meanwhile, a durable write may fail, and the process may stop *)
(* between any two of them.                                                *)
(*                                                                         *)
(* A project image (state.json) is reduced to its proposals and to the     *)
(* revocation of the task scope that may decide them in place of the       *)
(* person.  The text of a file is known by who wrote it.                   *)
(***************************************************************************)
EXTENDS Naturals, FiniteSets

CONSTANTS
  Needs,       \* the proposals a helper makes, one at a time
  Files,
  Target,      \* the files each proposal changes
  NoNeed, NoFile, NoJournal,
  MaxEdits,    \* edits by other programs
  MaxSaves,    \* saves by the person that name no proposal
  MaxFaults,   \* durable writes that fail
  MaxCrashes

ASSUME StoreAssumption ==
  /\ Target \in [Needs -> (SUBSET Files) \ {{}}]
  /\ NoNeed \notin Needs /\ NoFile \notin Files
  /\ Needs \cap {"old", "saved", "outside"} = {}
  /\ {MaxEdits, MaxSaves, MaxFaults, MaxCrashes} \subseteq Nat

VARIABLES
  disk,     \* the image in state.json
  mem,      \* the image in memory
  pending,  \* the journals in pending/
  file,     \* the text of each file, and how it got there
  base,     \* the texts each proposal was made from
  run,      \* the proposal whose run is active in memory
  lease,    \* the task scope is live: issued by this process and not expired
  latch,    \* recoveryRequired
  op,       \* where the one locked action stands
  wrote,    \* history: the files replaced in the name of each proposal
  late,     \* history: replacements under a task scope that had ended
  count     \* how many edits, saves, faults and crashes there were

storeVars == <<disk, mem, pending, file, base, run, lease, latch, op, wrote, late, count>>

Texts == Needs \cup {"old", "saved", "outside"}
Images ==
  [needs : [Needs -> [state : {"none", "open", "go-ahead", "declined", "expired"},
                      by : {"none", "person", "scope"},
                      execution : {"none", "pending", "declined", "applied", "conflicted",
                                   "not-applied"},
                      conflicts : SUBSET Files]],
   revoked : BOOLEAN]

Unborn == [state |-> "none", by |-> "none", execution |-> "none", conflicts |-> {}]

ScopeLive == lease /\ ~mem.revoked
Texted(fs) == [f \in fs |-> file[f].text]

\* Whether what the proposal was decided by still stands when a file is written.
Authorized(j) ==
  (j.need # NoNeed /\ j.image.needs[j.need].by = "scope") => ScopeLive

At(at) ==
  [at |-> at, by |-> "none", need |-> NoNeed, journal |-> NoJournal, todo |-> {},
   file |-> NoFile, live |-> TRUE, conflicts |-> {}]
Recovery(by) == [At("scan") EXCEPT !.by = by]
Writing(n, fs) == [At("prepare") EXCEPT !.by = "write", !.need = n, !.todo = fs]

Counted(kind) == count' = [count EXCEPT ![kind] = @ + 1]
Decision(image, n, state, by, execution) ==
  [image EXCEPT !.needs[n] = [state |-> state, by |-> by, execution |-> execution,
                              conflicts |-> {}]]
Settled(image, n, execution, conflicts) ==
  [image EXCEPT !.needs[n].execution = execution, !.needs[n].conflicts = conflicts]

-------------------------------------------------------------------------------
\* A locked action starts when the queue is free and no recovery is owed.
Free == op.at = "idle" /\ ~latch

\* The action has changed memory and saves it: the next step follows, or the save
\* fails and locked recovers and reloads what the last save left.
Save(image, next) ==
  /\ mem' = image
  /\ \/ disk' = image /\ op' = next /\ UNCHANGED <<latch, count>>
     \/ /\ count.faults < MaxFaults
        /\ Counted("faults")
        /\ latch' = TRUE
        /\ op' = Recovery("call")
        /\ UNCHANGED disk

\* A run reads its files and proposes new texts for them; the proposal is saved.
Propose(n) ==
  /\ Free
  /\ run = NoNeed
  /\ mem.needs[n].state = "none"
  /\ base' = [base EXCEPT ![n] = Texted(Target[n])]
  /\ Save(Decision(mem, n, "open", "none", "none"), At("idle"))
  /\ run' = IF disk' = disk THEN NoNeed ELSE n
  /\ UNCHANGED <<pending, file, lease, wrote, late>>

Decidable(n) == Free /\ run = n /\ mem.needs[n].state = "open"

\* The person goes ahead: the files are still what the proposal shows, and the
\* decision is saved before anything is written.
Approve(n) ==
  /\ Decidable(n)
  /\ Texted(Target[n]) = base[n]
  /\ Save(Decision(mem, n, "go-ahead", "person", "pending"), Writing(n, Target[n]))
  /\ run' = IF disk' = disk THEN run ELSE NoNeed
  /\ UNCHANGED <<pending, file, base, lease, wrote, late>>

\* The task scope covers the proposal.
ApproveByScope(n) ==
  /\ Decidable(n)
  /\ ScopeLive
  /\ Save(Decision(mem, n, "go-ahead", "scope", "pending"), Writing(n, Target[n]))
  /\ run' = IF disk' = disk THEN run ELSE NoNeed
  /\ UNCHANGED <<pending, file, base, lease, wrote, late>>

Decline(n) ==
  /\ Decidable(n)
  /\ Save(Decision(mem, n, "declined", "person", "declined"), At("idle"))
  /\ run' = IF disk' = disk THEN run ELSE NoNeed
  /\ UNCHANGED <<pending, file, base, lease, wrote, late>>

\* fail and stop: the run ends and its open proposal expires.  The run is gone
\* from memory before the save, whatever becomes of the save.
EndRun(n) ==
  /\ Decidable(n) \/ (op.at = "stop" /\ run = n /\ mem.needs[n].state = "open")
  /\ Save([mem EXCEPT !.needs[n].state = "expired"], At("idle"))
  /\ run' = NoNeed
  /\ UNCHANGED <<pending, file, base, lease, wrote, late>>

\* The person saves files of the project: recorded like any write, without a proposal.
SaveFile(f) ==
  /\ Free
  /\ count.saves < MaxSaves
  /\ Counted("saves")
  /\ op' = Writing(NoNeed, {f})
  /\ UNCHANGED <<disk, mem, pending, file, base, run, lease, latch, wrote, late>>

\* The scope is revoked: the live lease goes first, then the saved generation, and
\* the active run is stopped.
Revoke ==
  /\ Free
  /\ ~mem.revoked
  /\ lease' = FALSE
  /\ Save([mem EXCEPT !.revoked = TRUE], IF run = NoNeed THEN At("idle") ELSE At("stop"))
  /\ UNCHANGED <<pending, file, base, run, wrote, late>>

-------------------------------------------------------------------------------
\* Mutant of Journal: completion is left to a later save.
JournalUnsettled(n, fs) ==
  [need |-> n, before |-> Texted(fs), text |-> IF n = NoNeed THEN "saved" ELSE n,
   image |-> mem]

\* The journal of a write: both texts of each file and the image to save afterwards,
\* in which the proposal is already settled as applied.
Journal(n, fs) ==
  [need |-> n, before |-> Texted(fs), text |-> IF n = NoNeed THEN "saved" ELSE n,
   image |-> IF n = NoNeed THEN mem ELSE Settled(mem, n, "applied", {})]

\* What a locked action that throws leaves: a prepared write is first recovered
\* inside writeRecorded, then locked sets the latch, recovers and reloads; a
\* recovery that throws leaves the latch set, or ends the launch.
Throws ==
  \/ op.by = "write" /\ op.at # "prepare" /\ op' = Recovery("rescue") /\ UNCHANGED latch
  \/ op.by = "write" /\ op.at = "prepare" /\ op' = Recovery("call") /\ latch' = TRUE
  \/ op.by = "rescue" /\ op' = Recovery("call") /\ latch' = TRUE
  \/ op.by = "call" /\ op' = At("idle") /\ latch' = TRUE
  \/ op.by = "launch" /\ op' = At("down") /\ UNCHANGED latch

\* writeRecorded up to the journal: the files hold what the write was made from,
\* the scope still stands, both texts and the intended image are made durable.
Prepare ==
  /\ op.at = "prepare"
  /\ LET n == op.need
         j == Journal(n, op.todo)
     IN IF (n # NoNeed => Texted(op.todo) = base[n]) /\ Authorized(j)
          THEN /\ pending' = pending \cup {j}
               /\ op' = [op EXCEPT !.at = "look", !.journal = j]
               /\ file' = [f \in Files |->
                             IF f \in op.todo THEN [file[f] EXCEPT !.how = "known"]
                                              ELSE file[f]]
               /\ UNCHANGED latch
          ELSE Throws /\ UNCHANGED <<pending, file>>
  /\ UNCHANGED <<disk, mem, base, run, lease, wrote, late, count>>

\* Mutant of Look: the text is not compared with what the write was made from.
LookAnyText(f) ==
  /\ op.at = "look"
  /\ f \in op.todo
  /\ IF Authorized(op.journal)
       THEN op' = [op EXCEPT !.at = "replace", !.file = f] /\ UNCHANGED latch
       ELSE Throws
  /\ UNCHANGED <<disk, mem, pending, file, base, run, lease, wrote, late, count>>

\* Mutant of Look: the scope is checked when the write is prepared only.
LookAnyScope(f) ==
  /\ op.at = "look"
  /\ f \in op.todo
  /\ LET j == op.journal
     IN CASE file[f].text = j.text -> op' = [op EXCEPT !.todo = @ \ {f}] /\ UNCHANGED latch
          [] file[f].text = j.before[f] /\ j.before[f] # j.text
               -> op' = [op EXCEPT !.at = "replace", !.file = f] /\ UNCHANGED latch
          [] OTHER -> Throws
  /\ UNCHANGED <<disk, mem, pending, file, base, run, lease, wrote, late, count>>

\* applyWrite up to the rename: a file that already holds the text is passed over,
\* one that holds neither text stops the write, and so does a scope that ended.
Look(f) ==
  /\ op.at = "look"
  /\ f \in op.todo
  /\ LET j == op.journal
     IN IF ~Authorized(j) \/ file[f].text \notin {j.text, j.before[f]}
          THEN Throws
          ELSE /\ op' = IF file[f].text = j.text
                          THEN [op EXCEPT !.todo = @ \ {f}]
                          ELSE [op EXCEPT !.at = "replace", !.file = f]
               /\ UNCHANGED latch
  /\ UNCHANGED <<disk, mem, pending, file, base, run, lease, wrote, late, count>>

\* The rename; nothing is read between the last look and this.
Replace ==
  /\ op.at = "replace"
  /\ LET j == op.journal
     IN /\ file' = [file EXCEPT ![op.file] = [text |-> j.text, how |-> "known"]]
        /\ wrote' = IF j.need = NoNeed THEN wrote
                     ELSE [wrote EXCEPT ![j.need] = @ \cup {op.file}]
        /\ late' = IF Authorized(j) THEN late ELSE late + 1
  /\ op' = [op EXCEPT !.at = IF op.by = "write" THEN "look" ELSE "examine",
                      !.todo = @ \ {op.file}, !.file = NoFile]
  /\ UNCHANGED <<disk, mem, pending, base, run, lease, latch, count>>

\* Mutant of SaveOutcome: the image is saved while files are still to be written.
SaveOutcomeEarly ==
  /\ op.at = "look"
  /\ disk' = op.journal.image
  /\ mem' = op.journal.image
  /\ op' = [op EXCEPT !.at = "unlink"]
  /\ UNCHANGED <<pending, file, base, run, lease, latch, wrote, late, count>>

\* Mutant of SaveOutcome: the journal is removed before the image is saved.
SaveOutcomeUnjournalled ==
  /\ op.at = "look"
  /\ op.todo = {}
  /\ pending' = pending \ {op.journal}
  /\ op' = [op EXCEPT !.at = "unlink", !.journal = NoJournal]
  /\ UNCHANGED <<disk, mem, file, base, run, lease, latch, wrote, late, count>>

\* All files are written: the intended image is saved.
SaveOutcome ==
  /\ op.at = "look"
  /\ op.todo = {}
  /\ disk' = op.journal.image
  /\ mem' = op.journal.image
  /\ op' = [op EXCEPT !.at = "unlink"]
  /\ UNCHANGED <<pending, file, base, run, lease, latch, wrote, late, count>>

\* Mutant of Unlink: recovery keeps the journal it has finished.
UnlinkKeepsJournal ==
  /\ op.at = "unlink"
  /\ pending' = pending \ {op.journal}
  /\ op' = IF op.by = "write" THEN At("idle") ELSE [op EXCEPT !.at = "scan"]
  /\ UNCHANGED <<disk, mem, file, base, run, lease, latch, wrote, late, count>>

\* The journal is removed.
Unlink ==
  /\ op.at = "unlink"
  /\ pending' = pending \ {op.journal}
  /\ op' = IF op.by = "write" THEN At("idle") ELSE Recovery(op.by)
  /\ UNCHANGED <<disk, mem, file, base, run, lease, latch, wrote, late, count>>

-------------------------------------------------------------------------------
\* recover's check of a journal against the image in memory.
\* That its writes are the ones of its History entry is not asked: both are one here.
Consistent(j) ==
  IF j.need = NoNeed
    THEN \A n \in Needs : j.image.needs[n].execution = "applied"
                             => mem.needs[n].execution # "pending"
    ELSE /\ j.image.needs[j.need].execution = "applied"
         /\ mem.needs[j.need].by = j.image.needs[j.need].by

\* recover takes the next journal, and asks once whether its scope still stands.
\* With none left, a rescue rethrows what stopped the write; otherwise locked
\* reloads, which a launch has already done.
Scan ==
  /\ op.at = "scan"
  /\ \/ /\ pending = {}
        /\ \/ op.by = "rescue" /\ Throws
           \/ op.by = "call" /\ op' = [op EXCEPT !.at = "reload"] /\ UNCHANGED latch
           \/ op.by = "launch" /\ op' = [op EXCEPT !.at = "interrupt"] /\ UNCHANGED latch
     \/ \E j \in pending :
          IF Consistent(j)
            THEN /\ op' = [op EXCEPT !.at = "examine", !.journal = j, !.need = j.need,
                                     !.todo = DOMAIN j.before, !.live = Authorized(j)]
                 /\ UNCHANGED latch
            ELSE Throws
  /\ UNCHANGED <<disk, mem, pending, file, base, run, lease, wrote, late, count>>

\* recover, one file: written already, still to be written under a decision that
\* stands, or kept as it is and reported as a conflict.
Examine(f) ==
  /\ op.at = "examine"
  /\ f \in op.todo
  /\ LET j == op.journal
     IN CASE file[f].text = j.text
               -> op' = [op EXCEPT !.todo = @ \ {f}] /\ UNCHANGED latch
          [] file[f].text = j.before[f] /\ j.before[f] # j.text /\ op.live
               -> IF Authorized(j)
                    THEN op' = [op EXCEPT !.at = "replace", !.file = f] /\ UNCHANGED latch
                    ELSE Throws
          [] OTHER
               -> /\ op' = [op EXCEPT !.todo = @ \ {f}, !.conflicts = @ \cup {f}]
                  /\ UNCHANGED latch
  /\ UNCHANGED <<disk, mem, pending, file, base, run, lease, wrote, late, count>>

\* Mutant of Recovered: the journal's image is saved whatever recovery found.
RecoveredAsPrepared(j, conflicts) == j.image

\* The image recovery saves: the journal's, with its conflicts, and without undoing
\* a revocation recorded since.
Recovered(j, conflicts) ==
  LET image == IF j.need = NoNeed \/ conflicts = {} THEN j.image
               ELSE Settled(j.image, j.need, "conflicted", conflicts)
  IN [image EXCEPT !.revoked = @ \/ mem.revoked]

SaveRecovered ==
  /\ op.at = "examine"
  /\ op.todo = {}
  /\ disk' = Recovered(op.journal, op.conflicts)
  /\ mem' = Recovered(op.journal, op.conflicts)
  /\ op' = [op EXCEPT !.at = "unlink"]
  /\ UNCHANGED <<pending, file, base, run, lease, latch, wrote, late, count>>

\* recoverAndReload: what is in memory is dropped for what was last saved.
Reload ==
  /\ op.at = "reload"
  /\ mem' = disk
  /\ op' = [op EXCEPT !.at = "interrupt"]
  /\ UNCHANGED <<disk, pending, file, base, run, lease, latch, wrote, late, count>>

\* Mutant of Interrupted: only a launch closes a decision that was not prepared.
InterruptedAtLaunch(image) ==
  [image EXCEPT !.needs = [n \in Needs |->
     CASE image.needs[n].execution = "pending" /\ op.by = "launch"
            -> [image.needs[n] EXCEPT !.execution = "not-applied"]
       [] image.needs[n].state = "open" /\ op.by = "launch"
            -> [image.needs[n] EXCEPT !.state = "expired"]
       [] OTHER -> image.needs[n]]]

\* interruptUnpreparedApprovals, and at launch the end of what was waiting: a
\* decision with no prepared write is closed as not applied, an open proposal expires.
Interrupted(image) ==
  [image EXCEPT !.needs = [n \in Needs |->
     CASE image.needs[n].execution = "pending"
            -> [image.needs[n] EXCEPT !.execution = "not-applied"]
       [] image.needs[n].state = "open" /\ op.by = "launch"
            -> [image.needs[n] EXCEPT !.state = "expired"]
       [] OTHER -> image.needs[n]]]

Interrupt ==
  /\ op.at = "interrupt"
  /\ disk' = Interrupted(mem)
  /\ mem' = Interrupted(mem)
  /\ latch' = FALSE
  /\ op' = At("idle")
  /\ UNCHANGED <<pending, file, base, run, lease, wrote, late, count>>

\* Mutant of Repair: a call enters its action although a recovery is owed.
RepairForgotten ==
  /\ op.at = "idle"
  /\ latch
  /\ latch' = FALSE
  /\ UNCHANGED <<disk, mem, pending, file, base, run, lease, op, wrote, late, count>>

\* The next call of locked recovers before it does anything of its own.
Repair ==
  /\ op.at = "idle"
  /\ latch
  /\ op' = Recovery("call")
  /\ UNCHANGED <<disk, mem, pending, file, base, run, lease, latch, wrote, late, count>>

-------------------------------------------------------------------------------
\* A read or a durable write of the action fails: a durable write replaces its file
\* or leaves it alone.  What interruptUnpreparedApprovals changed stays in memory.
Fault ==
  /\ op.at \notin {"idle", "down", "stop"}
  /\ count.faults < MaxFaults
  /\ Counted("faults")
  /\ mem' = IF op.at = "interrupt" THEN Interrupted(mem) ELSE mem
  /\ Throws
  /\ UNCHANGED <<disk, pending, file, base, run, lease, wrote, late>>

\* Another program replaces a file, with a text of its own or with the old one.
Edit(f) ==
  /\ count.edits < MaxEdits
  /\ Counted("edits")
  /\ \E t \in {"old", "outside"} \ {file[f].text} :
       file' = [file EXCEPT ![f] =
                  [text |-> t,
                   how |-> IF op.at = "replace" /\ op.file = f THEN "racing" ELSE "outside"]]
  /\ UNCHANGED <<disk, mem, pending, base, run, lease, latch, op, wrote, late>>

ScopeExpires ==
  /\ lease
  /\ lease' = FALSE
  /\ UNCHANGED <<disk, mem, pending, file, base, run, latch, op, wrote, late, count>>

\* The process stops: what it held in memory is gone.
Crash ==
  /\ op.at # "down"
  /\ count.crashes < MaxCrashes
  /\ Counted("crashes")
  /\ op' = At("down")
  /\ mem' = disk
  /\ run' = NoNeed
  /\ lease' = FALSE
  /\ latch' = FALSE
  /\ UNCHANGED <<disk, pending, file, base, wrote, late>>

\* init: the saved images are read, and recovery runs before anything else.
Launch ==
  /\ op.at = "down"
  /\ op' = Recovery("launch")
  /\ mem' = disk
  /\ UNCHANGED <<disk, pending, file, base, run, lease, latch, wrote, late, count>>

-------------------------------------------------------------------------------
Init ==
  /\ disk = [needs |-> [n \in Needs |-> Unborn], revoked |-> FALSE]
  /\ mem = disk
  /\ pending = {}
  /\ file = [f \in Files |-> [text |-> "old", how |-> "known"]]
  /\ base = [n \in Needs |-> [f \in Target[n] |-> "old"]]
  /\ run = NoNeed
  /\ lease = TRUE
  /\ latch = FALSE
  /\ op = At("idle")
  /\ wrote = [n \in Needs |-> {}]
  /\ late = 0
  /\ count = [edits |-> 0, saves |-> 0, faults |-> 0, crashes |-> 0]

\* The rest of a locked action, of a launch, or of the repair the next call makes.
Work ==
  \/ Prepare
  \/ \E f \in Files : Look(f)
  \/ Replace
  \/ SaveOutcome
  \/ Unlink
  \/ Scan
  \/ \E f \in Files : Examine(f)
  \/ SaveRecovered
  \/ Reload
  \/ Interrupt
  \/ Repair
  \/ Launch

Next ==
  \/ \E n \in Needs : Propose(n)
  \/ \E n \in Needs : Approve(n)
  \/ \E n \in Needs : ApproveByScope(n)
  \/ \E n \in Needs : Decline(n)
  \/ \E n \in Needs : EndRun(n)
  \/ \E f \in Files : SaveFile(f)
  \/ Revoke
  \/ Work
  \/ Fault
  \/ \E f \in Files : Edit(f)
  \/ ScopeExpires
  \/ Crash

Spec == Init /\ [][Next]_storeVars

\* A locked action that was entered is carried on, a stopped service is started
\* again, and somebody calls locked again after a recovery that failed: every read
\* of the project goes through it.
FairSpec == Spec /\ WF_storeVars(Work)

-------------------------------------------------------------------------------
Journals ==
  UNION {[need : Needs \cup {NoNeed}, before : [fs -> Texts], text : Texts, image : Images] :
         fs \in SUBSET Files}

\* The values of the variables.
TypeOK ==
  /\ {disk, mem} \subseteq Images
  /\ \A j \in pending : /\ j.need \in Needs \cup {NoNeed}
                         /\ j.text \in Texts
                         /\ j.image \in Images
                         /\ DOMAIN j.before \subseteq Files
  /\ file \in [Files -> [text : Texts, how : {"known", "outside", "racing"}]]
  /\ \A n \in Needs : base[n] \in [Target[n] -> Texts] /\ wrote[n] \subseteq Target[n]
  /\ run \in Needs \cup {NoNeed}
  /\ {lease, latch} \subseteq BOOLEAN
  /\ op.at \in {"idle", "down", "stop", "prepare", "look", "replace", "unlink", "scan",
                "examine", "reload", "interrupt"}
  /\ op.by \in {"none", "write", "rescue", "call", "launch"}
  /\ op.journal \in pending \cup {NoJournal}
  /\ op.todo \subseteq Files /\ op.conflicts \subseteq Files
  /\ op.file \in Files \cup {NoFile}
  /\ late \in Nat
  /\ count \in [{"edits", "saves", "faults", "crashes"} -> Nat]

\* A file is replaced in the name of a proposal only while its journal is there to
\* tell, or after the saved image has closed it (writeRecorded, recover).
EffectIsAccounted ==
  \A n \in Needs :
    wrote[n] # {} => \/ disk.needs[n].execution \in {"applied", "conflicted"}
                    \/ \E j \in pending : j.need = n

\* What the saved image says of a proposal is what became of its files: applied is
\* all of them, a conflict accounts for the others, and not applied, declined or
\* never decided is none (settleApproval, interruptUnpreparedApprovals).
SettledTruthfully ==
  \A n \in Needs :
    LET need == disk.needs[n] IN
      /\ need.execution = "applied" => wrote[n] = Target[n]
      /\ need.execution = "conflicted" => Target[n] \ need.conflicts \subseteq wrote[n]
      /\ need.execution \in {"none", "declined", "not-applied"} => wrote[n] = {}

\* A journal is never overtaken by newer state that its recovery would undo: there
\* is one at a time, and the saved image differs from its image in its own proposal
\* only (locked's latch, writeRecorded's snapshot of the project).
NothingOvertakesAJournal ==
  /\ Cardinality(pending) <= 1
  /\ \A j \in pending :
       /\ disk.revoked = j.image.revoked
       /\ \A n \in Needs \ {j.need} : disk.needs[n] = j.image.needs[n]

\* Recovery never refuses a journal this code wrote, so a launch or a call is never
\* blocked for ever by its own consistency check (recover).
RecoveryAcceptsItsJournals ==
  op.at = "scan" => \A j \in pending : Consistent(j)

\* A task scope that ends stops its writes: at most the one replacement that was
\* already past its last look lands (assertCurrent before every rename, revoke,
\* the lease a restart does not carry over).
ScopeEndStopsWrites == late <= 1

Replaced(f) == op.at = "replace" /\ op.file = f /\ file'[f] # file[f]

\* A text another program left is never replaced, unless it arrived after the last
\* look or is the very text the write was made from (applyWrite, recover).
OutsideEditsAreKept ==
  [][\A f \in Files :
       Replaced(f) /\ file[f].how = "outside" => file[f].text = op.journal.before[f]]_storeVars

\* A decision to go ahead is not left hanging: it is applied, in conflict or not
\* applied in the end, through failures and restarts.
DecisionsSettle ==
  \A n \in Needs :
    disk.needs[n].execution = "pending" ~> disk.needs[n].execution # "pending"

\* What is on record for a proposal.
OnRecord(need) ==
  IF need.execution = "pending" THEN "accepted"
  ELSE IF need.execution \in {"applied", "conflicted", "not-applied"} THEN need.execution
  ELSE IF need.state \in {"declined", "expired"} THEN "refused"
  ELSE "undecided"

Approvals == INSTANCE ApprovalLedger WITH
  status <- [n \in Needs |-> OnRecord(disk.needs[n])],
  touched <- wrote

\* The store implements the ledger of proposals.
ImplementsApprovals == Approvals!Approvals
===============================================================================
