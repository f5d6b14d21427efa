-------------------------- MODULE ProjectStoreProofs --------------------------
(***************************************************************************)
(* Proofs about ProjectStore, for every set of proposals and files, and    *)
(* any number of edits by other programs, failed writes and crashes: what  *)
(* the saved image says of a proposal is what became of its files, nothing *)
(* overtakes a journal, recovery is never blocked, a scope that ends stops *)
(* its writes, texts of other programs are kept, and the store implements  *)
(* the ledger of proposals.                                                *)
(***************************************************************************)
EXTENDS ProjectStore, FiniteSetTheorems, TLAPS

\* Who drives the action under way, by where it stands.
DriverFits ==
  /\ op.at \in {"idle", "down", "stop"} => op.by = "none"
  /\ op.at \in {"prepare", "look"} => op.by = "write"
  /\ op.at \in {"replace", "unlink"} => op.by \in {"write", "rescue", "call", "launch"}
  /\ op.at \in {"scan", "examine"} => op.by \in {"rescue", "call", "launch"}
  /\ op.at = "reload" => op.by = "call"
  /\ op.at = "interrupt" => op.by \in {"call", "launch"}

\* There is one journal at a time; an action past its preparation has it in hand, and
\* nobody starts anything while one is left.
PendingFits ==
  /\ \A i, j \in pending : i = j
  /\ op.at \in {"look", "replace", "unlink", "examine"}
       => op.journal \in pending /\ op.need = op.journal.need
  /\ Free \/ op.at \in {"prepare", "reload", "interrupt", "stop"} => pending = {}

\* Memory differs from the saved image only until the reload that a failed save owes,
\* and never while a journal is left.
MemoryFits ==
  /\ pending # {} \/ Free \/ op.at \in {"prepare", "interrupt", "stop"} => mem = disk
  /\ op.by = "launch" => mem = disk

\* A proposal that nobody has decided has no execution.
UndecidedIsUntouched ==
  \A n \in Needs :
    disk.needs[n].state \in {"none", "open"} => disk.needs[n].execution = "none"

\* A journal and the saved image agree but for the execution of its proposal.
JournalFits(j) ==
  /\ disk.revoked = j.image.revoked
  /\ \A n \in Needs \ {j.need} : disk.needs[n] = j.image.needs[n]
  /\ j.need = NoNeed => j.text = "saved"
  /\ j.need \in Needs =>
       /\ DOMAIN j.before = Target[j.need]
       /\ j.text = j.need
       /\ disk.needs[j.need].execution \in {"pending", "applied", "conflicted"}
       /\ disk.needs[j.need].state = j.image.needs[j.need].state
       /\ disk.needs[j.need].by = j.image.needs[j.need].by
       /\ j.image.needs[j.need].execution = "applied"
JournalsFit == \A j \in pending : JournalFits(j)

\* What is left of a write, or of its recovery: the other files are replaced, or
\* reported.
TodoFits ==
  op.need \in Needs =>
    /\ op.at = "prepare" => /\ op.todo = Target[op.need]
                            /\ disk.needs[op.need].execution = "pending"
    /\ op.at \in {"look", "replace", "examine"} =>
         /\ op.todo \subseteq Target[op.need]
         /\ Target[op.need] \ (op.todo \cup op.conflicts) \subseteq wrote[op.need]
    /\ op.at \in {"prepare", "look", "replace"} /\ op.by = "write" => op.conflicts = {}
    /\ op.at = "unlink" => disk.needs[op.need].execution \in {"applied", "conflicted"}

\* Only a replacement puts the text of a proposal into a file.
TextsFit == \A n \in Needs : \A f \in Files : file[f].text = n => f \in wrote[n]

\* A scope that is revoked has lost its lease, for good; after a replacement that came
\* too late there is no other.
ByScope(j) == j.need # NoNeed /\ j.image.needs[j.need].by = "scope"
ScopeFits ==
  /\ mem.revoked \/ disk.revoked => ~lease
  /\ late \in 0..1
  /\ late = 1 => ~lease /\ (op.at = "replace" => ~ByScope(op.journal))

\* A file about to be replaced still holds what the write was made from, or a text
\* that arrived after the look.
LookedAt ==
  op.at = "replace" =>
    /\ op.file \in op.todo
    /\ file[op.file].how = "outside" => file[op.file].text = op.journal.before[op.file]

Operations(journals) ==
  [at : {"idle", "down", "stop", "prepare", "look", "replace", "unlink", "scan", "examine",
         "reload", "interrupt"},
   by : {"none", "write", "rescue", "call", "launch"}, need : Needs \cup {NoNeed},
   journal : journals \cup {NoJournal}, todo : SUBSET Files, file : Files \cup {NoFile},
   live : BOOLEAN, conflicts : SUBSET Files]
Needing ==
  [state : {"none", "open", "go-ahead", "declined", "expired"}, by : {"none", "person", "scope"},
   execution : {"none", "pending", "declined", "applied", "conflicted", "not-applied"},
   conflicts : SUBSET Files]
Counts == [edits : Nat, saves : Nat, faults : Nat, crashes : Nat]
TextedFiles == [Files -> [text : Texts, how : {"known", "outside", "racing"}]]

StoreTypes ==
  /\ disk \in Images /\ mem \in Images
  /\ \A j \in pending : /\ j.need \in Needs \cup {NoNeed}
                         /\ j.text \in Texts
                         /\ j.image \in Images
                         /\ DOMAIN j.before \subseteq Files
  /\ file \in TextedFiles
  /\ wrote \in [Needs -> SUBSET Files]
  /\ \A n \in Needs : base[n] \in [Target[n] -> Texts] /\ wrote[n] \subseteq Target[n]
  /\ run \in Needs \cup {NoNeed}
  /\ lease \in BOOLEAN /\ latch \in BOOLEAN
  /\ op \in Operations(pending)
  /\ late \in Nat
  /\ count \in Counts

StoreInv ==
  /\ StoreTypes
  /\ DriverFits
  /\ PendingFits
  /\ MemoryFits
  /\ UndecidedIsUntouched
  /\ JournalsFit
  /\ TodoFits
  /\ TextsFit
  /\ ScopeFits
  /\ LookedAt
  /\ EffectIsAccounted
  /\ SettledTruthfully

-------------------------------------------------------------------------------
\* What an action leaves in op is well typed, whatever journals there are.
LEMMA AtTypes ==
  ASSUME NEW journals, NEW at \in {"idle", "down", "stop", "scan"},
         NEW by \in {"none", "write", "rescue", "call", "launch"}
  PROVE  At(at) \in Operations(journals) /\ [At(at) EXCEPT !.by = by] \in Operations(journals)
BY DEF At, Operations

LEMMA WritingTypes ==
  ASSUME NEW journals, NEW n \in Needs \cup {NoNeed}, NEW fs \in SUBSET Files
  PROVE  Writing(n, fs) \in Operations(journals)
BY DEF At, Writing, Operations

\* The images an action builds are images.
LEMMA ImageTypes ==
  ASSUME NEW image \in Images, NEW n \in Needs,
         NEW state \in {"none", "open", "go-ahead", "declined", "expired"},
         NEW by \in {"none", "person", "scope"},
         NEW execution \in {"none", "pending", "declined", "applied", "conflicted", "not-applied"},
         NEW conflicts \in SUBSET Files
  PROVE  /\ Decision(image, n, state, by, execution) \in Images
         /\ Settled(image, n, execution, conflicts) \in Images
         /\ [image EXCEPT !.needs[n].state = state] \in Images
         /\ [image EXCEPT !.revoked = TRUE] \in Images
<1>1. image.needs \in [Needs -> Needing] /\ image.revoked \in BOOLEAN /\ image.needs[n] \in Needing
  BY DEF Images, Needing
<1>2. Decision(image, n, state, by, execution) \in Images
  BY <1>1 DEF Images, Decision, Needing
<1>3. Settled(image, n, execution, conflicts) \in Images
  <2> DEFINE settled == [image.needs[n] EXCEPT !.execution = execution, !.conflicts = conflicts]
  <2>1. settled \in Needing
    BY <1>1 DEF Needing
  <2>2. [image.needs EXCEPT ![n] = settled] \in [Needs -> Needing]
    BY <1>1, <2>1
  <2>3. Settled(image, n, execution, conflicts) = [image EXCEPT !.needs = [image.needs EXCEPT ![n] = settled]]
    BY <1>1 DEF Settled, Images, Needing
  <2> QED
    BY <2>2, <2>3 DEF Images, Needing
<1>4. [image EXCEPT !.needs[n].state = state] \in Images
  <2>1. [image.needs[n] EXCEPT !.state = state] \in Needing
    BY <1>1 DEF Needing
  <2> QED
    BY <1>1, <2>1 DEF Images, Needing
<1>5. [image EXCEPT !.revoked = TRUE] \in Images
  BY DEF Images
<1> QED
  BY <1>2, <1>3, <1>4, <1>5

LEMMA InterruptedTypes ==
  ASSUME NEW image \in Images
  PROVE  Interrupted(image) \in Images
<1> DEFINE needs == [n \in Needs |->
     CASE image.needs[n].execution = "pending"
            -> [image.needs[n] EXCEPT !.execution = "not-applied"]
       [] image.needs[n].state = "open" /\ op.by = "launch"
            -> [image.needs[n] EXCEPT !.state = "expired"]
       [] OTHER -> image.needs[n]]
<1>1. ASSUME NEW n \in Needs
      PROVE  needs[n] \in [state : {"none", "open", "go-ahead", "declined", "expired"},
                      by : {"none", "person", "scope"},
                      execution : {"none", "pending", "declined", "applied", "conflicted",
                                   "not-applied"},
                      conflicts : SUBSET Files]
  BY DEF Images
<1> QED
  BY <1>1 DEF Images, Interrupted

\* What a locked action that throws leaves.
LEMMA ThrowsTypes ==
  ASSUME StoreTypes, Throws, NEW journals
  PROVE  op' \in Operations(journals) /\ latch' \in BOOLEAN
BY AtTypes DEF StoreTypes, Throws, Recovery

LEMMA SaveTypes ==
  ASSUME StoreTypes, NEW image \in Images, NEW next \in Operations(pending'),
         Save(image, next)
  PROVE  disk' \in Images /\ mem' \in Images /\ op' \in Operations(pending')
         /\ latch' \in BOOLEAN /\ count' \in Counts
<1>1. op' \in Operations(pending') /\ latch' \in BOOLEAN
  BY AtTypes DEF StoreTypes, Save, Recovery
<1> QED
  BY <1>1 DEF StoreTypes, Save, Counted, Counts

LEMMA TypesInit == Init => StoreTypes
<1> SUFFICES ASSUME Init PROVE StoreTypes
  OBVIOUS
<1>1. disk \in Images
  BY DEF Init, Images, Unborn
<1>2. op \in Operations(pending)
  BY AtTypes DEF Init
<1>3. count \in Counts
  BY DEF Init, Counts
<1> QED
  BY <1>1, <1>2, <1>3, StoreAssumption DEF Init, StoreTypes, Texts, TextedFiles

\* Every action keeps the types.
LEMMA TypesStep ==
  ASSUME StoreTypes, DriverFits, PendingFits, TodoFits, LookedAt, [Next]_storeVars
  PROVE  StoreTypes'
<1> USE StoreAssumption DEF StoreTypes
<1>1. ASSUME NEW n \in Needs, Propose(n)
      PROVE  StoreTypes'
  <2>1. Decision(mem, n, "open", "none", "none") \in Images
    BY ImageTypes
  <2>2. /\ disk' \in Images /\ mem' \in Images /\ op' \in Operations(pending')
        /\ latch' \in BOOLEAN /\ count' \in Counts
    BY <1>1, <2>1, AtTypes, SaveTypes DEF Propose
  <2>3. Texted(Target[n]) \in [Target[n] -> Texts]
    BY DEF Texted, TextedFiles
  <2> QED
    BY <1>1, <2>2, <2>3 DEF Propose
<1>2. ASSUME NEW n \in Needs, Approve(n) \/ ApproveByScope(n)
      PROVE  StoreTypes'
  BY <1>2, WritingTypes, ImageTypes, SaveTypes DEF Approve, ApproveByScope, Decidable
<1>3. ASSUME NEW n \in Needs, Decline(n) \/ EndRun(n)
      PROVE  StoreTypes'
  BY <1>3, AtTypes, ImageTypes, SaveTypes DEF Decline, EndRun, Decidable
<1>4. ASSUME NEW f \in Files, SaveFile(f)
      PROVE  StoreTypes'
  BY <1>4, WritingTypes DEF SaveFile, Counted, Counts
<1>5. CASE Revoke
  <2>1. [mem EXCEPT !.revoked = TRUE] \in Images
    BY DEF Images
  <2>2. (IF run = NoNeed THEN At("idle") ELSE At("stop")) \in Operations(pending')
    BY AtTypes
  <2>3. /\ disk' \in Images /\ mem' \in Images /\ op' \in Operations(pending')
        /\ latch' \in BOOLEAN /\ count' \in Counts
    BY <1>5, <2>1, <2>2, SaveTypes DEF Revoke
  <2> QED
    BY <1>5, <2>3 DEF Revoke
<1>6. CASE Prepare
  <2> DEFINE j == Journal(op.need, op.todo)
  <2>1. CASE Throws /\ UNCHANGED <<pending, file>>
    BY <1>6, <2>1, ThrowsTypes DEF Prepare
  <2>2. CASE /\ pending' = pending \cup {j}
             /\ op' = [op EXCEPT !.at = "look", !.journal = j]
             /\ file' = [f \in Files |->
                           IF f \in op.todo THEN [file[f] EXCEPT !.how = "known"] ELSE file[f]]
             /\ UNCHANGED latch
    <3>1. op.need \in Needs \cup {NoNeed} /\ op.todo \subseteq Files
      BY DEF Operations
    <3>2. /\ j.need \in Needs \cup {NoNeed} /\ j.text \in Texts
          /\ DOMAIN j.before \subseteq Files /\ j.image \in Images
      BY <3>1, ImageTypes DEF Journal, Texted, Texts
    <3>3. op' \in Operations(pending')
      BY <2>2 DEF Operations
    <3>4. file' \in TextedFiles
      BY <2>2 DEF TextedFiles
    <3> QED
      BY <1>6, <2>2, <3>2, <3>3, <3>4 DEF Prepare
  <2> QED
    BY <1>6, <2>1, <2>2 DEF Prepare
<1>7. ASSUME NEW f \in Files, Look(f) \/ Examine(f)
      PROVE  StoreTypes'
  <2>1. op' \in Operations(pending) /\ latch' \in BOOLEAN
    <3>1. CASE Throws
      BY <3>1, ThrowsTypes
    <3>2. CASE op' = [op EXCEPT !.todo = @ \ {f}] /\ UNCHANGED latch
      BY <3>2 DEF Operations
    <3>3. CASE op' = [op EXCEPT !.at = "replace", !.file = f] /\ UNCHANGED latch
      BY <3>3 DEF Operations
    <3>4. CASE op' = [op EXCEPT !.todo = @ \ {f}, !.conflicts = @ \cup {f}] /\ UNCHANGED latch
      BY <3>4 DEF Operations
    <3> QED
      BY <1>7, <3>1, <3>2, <3>3, <3>4 DEF Look, Examine
  <2> QED
    BY <1>7, <2>1 DEF Look, Examine
<1>8. CASE Replace
  <2>1. op.journal \in pending /\ op.file \in op.todo /\ op.todo \subseteq Files
    BY <1>8 DEF Replace, PendingFits, LookedAt, Operations
  <2>2. op' \in Operations(pending')
    BY <1>8, <2>1 DEF Replace, Operations
  <2>3. file' \in TextedFiles
    BY <1>8, <2>1 DEF Replace, TextedFiles
  <2>4. ASSUME op.journal.need # NoNeed
        PROVE  op.journal.need \in Needs /\ op.file \in Target[op.journal.need]
    BY <1>8, <2>1, <2>4 DEF Replace, PendingFits, TodoFits
  <2>5. wrote' \in [Needs -> SUBSET Files] /\ \A n \in Needs : wrote'[n] \subseteq Target[n]
    BY <1>8, <2>1, <2>4 DEF Replace
  <2>6. late' \in Nat
    BY <1>8 DEF Replace
  <2> QED
    BY <1>8, <2>2, <2>3, <2>5, <2>6 DEF Replace
<1>9. CASE SaveOutcome \/ SaveRecovered
  <2>1. op.journal \in pending /\ op.at \in {"look", "examine"}
    BY <1>9 DEF SaveOutcome, SaveRecovered, PendingFits
  <2>2. op' \in Operations(pending')
    BY <1>9 DEF SaveOutcome, SaveRecovered, Operations
  <2>3. op.journal.image \in Images /\ Recovered(op.journal, op.conflicts) \in Images
    <3> DEFINE settled == Settled(op.journal.image, op.journal.need, "conflicted", op.conflicts)
    <3>1. op.journal.need # NoNeed => settled \in Images
      BY <2>1, ImageTypes DEF Operations
    <3>2. \A image \in Images : [image EXCEPT !.revoked = @ \/ mem.revoked] \in Images
      BY DEF Images
    <3> QED
      BY <2>1, <3>1, <3>2 DEF Recovered
  <2> QED
    BY <1>9, <2>2, <2>3 DEF SaveOutcome, SaveRecovered
<1>10. CASE Unlink
  <2>1. op' \in Operations(pending')
    <3>1. op.by \in {"none", "write", "rescue", "call", "launch"}
      BY DEF Operations
    <3> QED
      BY <1>10, <3>1, AtTypes DEF Unlink, Recovery
  <2> QED
    BY <1>10, <2>1 DEF Unlink
<1>11. CASE Scan
  <2>1. op' \in Operations(pending) /\ latch' \in BOOLEAN
    <3>1. CASE Throws
      BY <3>1, ThrowsTypes
    <3>2. ASSUME NEW at \in {"reload", "interrupt"}, op' = [op EXCEPT !.at = at], UNCHANGED latch
          PROVE  op' \in Operations(pending) /\ latch' \in BOOLEAN
      BY <3>2 DEF Operations
    <3>3. ASSUME NEW j \in pending, UNCHANGED latch,
                 op' = [op EXCEPT !.at = "examine", !.journal = j, !.need = j.need,
                                  !.todo = DOMAIN j.before, !.live = Authorized(j)]
          PROVE  op' \in Operations(pending) /\ latch' \in BOOLEAN
      <4>1. Authorized(j) \in BOOLEAN
        BY DEF Authorized, ScopeLive
      <4> QED
        BY <3>3, <4>1 DEF Operations
    <3> QED
      BY <1>11, <3>1, <3>2, <3>3 DEF Scan, DriverFits
  <2> QED
    BY <1>11, <2>1 DEF Scan
<1>12. CASE Reload
  BY <1>12 DEF Reload, Operations
<1>13. CASE Interrupt
  BY <1>13, AtTypes, InterruptedTypes DEF Interrupt
<1>14. CASE Repair \/ Launch
  BY <1>14, AtTypes DEF Repair, Launch, Recovery
<1>15. CASE Fault
  BY <1>15, ThrowsTypes, InterruptedTypes DEF Fault, Counted, Counts
<1>16. ASSUME NEW f \in Files, Edit(f)
      PROVE  StoreTypes'
  BY <1>16 DEF Edit, Counted, Counts, TextedFiles, Texts
<1>17. CASE ScopeExpires
  BY <1>17 DEF ScopeExpires
<1>18. CASE Crash
  <2>1. op' \in Operations(pending')
    BY <1>18, AtTypes DEF Crash
  <2>2. count' \in Counts
    BY <1>18 DEF Crash, Counted, Counts
  <2> QED
    BY <1>18, <2>1, <2>2 DEF Crash
<1>19. CASE UNCHANGED storeVars
  BY <1>19 DEF storeVars
<1> QED
  BY <1>1, <1>2, <1>3, <1>4, <1>5, <1>6, <1>7, <1>8, <1>9, <1>10, <1>11, <1>12, <1>13, <1>14,
     <1>15, <1>16, <1>17, <1>18, <1>19 DEF Next, Work

-------------------------------------------------------------------------------
\* The actions that change memory and save it.
Decides(n) == Propose(n) \/ Approve(n) \/ ApproveByScope(n) \/ Decline(n) \/ EndRun(n)
Saves == (\E n \in Needs : Decides(n)) \/ Revoke

\* What such an action may do to the record of a proposal.
Moves(n) ==
  LET was == disk.needs[n]
      is == disk'.needs[n]
  IN \/ is = was
     \/ /\ was.state \in {"none", "open"}
        /\ \/ is.state \in {"open", "expired"} /\ is.execution = was.execution
           \/ is.state = "go-ahead" /\ is.execution = "pending"
           \/ is.state = "declined" /\ is.execution = "declined"

LEMMA ThrowsLeaves ==
  ASSUME Throws
  PROVE  /\ op'.at \in {"scan", "idle", "down"} /\ op'.need = NoNeed
         /\ op'.at = "scan" => op'.by \in {"rescue", "call"}
         /\ op'.at # "scan" => op'.by = "none"
         /\ op'.at = "idle" => latch'
BY DEF Throws, Recovery, At

LEMMA RecoveryLeaves ==
  ASSUME NEW by
  PROVE  Recovery(by).at = "scan" /\ Recovery(by).by = by /\ Recovery(by).need = NoNeed
BY DEF Recovery, At

LEMMA AtLeaves ==
  ASSUME NEW at
  PROVE  At(at).at = at /\ At(at).by = "none" /\ At(at).need = NoNeed
BY DEF At

LEMMA WritingLeaves ==
  ASSUME NEW n, NEW fs
  PROVE  /\ Writing(n, fs).at = "prepare" /\ Writing(n, fs).by = "write"
         /\ Writing(n, fs).need = n /\ Writing(n, fs).todo = fs
         /\ Writing(n, fs).conflicts = {}
BY DEF Writing, At

LEMMA SaveLeaves ==
  ASSUME NEW image, NEW next, Save(image, next)
  PROVE  /\ mem' = image
         /\ \/ disk' = image /\ op' = next /\ latch' = latch
            \/ disk' = disk /\ latch' /\ op'.at = "scan" /\ op'.by = "call" /\ op'.need = NoNeed
BY RecoveryLeaves DEF Save

LEMMA DecisionLeaves ==
  ASSUME NEW image \in Images, NEW n \in Needs, NEW state, NEW by, NEW execution
  PROVE  /\ Decision(image, n, state, by, execution).revoked = image.revoked
         /\ Decision(image, n, state, by, execution).needs[n].state = state
         /\ Decision(image, n, state, by, execution).needs[n].execution = execution
         /\ \A k \in Needs \ {n} :
              Decision(image, n, state, by, execution).needs[k] = image.needs[k]
BY DEF Decision, Images

\* A file that is looked at is passed over, kept as a conflict, or replaced next.
LEMMA LookLeaves ==
  ASSUME StoreTypes, NEW f \in Files, Look(f) \/ Examine(f)
  PROVE  /\ f \in op.todo /\ op.at \in {"look", "examine"}
         /\ \/ Throws
            \/ /\ op'.by = op.by /\ op'.need = op.need /\ op'.journal = op.journal
               /\ latch' = latch
               /\ \/ /\ op'.at = op.at /\ op'.todo = op.todo \ {f}
                     /\ \/ op'.conflicts = op.conflicts /\ file[f].text = op.journal.text
                        \/ op'.conflicts = op.conflicts \cup {f} /\ op.at = "examine"
                  \/ /\ op'.at = "replace" /\ op'.file = f /\ op'.todo = op.todo
                     /\ op'.conflicts = op.conflicts
                     /\ file[f].text = op.journal.before[f] /\ Authorized(op.journal)
<1> DEFINE Passed == op' = [op EXCEPT !.todo = @ \ {f}] /\ file[f].text = op.journal.text
           Kept == op' = [op EXCEPT !.todo = @ \ {f}, !.conflicts = @ \cup {f}] /\ op.at = "examine"
           Next1 == /\ op' = [op EXCEPT !.at = "replace", !.file = f]
                    /\ file[f].text = op.journal.before[f] /\ Authorized(op.journal)
<1>1. f \in op.todo /\ op.at \in {"look", "examine"}
  BY DEF Look, Examine
<1>2. Throws \/ (latch' = latch /\ (Passed \/ Kept \/ Next1))
  BY DEF Look, Examine
<1>3. Passed => /\ op'.by = op.by /\ op'.need = op.need /\ op'.journal = op.journal
                /\ op'.at = op.at /\ op'.todo = op.todo \ {f} /\ op'.conflicts = op.conflicts
  BY DEF StoreTypes, Operations
<1>4. Kept => /\ op'.by = op.by /\ op'.need = op.need /\ op'.journal = op.journal
              /\ op'.at = op.at /\ op'.todo = op.todo \ {f}
              /\ op'.conflicts = op.conflicts \cup {f}
  BY DEF StoreTypes, Operations
<1>5. Next1 => /\ op'.by = op.by /\ op'.need = op.need /\ op'.journal = op.journal
               /\ op'.at = "replace" /\ op'.todo = op.todo /\ op'.conflicts = op.conflicts
               /\ op'.file = f
  BY DEF StoreTypes, Operations
<1> QED
  BY <1>1, <1>2, <1>3, <1>4, <1>5

\* A recovery that looks for journals goes on, takes one, or gives up.
LEMMA ScanLeaves ==
  ASSUME StoreTypes, Scan
  PROVE  \/ Throws
         \/ /\ pending = {} /\ latch' = latch /\ op'.by = op.by /\ op'.need = op.need
            /\ \/ op.by = "call" /\ op'.at = "reload"
               \/ op.by = "launch" /\ op'.at = "interrupt"
         \/ /\ latch' = latch /\ op'.by = op.by /\ op'.at = "examine" /\ op'.conflicts = op.conflicts
            /\ \E j \in pending :
                 op'.journal = j /\ op'.need = j.need /\ op'.todo = DOMAIN j.before
<1>1. ASSUME NEW at, op' = [op EXCEPT !.at = at]
      PROVE  op'.at = at /\ op'.by = op.by /\ op'.need = op.need
  BY <1>1 DEF StoreTypes, Operations
<1>2. ASSUME NEW j \in pending,
             op' = [op EXCEPT !.at = "examine", !.journal = j, !.need = j.need,
                              !.todo = DOMAIN j.before, !.live = Authorized(j)]
      PROVE  /\ op'.by = op.by /\ op'.at = "examine" /\ op'.conflicts = op.conflicts
             /\ op'.journal = j /\ op'.need = j.need /\ op'.todo = DOMAIN j.before
  BY <1>2 DEF StoreTypes, Operations
<1> QED
  BY <1>1, <1>2 DEF Scan

\* Such an action starts where memory is what is saved and no journal is left, and
\* ends with its image saved, or with a recovery owed.
LEMMA SavesLeave ==
  ASSUME StoreTypes, DriverFits, PendingFits, MemoryFits, UndecidedIsUntouched, ScopeFits, Saves
  PROVE  /\ pending = {} /\ mem = disk /\ op.at \in {"idle", "stop"}
         /\ UNCHANGED <<pending, file, wrote, late>>
         /\ \/ /\ disk' = mem' /\ latch' = latch
               /\ op'.at \in {"idle", "stop", "prepare"}
               /\ op'.by = (IF op'.at = "prepare" THEN "write" ELSE "none")
               /\ op'.at = "prepare" => /\ op'.need \in Needs /\ op'.todo = Target[op'.need]
                                        /\ op'.conflicts = {}
                                        /\ disk'.needs[op'.need].execution = "pending"
            \/ /\ disk' = disk /\ latch'
               /\ op'.at = "scan" /\ op'.by = "call" /\ op'.need = NoNeed
         /\ \A n \in Needs : Moves(n)
         /\ mem'.revoked \/ disk'.revoked => ~lease'
         /\ lease' => lease
<1>1. ASSUME NEW n \in Needs, Decides(n)
      PROVE  pending = {} /\ mem = disk /\ op.at \in {"idle", "stop"}
  BY <1>1 DEF Decides, Propose, Approve, ApproveByScope, Decline, EndRun, Decidable, Free,
              PendingFits, MemoryFits
<1>2. Revoke => pending = {} /\ mem = disk /\ op.at \in {"idle", "stop"}
  BY DEF Revoke, Free, PendingFits, MemoryFits
<1> DEFINE Left ==
      \/ /\ disk' = mem' /\ latch' = latch
         /\ op'.at \in {"idle", "stop", "prepare"}
         /\ op'.by = (IF op'.at = "prepare" THEN "write" ELSE "none")
         /\ op'.at = "prepare" =>
              /\ op'.need \in Needs /\ op'.todo = Target[op'.need] /\ op'.conflicts = {}
              /\ disk'.needs[op'.need].execution = "pending"
      \/ /\ disk' = disk /\ latch'
         /\ op'.at = "scan" /\ op'.by = "call" /\ op'.need = NoNeed
<1> DEFINE Scoped == (mem'.revoked \/ disk'.revoked => ~lease') /\ (lease' => lease)
<1>3. ASSUME NEW n \in Needs, NEW state, NEW by, NEW execution, NEW next, Decides(n),
             mem.needs[n].state \in {"none", "open"},
             Save(Decision(mem, n, state, by, execution), next),
             \/ state = "open" /\ execution = "none" /\ next = At("idle")
             \/ state = "declined" /\ execution = "declined" /\ next = At("idle")
             \/ state = "go-ahead" /\ execution = "pending" /\ next = Writing(n, Target[n])
      PROVE  Left /\ (\A k \in Needs : Moves(k)) /\ Scoped
  <2>0. lease' = lease
    BY <1>3 DEF Decides, Propose, Approve, ApproveByScope, Decline, EndRun
  <2>1. Left
    BY <1>3, SaveLeaves, DecisionLeaves, AtLeaves, WritingLeaves DEF StoreTypes
  <2>2. disk' = Decision(mem, n, state, by, execution) \/ disk' = disk
    BY <1>3, SaveLeaves
  <2>3. \A k \in Needs : Moves(k)
    BY <1>1, <1>3, <2>2, DecisionLeaves DEF StoreTypes, UndecidedIsUntouched, Moves
  <2>4. Scoped
    BY <1>3, <2>0, SaveLeaves, DecisionLeaves DEF StoreTypes, ScopeFits
  <2> QED
    BY <2>1, <2>3, <2>4
<1>4. ASSUME NEW n \in Needs, EndRun(n)
      PROVE  Left /\ (\A k \in Needs : Moves(k)) /\ Scoped
  <2> DEFINE image == [mem EXCEPT !.needs[n].state = "expired"]
  <2>1. /\ image.revoked = mem.revoked /\ image.needs[n].state = "expired"
        /\ image.needs[n].execution = mem.needs[n].execution
        /\ \A k \in Needs \ {n} : image.needs[k] = mem.needs[k]
    BY DEF StoreTypes, Images
  <2>2. Save(image, At("idle")) /\ lease' = lease /\ mem.needs[n].state = "open"
    BY <1>4 DEF EndRun, Decidable
  <2>3. Left
    BY <2>2, SaveLeaves, AtLeaves
  <2>4. \A k \in Needs : Moves(k)
    <3>1. mem = disk
      BY <1>1, <1>4 DEF Decides
    <3>2. disk' = image \/ disk' = disk
      BY <2>2, SaveLeaves
    <3> HIDE DEF image
    <3> QED
      BY <2>1, <2>2, <3>1, <3>2 DEF Moves
  <2>5. Scoped
    BY <2>1, <2>2, SaveLeaves DEF ScopeFits
  <2> QED
    BY <2>3, <2>4, <2>5
<1>5. ASSUME Revoke
      PROVE  Left /\ (\A k \in Needs : Moves(k)) /\ Scoped
  <2> DEFINE next == IF run = NoNeed THEN At("idle") ELSE At("stop")
  <2>1. Save([mem EXCEPT !.revoked = TRUE], next) /\ ~lease'
    BY <1>5 DEF Revoke
  <2>2. Left
    BY <2>1, SaveLeaves, AtLeaves
  <2>3. \A k \in Needs : Moves(k)
    BY <1>2, <1>5, <2>1, SaveLeaves DEF Moves, StoreTypes, Images
  <2>4. Scoped
    BY <2>1
  <2> QED
    BY <2>2, <2>3, <2>4
<1>6. UNCHANGED <<pending, file, wrote, late>>
  BY DEF Saves, Decides, Propose, Approve, ApproveByScope, Decline, EndRun, Revoke
<1>7. ASSUME NEW n \in Needs, Decides(n)
      PROVE  Left /\ (\A k \in Needs : Moves(k)) /\ Scoped
  <2>1. CASE Propose(n)
    BY <1>3, <1>7, <2>1 DEF Propose
  <2>2. CASE Approve(n)
    BY <1>3, <1>7, <2>2 DEF Approve, Decidable
  <2>3. CASE ApproveByScope(n)
    BY <1>3, <1>7, <2>3 DEF ApproveByScope, Decidable
  <2>4. CASE Decline(n)
    BY <1>3, <1>7, <2>4 DEF Decline, Decidable
  <2> QED
    BY <1>4, <1>7, <2>1, <2>2, <2>3, <2>4 DEF Decides
<1> QED
  BY <1>1, <1>2, <1>5, <1>6, <1>7 DEF Saves

\* An image in which one proposal is settled.
SettledNeed(need, execution, conflicts) ==
  [need EXCEPT !.execution = execution, !.conflicts = conflicts]
LEMMA SettledIs ==
  ASSUME NEW image \in Images, NEW n \in Needs, NEW execution, NEW conflicts
  PROVE  Settled(image, n, execution, conflicts) =
           [needs |-> [image.needs EXCEPT ![n] = SettledNeed(image.needs[n], execution, conflicts)],
            revoked |-> image.revoked]
<1> DEFINE settled == SettledNeed(image.needs[n], execution, conflicts)
<1>1. image.needs \in [Needs -> Needing] /\ image = [needs |-> image.needs, revoked |-> image.revoked]
  BY DEF Images, Needing
<1>2. Settled(image, n, execution, conflicts) = [image EXCEPT !.needs = [image.needs EXCEPT ![n] = settled]]
  BY <1>1 DEF Settled, SettledNeed, Images, Needing
<1> HIDE DEF settled
<1>3. Settled(image, n, execution, conflicts) =
        [needs |-> [image.needs EXCEPT ![n] = settled], revoked |-> image.revoked]
  BY <1>1, <1>2
<1> QED
  BY <1>3 DEF settled

\* What a recovery saves: the image of the journal, but that a conflict is noted in its
\* own proposal and that a scope stays revoked.
LEMMA RecoveredIs ==
  ASSUME NEW j, j.image \in Images, j.need \in Needs \cup {NoNeed}, NEW conflicts
  PROVE  /\ Recovered(j, conflicts).revoked = (j.image.revoked \/ mem.revoked)
         /\ \A n \in Needs :
              /\ Recovered(j, conflicts).needs[n].state = j.image.needs[n].state
              /\ Recovered(j, conflicts).needs[n].by = j.image.needs[n].by
              /\ n # j.need \/ conflicts = {}
                   => Recovered(j, conflicts).needs[n] = j.image.needs[n]
              /\ n = j.need /\ conflicts # {}
                   => /\ Recovered(j, conflicts).needs[n].execution = "conflicted"
                      /\ Recovered(j, conflicts).needs[n].conflicts = conflicts
<1>1. CASE j.need = NoNeed \/ conflicts = {}
  <2>1. Recovered(j, conflicts) = [j.image EXCEPT !.revoked = @ \/ mem.revoked]
    BY <1>1 DEF Recovered
  <2>2. /\ Recovered(j, conflicts).revoked = (j.image.revoked \/ mem.revoked)
        /\ Recovered(j, conflicts).needs = j.image.needs
    BY <2>1 DEF Images
  <2> QED
    BY <1>1, <2>2, StoreAssumption
<1>2. CASE j.need \in Needs /\ conflicts # {}
  <2> DEFINE was == j.image.needs[j.need]
             settled == SettledNeed(was, "conflicted", conflicts)
             needs == [j.image.needs EXCEPT ![j.need] = settled]
             after == Settled(j.image, j.need, "conflicted", conflicts)
  <2>1. was = [state |-> was.state, by |-> was.by, execution |-> was.execution,
               conflicts |-> was.conflicts]
    BY <1>2 DEF Images
  <2> HIDE DEF was
  <2>2. /\ settled.state = was.state /\ settled.by = was.by
        /\ settled.execution = "conflicted" /\ settled.conflicts = conflicts
    BY <2>1 DEF SettledNeed
  <2>3. \A n \in Needs : needs[n] = IF n = j.need THEN settled ELSE j.image.needs[n]
    <3> HIDE DEF settled
    <3>1. DOMAIN j.image.needs = Needs
      BY DEF Images
    <3> QED
      BY <3>1
  <2>4. after = [needs |-> needs, revoked |-> j.image.revoked]
    BY <1>2, SettledIs DEF was
  <2>5. Recovered(j, conflicts) = [after EXCEPT !.revoked = @ \/ mem.revoked]
    BY <1>2, StoreAssumption DEF Recovered
  <2> HIDE DEF settled, needs, after
  <2>6. /\ Recovered(j, conflicts).revoked = (j.image.revoked \/ mem.revoked)
        /\ Recovered(j, conflicts).needs = needs
    BY <2>4, <2>5
  <2> QED
    BY <1>2, <2>2, <2>3, <2>6 DEF was
<1> QED
  BY <1>1, <1>2

\* Every action keeps track of who drives it.
LEMMA DriverStep ==
  ASSUME StoreInv, [Next]_storeVars
  PROVE  DriverFits'
<1> USE DEF StoreInv, DriverFits
<1>1. CASE Saves
  BY <1>1, SavesLeave
<1>2. ASSUME NEW f \in Files, SaveFile(f)
      PROVE  DriverFits'
  BY <1>2, WritingLeaves DEF SaveFile
<1>3. CASE Prepare
  BY <1>3, ThrowsLeaves DEF Prepare, StoreTypes, Operations
<1>4. ASSUME NEW f \in Files, Look(f) \/ Examine(f)
      PROVE  DriverFits'
  BY <1>4, ThrowsLeaves, LookLeaves DEF Look, Examine
<1>5. CASE Replace
  BY <1>5 DEF Replace, StoreTypes, Operations
<1>6. CASE SaveOutcome \/ SaveRecovered
  BY <1>6 DEF SaveOutcome, SaveRecovered, StoreTypes, Operations
<1>7. CASE Unlink
  BY <1>7, AtLeaves, RecoveryLeaves DEF Unlink
<1>8. CASE Scan
  BY <1>8, ThrowsLeaves, ScanLeaves DEF Scan
<1>9. CASE Reload
  BY <1>9 DEF Reload, StoreTypes, Operations
<1>10. CASE Interrupt \/ Repair \/ Launch \/ Crash
  BY <1>10, AtLeaves, RecoveryLeaves DEF Interrupt, Repair, Launch, Crash
<1>11. CASE Fault
  BY <1>11, ThrowsLeaves DEF Fault
<1>12. CASE \/ \E f \in Files : Edit(f)
            \/ ScopeExpires \/ UNCHANGED storeVars
  BY <1>12 DEF Edit, ScopeExpires, storeVars
<1> QED
  BY <1>1, <1>2, <1>3, <1>4, <1>5, <1>6, <1>7, <1>8, <1>9, <1>10, <1>11, <1>12
     DEF Next, Work, Saves, Decides

\* Every action leaves one journal at most, in the hands of whoever works on it.
LEMMA PendingStep ==
  ASSUME StoreInv, [Next]_storeVars
  PROVE  PendingFits'
<1> USE DEF StoreInv, PendingFits, Free
<1>1. CASE Saves
  BY <1>1, SavesLeave
<1>2. ASSUME NEW f \in Files, SaveFile(f)
      PROVE  PendingFits'
  BY <1>2, WritingLeaves DEF SaveFile
<1>3. CASE Prepare
  <2>1. CASE Throws /\ UNCHANGED pending
    BY <1>3, <2>1, ThrowsLeaves DEF Prepare
  <2>2. CASE ~(Throws /\ UNCHANGED pending)
    <3> DEFINE j == Journal(op.need, op.todo)
    <3>1. /\ pending' = {j}
          /\ op' = [op EXCEPT !.at = "look", !.journal = j]
      BY <1>3, <2>2 DEF Prepare
    <3>2. op'.at = "look" /\ op'.journal = j /\ op'.need = op.need
      BY <3>1 DEF StoreTypes, Operations
    <3>3. j.need = op.need
      BY DEF Journal
    <3> QED
      BY <3>1, <3>2, <3>3
  <2> QED
    BY <2>1, <2>2
<1>4. ASSUME NEW f \in Files, Look(f) \/ Examine(f)
      PROVE  PendingFits'
  BY <1>4, ThrowsLeaves, LookLeaves DEF Look, Examine
<1>5. CASE Replace
  BY <1>5 DEF Replace, StoreTypes, Operations
<1>6. CASE SaveOutcome \/ SaveRecovered
  BY <1>6 DEF SaveOutcome, SaveRecovered, StoreTypes, Operations
<1>7. CASE Unlink
  BY <1>7, AtLeaves, RecoveryLeaves DEF Unlink
<1>8. CASE Scan
  BY <1>8, ThrowsLeaves, ScanLeaves DEF Scan
<1>9. CASE Reload
  BY <1>9 DEF Reload, StoreTypes, Operations
<1>10. CASE Interrupt \/ Repair \/ Launch \/ Crash
  BY <1>10, AtLeaves, RecoveryLeaves DEF Interrupt, Repair, Launch, Crash
<1>11. CASE Fault
  BY <1>11, ThrowsLeaves DEF Fault
<1>12. CASE \/ \E f \in Files : Edit(f)
            \/ ScopeExpires \/ UNCHANGED storeVars
  BY <1>12 DEF Edit, ScopeExpires, storeVars
<1> QED
  BY <1>1, <1>2, <1>3, <1>4, <1>5, <1>6, <1>7, <1>8, <1>9, <1>10, <1>11, <1>12
     DEF Next, Work, Saves, Decides

\* Every action leaves memory and the saved image as far apart as they may be.
LEMMA MemoryStep ==
  ASSUME StoreInv, [Next]_storeVars
  PROVE  MemoryFits'
<1> USE DEF StoreInv, MemoryFits, PendingFits, Free
<1>1. CASE Saves
  BY <1>1, SavesLeave
<1>2. ASSUME NEW f \in Files, SaveFile(f)
      PROVE  MemoryFits'
  BY <1>2, WritingLeaves DEF SaveFile
<1>3. CASE Prepare
  BY <1>3, ThrowsLeaves DEF Prepare, StoreTypes, Operations, DriverFits
<1>4. ASSUME NEW f \in Files, Look(f) \/ Examine(f)
      PROVE  MemoryFits'
  BY <1>4 DEF Look, Examine
<1>5. CASE Replace
  BY <1>5 DEF Replace
<1>6. CASE SaveOutcome \/ SaveRecovered \/ Interrupt \/ Reload \/ Launch \/ Crash
  BY <1>6 DEF SaveOutcome, SaveRecovered, Interrupt, Reload, Launch, Crash
<1>7. CASE Unlink
  BY <1>7 DEF Unlink
<1>8. CASE Scan
  BY <1>8, ThrowsLeaves, ScanLeaves DEF Scan
<1>9. CASE Repair
  BY <1>9, RecoveryLeaves DEF Repair
<1>10. CASE Fault
  BY <1>10, ThrowsLeaves DEF Fault
<1>11. CASE \/ \E f \in Files : Edit(f)
            \/ ScopeExpires \/ UNCHANGED storeVars
  BY <1>11 DEF Edit, ScopeExpires, storeVars
<1> QED
  BY <1>1, <1>2, <1>3, <1>4, <1>5, <1>6, <1>7, <1>8, <1>9, <1>10, <1>11
     DEF Next, Work, Saves, Decides

\* Only a decision ends the state in which a proposal has no execution.
LEMMA UndecidedStep ==
  ASSUME StoreInv, [Next]_storeVars
  PROVE  UndecidedIsUntouched'
<1> USE DEF StoreInv, UndecidedIsUntouched
<1>1. CASE Saves
  BY <1>1, SavesLeave DEF Moves
<1>2. CASE SaveOutcome
  BY <1>2 DEF SaveOutcome, PendingFits, JournalsFit, JournalFits
<1>3. CASE SaveRecovered
  <2>1. /\ op.journal \in pending /\ JournalFits(op.journal)
        /\ op.journal.image \in Images /\ op.journal.need \in Needs \cup {NoNeed}
    BY <1>3 DEF SaveRecovered, PendingFits, JournalsFit, StoreTypes
  <2>2. ASSUME NEW n \in Needs
        PROVE  /\ disk'.needs[n].state = op.journal.image.needs[n].state
               /\ \/ disk'.needs[n].execution = op.journal.image.needs[n].execution
                  \/ n = op.journal.need
    BY <1>3, <2>1, RecoveredIs DEF SaveRecovered
  <2>3. ASSUME NEW n \in Needs, disk'.needs[n].state \in {"none", "open"}
        PROVE  disk'.needs[n].execution = "none"
    <3>1. CASE n = op.journal.need
      <4>1. /\ disk.needs[n].state \in {"none", "open"}
            /\ disk.needs[n].execution \in {"pending", "applied", "conflicted"}
        BY <2>1, <2>2, <2>3, <3>1 DEF JournalFits
      <4> QED
        BY <4>1
    <3>2. CASE n # op.journal.need
      <4>1. disk.needs[n] = op.journal.image.needs[n]
        BY <2>1, <3>2 DEF JournalFits
      <4> QED
        BY <2>2, <2>3, <3>2, <4>1
    <3> QED
      BY <3>1, <3>2
  <2> QED
    BY <2>3
<1>4. CASE Interrupt
  <2>1. mem = disk
    BY <1>4 DEF Interrupt, MemoryFits
  <2> QED
    BY <1>4, <2>1 DEF Interrupt, Interrupted, StoreTypes, Images
<1>5. CASE UNCHANGED disk
  BY <1>5
<1> QED
  BY <1>1, <1>2, <1>3, <1>4, <1>5
     DEF Next, Work, Saves, Decides, SaveFile, Prepare, Look, Replace, Unlink, Scan, Examine,
         Reload, Repair, Launch, Fault, Edit, ScopeExpires, Crash, storeVars

\* No action comes between a journal and the image it was made from.
LEMMA JournalsStep ==
  ASSUME StoreInv, [Next]_storeVars
  PROVE  JournalsFit'
<1> USE DEF StoreInv, JournalsFit
<1>1. CASE Saves
  BY <1>1, SavesLeave
<1>2. CASE Prepare
  <2>1. CASE UNCHANGED pending
    BY <1>2, <2>1 DEF Prepare, JournalFits
  <2>2. CASE ~UNCHANGED pending
    <3> DEFINE j == Journal(op.need, op.todo)
    <3>1. pending' = {j} /\ disk' = disk /\ mem = disk
      BY <1>2, <2>2 DEF Prepare, PendingFits, MemoryFits
    <3>2. j.need = op.need /\ j.text = (IF op.need = NoNeed THEN "saved" ELSE op.need)
          /\ DOMAIN j.before = op.todo
          /\ j.image = (IF op.need = NoNeed THEN mem ELSE Settled(mem, op.need, "applied", {}))
      BY DEF Journal, Texted
    <3>3. op.need \in Needs \cup {NoNeed}
      BY DEF StoreTypes, Operations
    <3>4. CASE op.need = NoNeed
      BY <3>1, <3>2, <3>4, StoreAssumption DEF JournalFits
    <3>5. CASE op.need \in Needs
      <4>1. op.todo = Target[op.need] /\ disk.needs[op.need].execution = "pending"
        BY <1>2, <3>5 DEF Prepare, TodoFits
      <4>2. op.need # NoNeed
        BY <3>5, StoreAssumption
      <4>3. /\ j.image.revoked = mem.revoked
            /\ \A n \in Needs \ {op.need} : j.image.needs[n] = mem.needs[n]
            /\ j.image.needs[op.need].execution = "applied"
            /\ j.image.needs[op.need].state = mem.needs[op.need].state
            /\ j.image.needs[op.need].by = mem.needs[op.need].by
        BY <3>2, <3>5, <4>2 DEF Settled, StoreTypes, Images
      <4> HIDE DEF j
      <4> QED
        BY <3>1, <3>2, <3>5, <4>1, <4>2, <4>3 DEF JournalFits
    <3> QED
      BY <3>3, <3>4, <3>5
  <2> QED
    BY <2>1, <2>2
<1>3. CASE SaveOutcome
  <2>1. op.journal \in pending /\ \A j \in pending : j = op.journal
    BY <1>3 DEF SaveOutcome, PendingFits
  <2>2. pending' = pending /\ disk' = op.journal.image
    BY <1>3 DEF SaveOutcome
  <2> QED
    BY <2>1, <2>2 DEF JournalFits
<1>4. CASE SaveRecovered
  <2>1. PICK j \in pending : /\ j = op.journal /\ \A k \in pending : k = j
                              /\ JournalFits(j) /\ j.image \in Images /\ mem = disk
                              /\ j.need \in Needs \cup {NoNeed}
    BY <1>4 DEF SaveRecovered, PendingFits, MemoryFits, StoreTypes
  <2>2. pending' = pending /\ disk' = Recovered(j, op.conflicts)
    BY <1>4, <2>1 DEF SaveRecovered
  <2>3. /\ disk'.revoked = (j.image.revoked \/ mem.revoked)
        /\ \A n \in Needs :
             /\ disk'.needs[n].state = j.image.needs[n].state
             /\ disk'.needs[n].by = j.image.needs[n].by
             /\ n # j.need \/ op.conflicts = {} => disk'.needs[n] = j.image.needs[n]
             /\ n = j.need /\ op.conflicts # {} => disk'.needs[n].execution = "conflicted"
    BY <2>1, <2>2, RecoveredIs
  <2>4. disk'.revoked = j.image.revoked
    BY <2>1, <2>3 DEF JournalFits, Images
  <2>5. ASSUME j.need \in Needs
        PROVE  disk'.needs[j.need].execution \in {"applied", "conflicted"}
    <3>1. j.image.needs[j.need].execution = "applied"
      BY <2>1, <2>5 DEF JournalFits
    <3> DEFINE n == j.need
    <3>2. n \in Needs /\ n = j.need
      BY <2>5
    <3> HIDE DEF n
    <3> QED
      BY <2>3, <3>1, <3>2
  <2>6. JournalFits(j)'
    BY <2>1, <2>3, <2>4, <2>5 DEF JournalFits
  <2> QED
    BY <2>1, <2>2, <2>6 DEF JournalFits
<1>5. CASE Unlink
  BY <1>5 DEF Unlink, PendingFits
<1>6. CASE Interrupt
  BY <1>6 DEF Interrupt, PendingFits
<1>7. CASE UNCHANGED <<disk, pending>>
  BY <1>7 DEF JournalFits
<1> QED
  BY <1>1, <1>2, <1>3, <1>4, <1>5, <1>6, <1>7
     DEF Next, Work, Saves, Decides, SaveFile, Look, Replace, Scan, Examine,
         Reload, Repair, Launch, Fault, Edit, ScopeExpires, Crash, storeVars

\* Every replacement is counted, and nothing else puts the text of a proposal in a file.
LEMMA TextsStep ==
  ASSUME StoreInv, [Next]_storeVars
  PROVE  TextsFit'
<1> USE DEF StoreInv, TextsFit, StoreTypes
<1>1. CASE Prepare
  BY <1>1 DEF Prepare, TextedFiles
<1>2. CASE Replace
  <2>1. op.journal \in pending /\ JournalFits(op.journal)
    BY <1>2 DEF Replace, PendingFits, JournalsFit
  <2>2. op.file \in op.todo /\ op.file \in Files
    BY <1>2 DEF Replace, LookedAt, Operations
  <2>3. CASE op.journal.need = NoNeed
    <3>1. op.journal.text = "saved"
      BY <2>1, <2>3 DEF JournalFits
    <3> QED
      BY <1>2, <2>2, <2>3, <3>1, StoreAssumption DEF Replace, TextedFiles
  <2>4. CASE op.journal.need \in Needs
    BY <1>2, <2>1, <2>2, <2>4, StoreAssumption DEF Replace, JournalFits, TextedFiles
  <2> QED
    BY <2>1, <2>3, <2>4
<1>3. ASSUME NEW f \in Files, Edit(f)
      PROVE  TextsFit'
  BY <1>3, StoreAssumption DEF Edit, TextedFiles
<1>4. CASE UNCHANGED <<file, wrote>>
  BY <1>4
<1> QED
  BY <1>1, <1>2, <1>3, <1>4, SavesLeave
     DEF Next, Work, Saves, Decides, SaveFile, Look, SaveOutcome, SaveRecovered, Unlink, Scan,
         Examine, Reload, Interrupt, Repair, Launch, Fault, ScopeExpires, Crash, storeVars

\* What is left to do and what is done always add up to the proposal's files.
LEMMA TodoStep ==
  ASSUME StoreInv, [Next]_storeVars
  PROVE  TodoFits'
<1> USE DEF StoreInv, TodoFits
<1>1. CASE Saves
  BY <1>1, SavesLeave, StoreAssumption
<1>2. ASSUME NEW f \in Files, SaveFile(f)
      PROVE  TodoFits'
  BY <1>2, WritingLeaves, StoreAssumption DEF SaveFile
<1>3. CASE Prepare
  <2>1. CASE Throws
    BY <2>1, ThrowsLeaves, StoreAssumption
  <2>2. CASE ~Throws
    <3>1. /\ op' = [op EXCEPT !.at = "look", !.journal = Journal(op.need, op.todo)]
          /\ wrote' = wrote /\ op.at = "prepare"
      BY <1>3, <2>2 DEF Prepare
    <3>2. /\ op'.at = "look" /\ op'.need = op.need /\ op'.todo = op.todo
          /\ op'.conflicts = op.conflicts /\ op'.by = op.by
      BY <3>1 DEF StoreTypes, Operations
    <3>3. op.need \in Needs => op.conflicts = {}
      BY <3>1 DEF DriverFits
    <3> QED
      BY <3>1, <3>2, <3>3
  <2> QED
    BY <2>1, <2>2
<1>4. ASSUME NEW f \in Files, Look(f) \/ Examine(f)
      PROVE  TodoFits'
  <2>1. CASE Throws
    BY <2>1, ThrowsLeaves, StoreAssumption
  <2>2. CASE ~Throws
    <3>1. wrote' = wrote /\ op.at \in {"look", "examine"}
      BY <1>4 DEF Look, Examine
    <3>2. op.journal \in pending /\ op.need = op.journal.need /\ JournalFits(op.journal)
      BY <3>1 DEF PendingFits, JournalsFit
    <3>3. op.need \in Needs /\ file[f].text = op.journal.text => f \in wrote[op.need]
      BY <3>2 DEF JournalFits, TextsFit
    <3>4. op.at = "examine" => op.by # "write"
      BY DEF DriverFits
    <3> QED
      BY <1>4, <2>2, <3>1, <3>3, <3>4, LookLeaves
  <2> QED
    BY <2>1, <2>2
<1>5. CASE Replace
  <2>1. /\ op.journal \in pending /\ op.need = op.journal.need /\ op.file \in op.todo
        /\ op.todo \subseteq Files /\ op.at = "replace"
    BY <1>5 DEF Replace, PendingFits, LookedAt, StoreTypes, Operations
  <2>2. /\ op'.at = (IF op.by = "write" THEN "look" ELSE "examine")
        /\ op'.todo = op.todo \ {op.file} /\ op'.need = op.need /\ op'.by = op.by
        /\ op'.conflicts = op.conflicts
    BY <1>5 DEF Replace, StoreTypes, Operations
  <2>3. op.need \in Needs => wrote'[op.need] = wrote[op.need] \cup {op.file}
    BY <1>5, <2>1, StoreAssumption DEF Replace, StoreTypes
  <2> QED
    BY <2>1, <2>2, <2>3
<1>6. CASE SaveOutcome
  <2>1. op'.at = "unlink" /\ op'.need = op.need
    BY <1>6 DEF SaveOutcome, StoreTypes, Operations
  <2>2. op.need \in Needs => disk'.needs[op.need].execution = "applied"
    BY <1>6 DEF SaveOutcome, PendingFits, JournalsFit, JournalFits
  <2> QED
    BY <2>1, <2>2
<1>7. CASE SaveRecovered
  <2>1. op'.at = "unlink" /\ op'.need = op.need
    BY <1>7 DEF SaveRecovered, StoreTypes, Operations
  <2>2. op.journal \in pending /\ op.need = op.journal.need /\ op.journal.image \in Images
    BY <1>7 DEF SaveRecovered, PendingFits, StoreTypes
  <2>3. ASSUME op.need \in Needs
        PROVE  disk'.needs[op.need].execution \in {"applied", "conflicted"}
    <3>1. op.journal.image.needs[op.need].execution = "applied"
      BY <2>2, <2>3 DEF JournalsFit, JournalFits
    <3> QED
      BY <1>7, <2>2, <2>3, <3>1, RecoveredIs DEF SaveRecovered
  <2> QED
    BY <2>1, <2>3
<1>8. CASE Unlink \/ Interrupt \/ Repair \/ Launch \/ Crash
  <2>1. op'.at \in {"idle", "scan", "down"}
    BY <1>8, AtLeaves, RecoveryLeaves DEF Unlink, Interrupt, Repair, Launch, Crash
  <2> QED
    BY <2>1
<1>9. CASE Scan
  <2>1. CASE Throws
    BY <2>1, ThrowsLeaves, StoreAssumption
  <2>2. CASE op'.at \in {"reload", "interrupt"}
    BY <2>2
  <2>3. ASSUME NEW j \in pending, op'.journal = j, op'.need = j.need, op'.todo = DOMAIN j.before,
               op'.at = "examine"
        PROVE  TodoFits'
    BY <2>3 DEF JournalsFit, JournalFits
  <2> QED
    BY <1>9, <2>1, <2>2, <2>3, ScanLeaves DEF StoreInv
<1>10. CASE Reload
  BY <1>10 DEF Reload, StoreTypes, Operations
<1>11. CASE Fault
  BY <1>11, ThrowsLeaves, StoreAssumption DEF Fault
<1>12. CASE UNCHANGED <<disk, op, wrote>>
  BY <1>12
<1> QED
  BY <1>1, <1>2, <1>3, <1>4, <1>5, <1>6, <1>7, <1>8, <1>9, <1>10, <1>11, <1>12
     DEF Next, Work, Saves, Decides, Edit, ScopeExpires, storeVars

\* No action gives the scope its lease back, or looks past its end twice.
LEMMA ScopeStep ==
  ASSUME StoreInv, [Next]_storeVars
  PROVE  ScopeFits'
<1> USE DEF StoreInv, ScopeFits
<1>1. CASE Saves
  BY <1>1, SavesLeave
<1>2. ASSUME NEW f \in Files, Look(f) \/ Examine(f)
      PROVE  ScopeFits'
  <2>1. UNCHANGED <<mem, disk, lease, late>>
    BY <1>2 DEF Look, Examine
  <2>2. CASE Throws
    BY <2>1, <2>2, ThrowsLeaves
  <2>3. CASE ~Throws
    <3>1. op'.at = "replace" => Authorized(op.journal)
      BY <1>2, <2>3, LookLeaves
    <3>2. op'.journal = op.journal
      BY <1>2, <2>3, LookLeaves
    <3>3. Authorized(op.journal) => ~ByScope(op.journal) \/ lease
      BY DEF Authorized, ByScope, ScopeLive
    <3> QED
      BY <2>1, <3>1, <3>2, <3>3 DEF ByScope
  <2> QED
    BY <2>2, <2>3
<1>3. CASE Replace
  <2>1. UNCHANGED <<mem, disk, lease>> /\ op'.at # "replace"
    BY <1>3 DEF Replace, StoreTypes, Operations
  <2>2. late' = (IF Authorized(op.journal) THEN late ELSE late + 1)
    BY <1>3 DEF Replace
  <2>3. ~Authorized(op.journal) => ByScope(op.journal) /\ ~lease
    BY DEF Authorized, ByScope, ScopeLive
  <2>4. ~Authorized(op.journal) => late = 0
    BY <1>3, <2>3 DEF Replace
  <2> QED
    BY <2>1, <2>2, <2>3, <2>4
<1>4. CASE SaveOutcome \/ SaveRecovered
  <2>1. UNCHANGED <<lease, late>> /\ mem' = disk' /\ op'.at = "unlink"
    BY <1>4 DEF SaveOutcome, SaveRecovered, StoreTypes, Operations
  <2>2. /\ op.journal \in pending /\ JournalFits(op.journal) /\ op.journal.image \in Images
        /\ op.journal.need \in Needs \cup {NoNeed}
    BY <1>4 DEF SaveOutcome, SaveRecovered, PendingFits, JournalsFit, StoreTypes
  <2>3. disk'.revoked => disk.revoked \/ mem.revoked
    <3>1. CASE SaveOutcome
      BY <2>2, <3>1 DEF SaveOutcome, JournalFits
    <3>2. CASE SaveRecovered
      BY <2>2, <3>2, RecoveredIs DEF SaveRecovered, JournalFits
    <3> QED
      BY <1>4, <3>1, <3>2
  <2> QED
    BY <2>1, <2>3
<1>5. CASE Interrupt
  BY <1>5, AtLeaves DEF Interrupt, Interrupted, StoreTypes, Images
<1>6. CASE Fault
  <2>1. UNCHANGED <<disk, lease, late>> /\ op'.at # "replace"
    BY <1>6, ThrowsLeaves DEF Fault
  <2>2. mem'.revoked = mem.revoked
    BY <1>6 DEF Fault, Interrupted, StoreTypes, Images
  <2> QED
    BY <2>1, <2>2
<1>7. CASE Crash \/ Launch \/ Reload
  BY <1>7, AtLeaves, RecoveryLeaves DEF Crash, Launch, Reload, StoreTypes, Operations
<1>8. CASE ScopeExpires
  BY <1>8 DEF ScopeExpires
<1>9. ASSUME UNCHANGED <<mem, disk, lease, late>>, op'.at # "replace"
      PROVE  ScopeFits'
  BY <1>9
<1>10. CASE Prepare
  BY <1>9, <1>10, ThrowsLeaves DEF Prepare, StoreTypes, Operations
<1>11. CASE Unlink \/ Repair
  BY <1>9, <1>11, AtLeaves, RecoveryLeaves DEF Unlink, Repair
<1>12. CASE Scan
  BY <1>9, <1>12, ThrowsLeaves, ScanLeaves DEF Scan
<1>13. ASSUME NEW f \in Files, SaveFile(f)
       PROVE  ScopeFits'
  BY <1>9, <1>13, WritingLeaves DEF SaveFile
<1>14. CASE (\E f \in Files : Edit(f)) \/ UNCHANGED storeVars
  BY <1>14 DEF Edit, storeVars
<1> QED
  BY <1>1, <1>2, <1>3, <1>4, <1>5, <1>6, <1>7, <1>8, <1>10, <1>11, <1>12, <1>13, <1>14
     DEF Next, Work, Saves, Decides

\* Whoever is about to replace a file has looked at it.
LEMMA LookedStep ==
  ASSUME StoreInv, [Next]_storeVars
  PROVE  LookedAt'
<1> USE DEF StoreInv, LookedAt
<1>1. ASSUME NEW f \in Files, Look(f) \/ Examine(f)
      PROVE  LookedAt'
  <2>1. file' = file
    BY <1>1 DEF Look, Examine
  <2> QED
    BY <1>1, <2>1, ThrowsLeaves, LookLeaves
<1>2. ASSUME NEW f \in Files, Edit(f)
      PROVE  LookedAt'
  BY <1>2 DEF Edit, StoreTypes, TextedFiles
<1>3. ASSUME op'.at # "replace"
      PROVE  LookedAt'
  BY <1>3
<1>4. CASE Saves
  BY <1>3, <1>4, SavesLeave
<1>5. CASE Replace \/ SaveOutcome \/ SaveRecovered \/ Reload
  BY <1>3, <1>5 DEF Replace, SaveOutcome, SaveRecovered, Reload, StoreTypes, Operations
<1>6. CASE Prepare
  BY <1>3, <1>6, ThrowsLeaves DEF Prepare, StoreTypes, Operations
<1>7. CASE Unlink \/ Interrupt \/ Repair \/ Launch \/ Crash
  BY <1>3, <1>7, AtLeaves, RecoveryLeaves DEF Unlink, Interrupt, Repair, Launch, Crash
<1>8. CASE Scan \/ Fault
  BY <1>3, <1>8, ThrowsLeaves, ScanLeaves DEF Fault
<1>9. ASSUME NEW f \in Files, SaveFile(f)
      PROVE  LookedAt'
  BY <1>3, <1>9, WritingLeaves DEF SaveFile
<1>10. CASE UNCHANGED <<file, op>>
  BY <1>10
<1> QED
  BY <1>1, <1>2, <1>4, <1>5, <1>6, <1>7, <1>8, <1>9, <1>10
     DEF Next, Work, Saves, Decides, ScopeExpires, storeVars

-------------------------------------------------------------------------------
\* What the save at the end of a write or of a recovery leaves.
LEMMA OutcomeLeaves ==
  ASSUME StoreInv, SaveOutcome \/ SaveRecovered
  PROVE  /\ op.journal \in pending /\ op.need = op.journal.need
         /\ UNCHANGED <<pending, wrote>>
         /\ \A n \in Needs \ {op.need} : disk'.needs[n] = disk.needs[n]
         /\ op.need \in Needs =>
              \/ /\ disk'.needs[op.need].execution = "applied"
                 /\ wrote[op.need] = Target[op.need]
              \/ /\ disk'.needs[op.need].execution = "conflicted"
                 /\ Target[op.need] \ disk'.needs[op.need].conflicts \subseteq wrote[op.need]
<1> USE DEF StoreInv
<1>1. /\ op.journal \in pending /\ op.need = op.journal.need /\ UNCHANGED <<pending, wrote>>
      /\ op.todo = {} /\ op.at \in {"look", "examine"}
      /\ JournalFits(op.journal) /\ op.journal.image \in Images /\ mem = disk
      /\ op.journal.need \in Needs \cup {NoNeed}
  BY DEF SaveOutcome, SaveRecovered, PendingFits, JournalsFit, StoreTypes, MemoryFits
<1>2. ASSUME op.need \in Needs
      PROVE  /\ op.journal.image.needs[op.need].execution = "applied"
             /\ Target[op.need] \ op.conflicts \subseteq wrote[op.need]
             /\ wrote[op.need] \subseteq Target[op.need]
             /\ op.at = "look" => op.conflicts = {}
  BY <1>1, <1>2 DEF JournalFits, TodoFits, StoreTypes, DriverFits
<1>3. CASE disk' = op.journal.image /\ op.conflicts = {}
  BY <1>1, <1>2, <1>3 DEF JournalFits
<1>4. CASE SaveRecovered
  <2>1. disk' = Recovered(op.journal, op.conflicts)
    BY <1>4 DEF SaveRecovered
  <2>2. CASE op.need \in Needs /\ op.conflicts # {}
    <3>1. /\ \A n \in Needs \ {op.need} : disk'.needs[n] = op.journal.image.needs[n]
          /\ disk'.needs[op.need].execution = "conflicted"
          /\ disk'.needs[op.need].conflicts = op.conflicts
      BY <1>1, <2>1, <2>2, RecoveredIs
    <3> QED
      BY <1>1, <1>2, <2>2, <3>1 DEF JournalFits
  <2>3. CASE ~(op.need \in Needs /\ op.conflicts # {})
    <3>1. \A n \in Needs : disk'.needs[n] = op.journal.image.needs[n]
      BY <1>1, <2>1, <2>3, RecoveredIs
    <3> QED
      BY <1>1, <1>2, <2>3, <3>1 DEF JournalFits
  <2> QED
    BY <2>2, <2>3
<1>5. CASE SaveOutcome
  <2>1. disk' = op.journal.image /\ op.at = "look"
    BY <1>5 DEF SaveOutcome
  <2>2. \A n \in Needs \ {op.need} : disk'.needs[n] = disk.needs[n]
    BY <1>1, <2>1 DEF JournalFits
  <2> QED
    BY <1>1, <1>2, <2>1, <2>2
<1> QED
  BY <1>4, <1>5

\* A replacement is made in the name of the proposal that the journal is for.
LEMMA ReplaceLeaves ==
  ASSUME StoreInv, Replace
  PROVE  /\ op.journal \in pending /\ op.need = op.journal.need
         /\ UNCHANGED <<disk, pending>>
         /\ \A n \in Needs \ {op.need} : wrote'[n] = wrote[n]
         /\ op.need \in Needs =>
              /\ wrote'[op.need] = wrote[op.need] \cup {op.file}
              /\ op.file \in Target[op.need]
              /\ disk.needs[op.need].execution \in {"pending", "applied", "conflicted"}
<1> USE DEF StoreInv
<1>1. /\ op.journal \in pending /\ op.need = op.journal.need /\ JournalFits(op.journal)
      /\ UNCHANGED <<disk, pending>> /\ op.file \in op.todo
      /\ wrote' = IF op.need = NoNeed THEN wrote
                   ELSE [wrote EXCEPT ![op.need] = @ \cup {op.file}]
  BY DEF Replace, PendingFits, JournalsFit, LookedAt
<1>2. op.need \in Needs =>
        op.file \in Target[op.need]
        /\ disk.needs[op.need].execution \in {"pending", "applied", "conflicted"}
  BY <1>1 DEF Replace, TodoFits, JournalFits
<1>3. wrote \in [Needs -> SUBSET Files] /\ op.need \in Needs \cup {NoNeed}
  BY DEF StoreTypes, Operations
<1> QED
  BY <1>1, <1>2, <1>3, StoreAssumption

\* Interrupting closes what was decided and is not prepared.
LEMMA InterruptLeaves ==
  ASSUME StoreInv, Interrupt, NEW n \in Needs
  PROVE  /\ pending = {} /\ UNCHANGED <<pending, wrote>>
         /\ LET was == disk.needs[n]
                is == disk'.needs[n]
            IN \/ is = was /\ was.execution # "pending"
               \/ was.execution = "pending" /\ is.execution = "not-applied" /\ wrote[n] = {}
               \/ /\ was.state = "open" /\ was.execution = "none"
                  /\ is.state = "expired" /\ is.execution = "none"
<1> USE DEF StoreInv
<1>1. pending = {} /\ UNCHANGED <<pending, wrote>> /\ mem = disk /\ disk' = Interrupted(disk)
  BY DEF Interrupt, PendingFits, MemoryFits
<1>2. disk.needs[n].execution = "pending" => wrote[n] = {}
  BY <1>1 DEF EffectIsAccounted
<1>3. disk.needs[n].state = "open" => disk.needs[n].execution = "none"
  BY DEF UndecidedIsUntouched
<1>4. disk'.needs[n] =
        CASE disk.needs[n].execution = "pending"
               -> [disk.needs[n] EXCEPT !.execution = "not-applied"]
          [] disk.needs[n].state = "open" /\ op.by = "launch"
               -> [disk.needs[n] EXCEPT !.state = "expired"]
          [] OTHER -> disk.needs[n]
  BY <1>1 DEF Interrupted, StoreTypes, Images
<1>5. disk.needs[n] \in Needing
  BY DEF StoreTypes, Images, Needing
<1> QED
  BY <1>1, <1>2, <1>3, <1>4, <1>5 DEF Needing

\* Every effect stays accounted for.
LEMMA EffectStep ==
  ASSUME StoreInv, [Next]_storeVars
  PROVE  EffectIsAccounted'
<1> USE DEF StoreInv, EffectIsAccounted
<1>1. CASE Saves
  BY <1>1, SavesLeave DEF Moves, UndecidedIsUntouched
<1>2. CASE Replace
  BY <1>2, ReplaceLeaves
<1>3. CASE SaveOutcome \/ SaveRecovered
  BY <1>3, OutcomeLeaves DEF PendingFits
<1>4. CASE Unlink
  <2>1. /\ op.journal \in pending /\ op.need = op.journal.need /\ UNCHANGED <<disk, wrote>>
        /\ \A j \in pending : j = op.journal
    BY <1>4 DEF Unlink, PendingFits
  <2>2. op.need \in Needs => disk.needs[op.need].execution \in {"applied", "conflicted"}
    BY <1>4 DEF Unlink, TodoFits
  <2> QED
    BY <2>1, <2>2
<1>5. CASE Interrupt
  BY <1>5, InterruptLeaves
<1>6. CASE Prepare
  BY <1>6 DEF Prepare
<1>7. CASE UNCHANGED <<disk, pending, wrote>>
  BY <1>7
<1> QED
  BY <1>1, <1>2, <1>3, <1>4, <1>5, <1>6, <1>7
     DEF Next, Work, Saves, Decides, SaveFile, Look, Scan, Examine, Reload, Repair, Launch,
         Fault, Edit, ScopeExpires, Crash, storeVars

\* The saved image stays truthful.
LEMMA SettledStep ==
  ASSUME StoreInv, [Next]_storeVars
  PROVE  SettledTruthfully'
<1> USE DEF StoreInv, SettledTruthfully
<1>1. CASE Saves
  <2> SUFFICES ASSUME NEW n \in Needs
               PROVE  LET need == disk'.needs[n] IN
                        /\ need.execution = "applied" => wrote'[n] = Target[n]
                        /\ need.execution = "conflicted" => Target[n] \ need.conflicts \subseteq wrote'[n]
                        /\ need.execution \in {"none", "declined", "not-applied"} => wrote'[n] = {}
    OBVIOUS
  <2>1. Moves(n) /\ wrote' = wrote
    BY <1>1, SavesLeave
  <2> QED
    BY <2>1 DEF Moves, UndecidedIsUntouched
<1>2. CASE Replace
  <2>1. \A n \in Needs : wrote[n] \subseteq Target[n]
    BY DEF StoreTypes
  <2>2. disk' = disk /\ \A n \in Needs \ {op.need} : wrote'[n] = wrote[n]
    BY <1>2, ReplaceLeaves
  <2>3. ASSUME op.need \in Needs
        PROVE  /\ wrote'[op.need] = wrote[op.need] \cup {op.file}
               /\ op.file \in Target[op.need]
               /\ disk.needs[op.need].execution \in {"pending", "applied", "conflicted"}
    BY <1>2, <2>3, ReplaceLeaves
  <2>4. ASSUME op.need \in Needs, disk.needs[op.need].execution = "applied"
        PROVE  wrote'[op.need] = Target[op.need]
    <3>1. wrote[op.need] = Target[op.need]
      BY <2>4
    <3>2. wrote'[op.need] = wrote[op.need] \cup {op.file} /\ op.file \in Target[op.need]
      BY <2>3, <2>4
    <3>3. Target[op.need] \cup {op.file} = Target[op.need]
      BY <3>2
    <3> QED
      BY <3>1, <3>2, <3>3
  <2>5. ASSUME op.need \in Needs, disk.needs[op.need].execution = "conflicted"
        PROVE  Target[op.need] \ disk.needs[op.need].conflicts \subseteq wrote'[op.need]
    <3>1. Target[op.need] \ disk.needs[op.need].conflicts \subseteq wrote[op.need]
      BY <2>5
    <3> QED
      BY <2>3, <2>5, <3>1
  <2>6. ASSUME NEW n \in Needs
        PROVE  LET need == disk'.needs[n] IN
                 /\ need.execution = "applied" => wrote'[n] = Target[n]
                 /\ need.execution = "conflicted" => Target[n] \ need.conflicts \subseteq wrote'[n]
                 /\ need.execution \in {"none", "declined", "not-applied"} => wrote'[n] = {}
    <3>1. CASE n = op.need
      BY <2>2, <2>3, <2>4, <2>5, <3>1
    <3>2. CASE n # op.need
      BY <2>2, <3>2
    <3> QED
      BY <3>1, <3>2
  <2> QED
    BY <2>6
<1>3. CASE SaveOutcome \/ SaveRecovered
  BY <1>3, OutcomeLeaves
<1>4. CASE Interrupt
  BY <1>4, InterruptLeaves
<1>5. CASE UNCHANGED <<disk, wrote>>
  BY <1>5
<1> QED
  BY <1>1, <1>2, <1>3, <1>4, <1>5
     DEF Next, Work, Saves, Decides, SaveFile, Prepare, Look, Unlink, Scan, Examine, Reload,
         Repair, Launch, Fault, Edit, ScopeExpires, Crash, storeVars

-------------------------------------------------------------------------------
LEMMA StoreInit == Init => StoreInv
<1> SUFFICES ASSUME Init PROVE StoreInv
  OBVIOUS
<1>1. op.at = "idle" /\ op.by = "none" /\ op.need = NoNeed
  BY AtLeaves DEF Init
<1>2. \A n \in Needs : disk.needs[n] = Unborn /\ wrote[n] = {}
  BY DEF Init
<1>3. \A n \in Needs : \A f \in Files : file[f].text # n
  BY StoreAssumption DEF Init
<1>4. DriverFits /\ PendingFits /\ MemoryFits /\ JournalsFit /\ TodoFits /\ ScopeFits /\ LookedAt
  BY <1>1, StoreAssumption
     DEF Init, DriverFits, PendingFits, MemoryFits, JournalsFit, TodoFits, ScopeFits, LookedAt
<1>5. UndecidedIsUntouched /\ TextsFit /\ EffectIsAccounted /\ SettledTruthfully
  BY <1>2, <1>3 DEF UndecidedIsUntouched, TextsFit, EffectIsAccounted, SettledTruthfully, Unborn
<1> QED
  BY <1>4, <1>5, TypesInit DEF StoreInv

LEMMA StoreStep == StoreInv /\ [Next]_storeVars => StoreInv'
BY TypesStep, DriverStep, PendingStep, MemoryStep, UndecidedStep, JournalsStep, TodoStep,
   TextsStep, ScopeStep, LookedStep, EffectStep, SettledStep DEF StoreInv

LEMMA StoreInvariance == Spec => []StoreInv
BY StoreInit, StoreStep, PTL DEF Spec

\* Every variable of the store keeps its type, for any proposals, files and failures.
THEOREM StoreTypeCorrect == Spec => []TypeOK
<1>1. StoreInv => TypeOK
  <2> SUFFICES ASSUME StoreInv PROVE TypeOK
    OBVIOUS
  <2>1. StoreTypes
    BY DEF StoreInv
  <2>2. count \in [{"edits", "saves", "faults", "crashes"} -> Nat]
    BY <2>1 DEF StoreTypes, Counts
  <2>3. /\ op.at \in {"idle", "down", "stop", "prepare", "look", "replace", "unlink", "scan",
                       "examine", "reload", "interrupt"}
        /\ op.by \in {"none", "write", "rescue", "call", "launch"}
        /\ op.journal \in pending \cup {NoJournal}
        /\ op.todo \subseteq Files /\ op.conflicts \subseteq Files
        /\ op.file \in Files \cup {NoFile}
    BY <2>1 DEF StoreTypes, Operations
  <2> QED
    BY <2>1, <2>2, <2>3 DEF StoreTypes, TypeOK, TextedFiles
<1> QED
  BY <1>1, StoreInvariance, PTL

\* No file is replaced in the name of a proposal without a record to tell.
THEOREM EffectsAreAccounted == Spec => []EffectIsAccounted
<1>1. StoreInv => EffectIsAccounted
  BY DEF StoreInv
<1> QED
  BY <1>1, StoreInvariance, PTL

\* What the saved image says of a proposal is what became of its files.
THEOREM OutcomesAreTrue == Spec => []SettledTruthfully
<1>1. StoreInv => SettledTruthfully
  BY DEF StoreInv
<1> QED
  BY <1>1, StoreInvariance, PTL

\* No newer state is saved while a journal is left.
THEOREM JournalsAreNotOvertaken == Spec => []NothingOvertakesAJournal
<1>1. StoreInv => NothingOvertakesAJournal
  <2> SUFFICES ASSUME StoreInv PROVE NothingOvertakesAJournal
    OBVIOUS
  <2>1. pending = {} \/ \E j : pending = {j}
    BY DEF StoreInv, PendingFits
  <2>2. Cardinality(pending) <= 1
    <3>1. CASE pending = {}
      BY <3>1, FS_EmptySet
    <3>2. CASE \E j : pending = {j}
      <4>1. PICK j : pending = {j}
        BY <3>2
      <4>2. Cardinality({j}) = 1
        BY FS_Singleton
      <4> QED
        BY <4>1, <4>2
    <3> QED
      BY <2>1, <3>1, <3>2
  <2> QED
    BY <2>2 DEF StoreInv, JournalsFit, JournalFits, NothingOvertakesAJournal
<1> QED
  BY <1>1, StoreInvariance, PTL

\* Recovery accepts whatever journal this code has left.
THEOREM RecoveryIsNotBlocked == Spec => []RecoveryAcceptsItsJournals
<1>1. StoreInv => RecoveryAcceptsItsJournals
  <2> SUFFICES ASSUME StoreInv, NEW j \in pending PROVE Consistent(j)
    BY DEF RecoveryAcceptsItsJournals
  <2>1. JournalFits(j) /\ mem = disk /\ j.need \in Needs \cup {NoNeed}
    BY DEF StoreInv, JournalsFit, MemoryFits, StoreTypes
  <2>2. CASE j.need = NoNeed
    BY <2>1, <2>2, StoreAssumption DEF Consistent, JournalFits
  <2>3. CASE j.need \in Needs
    BY <2>1, <2>3, StoreAssumption DEF Consistent, JournalFits
  <2> QED
    BY <2>1, <2>2, <2>3
<1> QED
  BY <1>1, StoreInvariance, PTL

\* A scope that ends stops its writes, but for one that had been looked at.
THEOREM EndedScopeWritesOnce == Spec => []ScopeEndStopsWrites
<1>1. StoreInv => ScopeEndStopsWrites
  BY DEF StoreInv, ScopeFits, ScopeEndStopsWrites
<1> QED
  BY <1>1, StoreInvariance, PTL

\* No text of another program is lost, but for those that cannot be seen.
THEOREM OutsideTextsAreKept == Spec => OutsideEditsAreKept
<1>1. StoreInv /\ [Next]_storeVars =>
        [\A f \in Files : Replaced(f) /\ file[f].how = "outside"
                           => file[f].text = op.journal.before[f]]_storeVars
  BY DEF StoreInv, LookedAt, Replaced
<1> QED
  BY <1>1, StoreInvariance, PTL DEF Spec, OutsideEditsAreKept

-------------------------------------------------------------------------------
\* What is on record is a function of the state and the execution of a proposal.
LEMMA RecordIs ==
  ASSUME NEW need
  PROVE  /\ OnRecord(need) \in Approvals!Statuses
         /\ need.execution = "pending" => OnRecord(need) = "accepted"
         /\ need.execution \in {"applied", "conflicted", "not-applied"}
              => OnRecord(need) = need.execution
         /\ need.execution \in {"none", "declined"} /\ need.state \in {"declined", "expired"}
              => OnRecord(need) = "refused"
         /\ need.execution = "none" /\ need.state \in {"none", "open"}
              => OnRecord(need) = "undecided"
<1>1. need.execution = "pending" => OnRecord(need) = "accepted"
  BY DEF OnRecord
<1>2. need.execution \in {"applied", "conflicted", "not-applied"} => OnRecord(need) = need.execution
  BY DEF OnRecord
<1>3. need.execution \in {"none", "declined"} /\ need.state \in {"declined", "expired"}
        => OnRecord(need) = "refused"
  BY DEF OnRecord
<1>4. CASE /\ need.execution \notin {"pending", "applied", "conflicted", "not-applied"}
           /\ need.state \notin {"declined", "expired"}
  <2>1. OnRecord(need) = "undecided"
    BY <1>4 DEF OnRecord
  <2> QED
    BY <1>4, <2>1 DEF Approvals!Statuses, Approvals!Closed
<1>5. CASE /\ need.execution \notin {"pending", "applied", "conflicted", "not-applied"}
           /\ need.state \in {"declined", "expired"}
  <2>1. OnRecord(need) = "refused"
    BY <1>5 DEF OnRecord
  <2> QED
    BY <1>5, <2>1 DEF Approvals!Statuses, Approvals!Closed
<1> QED
  BY <1>1, <1>2, <1>3, <1>4, <1>5 DEF Approvals!Statuses, Approvals!Closed

\* Every step of the store is a step of the ledger for every proposal, or none.
LEMMA RecordsStep ==
  ASSUME StoreInv, StoreInv', [Next]_storeVars, NEW n \in Needs
  PROVE  Approvals!Decides(n) \/ Approvals!Touches(n) \/ Approvals!Closes(n) \/ Approvals!Rests(n)
<1> DEFINE was == disk.needs[n]
           is == disk'.needs[n]
<1>0. /\ [k \in Needs |-> OnRecord(disk.needs[k])][n] = OnRecord(was)
      /\ [k \in Needs |-> OnRecord(disk.needs[k])]'[n] = OnRecord(is)
  OBVIOUS
<1> HIDE DEF was, is
<1>1. ASSUME wrote'[n] = wrote[n], is = was
      PROVE  Approvals!Rests(n)
  BY <1>0, <1>1 DEF Approvals!Rests
<1>2. CASE Saves
  <2>1. Moves(n) /\ wrote' = wrote
    BY <1>2, SavesLeave DEF StoreInv
  <2>2. was.state \in {"none", "open"} => was.execution = "none"
    BY DEF StoreInv, UndecidedIsUntouched, was
  <2>3. CASE is = was
    BY <1>1, <2>1, <2>3
  <2>4. CASE is # was
    <3>1. OnRecord(was) = "undecided"
      BY <2>1, <2>2, <2>4, RecordIs DEF Moves, was, is
    <3>2. OnRecord(is) \in {"undecided", "refused", "accepted"}
      BY <2>1, <2>2, <2>4, RecordIs DEF Moves, was, is
    <3> QED
      BY <1>0, <2>1, <3>1, <3>2 DEF Approvals!Decides
  <2> QED
    BY <2>3, <2>4
<1>3. CASE Replace
  <2>1. CASE n # op.need
    BY <1>1, <1>3, <2>1, ReplaceLeaves DEF was, is
  <2>2. CASE n = op.need
    <3>1. /\ was.execution \in {"pending", "applied", "conflicted"} /\ is = was
          /\ wrote[n] \subseteq wrote'[n]
      BY <1>3, <2>2, ReplaceLeaves DEF was, is
    <3>2. OnRecord(was) \in {"accepted", "applied", "conflicted"}
      BY <3>1, RecordIs
    <3> QED
      BY <1>0, <3>1, <3>2 DEF Approvals!Touches
  <2> QED
    BY <2>1, <2>2
<1>4. CASE SaveOutcome \/ SaveRecovered
  <2>1. CASE n # op.need
    BY <1>1, <1>4, <2>1, OutcomeLeaves DEF was, is
  <2>2. CASE n = op.need
    <3>1. /\ wrote' = wrote
          /\ \/ is.execution = "applied" /\ wrote[n] = Target[n]
             \/ is.execution = "conflicted"
      BY <1>4, <2>2, OutcomeLeaves DEF is
    <3>2. was.execution \in {"pending", "applied", "conflicted"}
      BY <1>4, <2>2, OutcomeLeaves DEF StoreInv, JournalsFit, JournalFits, was
    <3>3. OnRecord(was) \in {"accepted", "applied", "conflicted"} /\ OnRecord(is) = is.execution
      BY <3>1, <3>2, RecordIs
    <3> QED
      BY <1>0, <3>1, <3>3 DEF Approvals!Closes
  <2> QED
    BY <2>1, <2>2
<1>5. CASE Interrupt
  <2>1. wrote' = wrote
    BY <1>5, InterruptLeaves
  <2>2. CASE is = was
    BY <1>1, <2>1, <2>2
  <2>3. CASE was.execution = "pending" /\ is.execution = "not-applied" /\ wrote[n] = {}
    <3>1. OnRecord(was) = "accepted" /\ OnRecord(is) = "not-applied"
      BY <2>3, RecordIs
    <3> QED
      BY <1>0, <2>1, <2>3, <3>1 DEF Approvals!Closes
  <2>4. CASE /\ was.state = "open" /\ was.execution = "none"
             /\ is.state = "expired" /\ is.execution = "none"
    <3>1. OnRecord(was) = "undecided" /\ OnRecord(is) = "refused"
      BY <2>4, RecordIs
    <3> QED
      BY <1>0, <2>1, <3>1 DEF Approvals!Decides
  <2> QED
    BY <1>5, <2>2, <2>3, <2>4, InterruptLeaves DEF was, is
<1>6. CASE UNCHANGED <<disk, wrote>>
  BY <1>1, <1>6 DEF was, is
<1> QED
  BY <1>2, <1>3, <1>4, <1>5, <1>6
     DEF Next, Work, Saves, Decides, SaveFile, Prepare, Look, Unlink, Scan, Examine, Reload,
         Repair, Launch, Fault, Edit, ScopeExpires, Crash, storeVars

\* The store implements the ledger of proposals: each is decided once, touched only
\* after the decision to go ahead is saved, and closed with the truth.
THEOREM StoreImplementsApprovals == Spec => ImplementsApprovals
<1>1. Init => Approvals!Init
  <2> SUFFICES ASSUME Init PROVE Approvals!Init
    OBVIOUS
  <2>1. \A n \in Needs : OnRecord(disk.needs[n]) = "undecided"
    BY RecordIs DEF Init, Unborn
  <2> QED
    BY <2>1 DEF Init, Approvals!Init
<1>2. StoreInv /\ StoreInv' /\ [Next]_storeVars => [Approvals!Next]_(Approvals!approvalVars)
  <2> SUFFICES ASSUME StoreInv, StoreInv', [Next]_storeVars
               PROVE  Approvals!Next
    OBVIOUS
  <2>1. [n \in Needs |-> OnRecord(disk.needs[n])]' \in [Needs -> Approvals!Statuses]
    BY RecordIs
  <2>2. \A n \in Needs :
          Approvals!Decides(n) \/ Approvals!Touches(n) \/ Approvals!Closes(n) \/ Approvals!Rests(n)
    BY RecordsStep
  <2> QED
    BY <2>1, <2>2 DEF Approvals!Next
<1> QED
  BY <1>1, <1>2, StoreInvariance, PTL DEF Spec, ImplementsApprovals, Approvals!Approvals
===============================================================================
