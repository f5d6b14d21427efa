------------------------- MODULE InventoryStockProofs -------------------------
(***************************************************************************)
(* Proofs about InventoryStock, for every set of commands and balances and *)
(* any number of calls, failures, crashes, edits and changes of access:    *)
(* receipts and the History agree or one journal says what is owed, and    *)
(* what callers are told is so.                                            *)
(***************************************************************************)
EXTENDS InventoryStock, FiniteSetTheorems, WellFoundedInduction, TLAPS

\* A command under way: authorized, and past its recovery.
Committing == {"journal", "guard", "replace", "catch", "undo", "persist", "finish"}

CallRecords ==
  [at : Stages, kind : {"none", "view", "status", "execute", "launch"}, op : Ops \cup {NoOp},
   generation : 0..MaxChanges, journal : Journals \cup {NoJournal},
   reason : {"none", "denied", "conflict", "error"}]
Answers == [kind : Kinds, receipt : 0..MaxCalls]
Plans == {NoPlan} \cup UNION {[Touches[o] -> 0..MaxCalls] : o \in Ops}
Counts ==
  [calls : 0..MaxCalls, faults : 0..MaxFaults, crashes : 0..MaxCrashes, edits : 0..MaxEdits,
   changes : 0..MaxChanges]

StockTypes ==
  /\ stock \in Documents
  /\ pending \subseteq Journals
  /\ hist \subseteq Rows /\ landed \subseteq Rows
  /\ access \in [may : SUBSET {"read", "apply"}, generation : 0..MaxChanges]
  /\ access.generation <= count.changes
  /\ call \in CallRecords
  /\ plan \in [Ops -> Plans]
  /\ \A o \in Ops : plan[o] = NoPlan \/ plan[o] \in [Touches[o] -> 0..MaxCalls]
  /\ answer \in [Ops -> Answers]
  /\ count \in Counts

\* Who stands where, and with what: recovery has a journal in hand only to settle it, a
\* command has the one it made, and only a launch has no command to answer.
CallFits ==
  /\ call.at \in {"idle", "down"} => call.kind = "none"
  /\ call.at \notin {"idle", "down"} => /\ call.kind # "none"
                                         /\ call.kind # "launch" => call.op \in Ops
  /\ call.kind = "launch" => call.at \in {"recover", "record", "drop"} /\ call.op = NoOp
  /\ call.at \in {"record", "drop"} \cup Committing => call.journal \in Journals
  /\ call.at \in Committing => /\ call.kind = "execute"
                                /\ call.journal.row = [op |-> call.op, receipt |-> count.calls]
  /\ call.kind = "execute" => count.calls > 0
  /\ call.at \in {"catch", "undo"} => call.reason \in {"denied", "conflict", "error"}

\* There is one journal at a time: none when a document is read, and a command that is
\* past its own journal has it there until it is removed.
PendingFits ==
  /\ \A i, j \in pending : i = j
  /\ call.at \in {"read", "journal"} => pending = {}
  /\ call.at \in {"record", "drop", "guard", "replace", "catch", "undo", "persist", "finish"}
       => call.journal \in pending

\* A journal tells a document whose receipts all have their entries from the same with
\* one more receipt, for an operation that had none.
JournalFits(j) ==
  /\ j.after = With(j.before, j.row)
  /\ j.before.rows \subseteq hist
  /\ \A r \in j.before.rows : r.op # j.row.op
  /\ \A r, s \in j.before.rows : r.op = s.op => r = s
JournalsFit ==
  /\ \A j \in pending : JournalFits(j)
  /\ call.at = "journal" => JournalFits(call.journal)

\* The receipts in the document: one for each operation, put there by the service, and
\* with an entry, or a journal that owes it.
ReceiptsFit ==
  /\ stock.rows \subseteq hist \cup {j.row : j \in pending}
  /\ stock.rows \subseteq landed
  /\ hist \subseteq landed
  /\ \A r, s \in stock.rows : r.op = s.op => r = s

\* Where the command of the call that is being made stands: not replaced, perhaps, or
\* for certain; and what it is that recovery settles.
NotYet ==
  \/ call.at \in {"journal", "guard", "replace"}
  \/ call.at \in {"catch", "undo"} /\ call.reason # "error"
ProgressFits ==
  /\ NotYet => \A r \in stock.rows : r.op # call.op
  /\ call.at = "undo" => call.journal.row \notin stock.rows
  /\ call.at \in {"record", "persist"} => call.journal.row \in landed
  /\ call.at = "finish" => call.journal.row \in hist
  /\ call.at = "drop" => call.journal.row \in hist \/ call.journal.row \notin stock.rows

\* A receipt carries the number of the call that drew it.
ReceiptsAreNumbered ==
  /\ \A r \in landed : r.receipt <= count.calls
  /\ call.kind = "execute" /\ (NotYet \/ call.at \in {"recover", "record", "drop", "read"})
       => \A r \in landed : r.receipt # count.calls

\* What holds as long as no other program has changed the document.
UntouchedFits ==
  count.edits = 0 =>
    /\ landed = stock.rows
    /\ \A j \in pending : stock = j.before \/ j.row \in stock.rows
    /\ call.at \in {"journal", "guard", "replace"} => stock = call.journal.before
    /\ call.at \in {"catch", "undo"} => call.reason # "conflict"

StockInv ==
  /\ StockTypes
  /\ CallFits
  /\ PendingFits
  /\ JournalsFit
  /\ ReceiptsFit
  /\ ProgressFits
  /\ ReceiptsAreNumbered
  /\ UntouchedFits
-------------------------------------------------------------------------------
\* The greatest element of a set of bounded numbers is one of them.
LEMMA MaxIsMember ==
  ASSUME NEW n \in Nat, NEW S, S \subseteq 0..n, S # {}
  PROVE  Max(S) \in S
<1> DEFINE T == {k \in 0..n : n - k \in S}
<1>1. PICK s \in S : TRUE
  OBVIOUS
<1>2. T \subseteq Nat /\ n - s \in T
  OBVIOUS
<1>3. PICK t \in T : \A k \in T : <<k, t>> \notin OpToRel(<, Nat)
  <2> HIDE DEF T
  <2> QED
    BY <1>2, WFMin, NatLessThanWellFounded, Zenon
<1>4. \A k \in T : ~ (k < t)
  BY <1>2, <1>3 DEF OpToRel
<1>5. \A x \in S : ~ (n - x < t)
  <2> TAKE x \in S
  <2>1. n - x \in T
    OBVIOUS
  <2> QED
    BY <1>4, <2>1
<1>6. \E x \in S : \A y \in S : x >= y
  BY <1>5
<1> QED
  BY <1>6 DEF Max

\* Versions are receipts' numbers, or 0 for a balance nobody has changed.
LEMMA VersionsTypes ==
  ASSUME NEW doc \in Documents, NEW o \in Ops
  PROVE  Versions(doc, o) \in [Touches[o] -> 0..MaxCalls]
<1> SUFFICES ASSUME NEW p \in Touches[o]
             PROVE  Version(doc, p) \in 0..MaxCalls
  BY DEF Versions
<1> DEFINE S == {0} \cup {r.receipt : r \in {x \in doc.rows : p \in Touches[x.op]}}
<1>1. S \subseteq 0..MaxCalls /\ S # {}
  BY StockAssumption DEF Documents, Rows
<1> HIDE DEF S
<1>2. Max(S) \in S
  BY <1>1, MaxIsMember, StockAssumption
<1> QED
  BY <1>1, <1>2 DEF Version, S

\* How a call may be left: it has ended, or it goes on as the call it was.
Stops == call'.at \in {"idle", "down"} /\ call'.kind = "none"
SameCall ==
  call'.kind = call.kind /\ call'.op = call.op /\ call'.generation = call.generation
Keeps == SameCall /\ call'.journal = call.journal /\ call'.reason = call.reason
SameCount == count'.calls = count.calls /\ count'.edits = count.edits
Rests == UNCHANGED <<stock, pending, hist, landed>> /\ SameCount

LEMMA CountedLeaves ==
  ASSUME StockTypes
  PROVE  /\ Counted("faults") /\ count.faults < MaxFaults => count' \in Counts /\ SameCount
                                                             /\ count'.changes = count.changes
         /\ Counted("crashes") /\ count.crashes < MaxCrashes => count' \in Counts /\ SameCount
                                                                /\ count'.changes = count.changes
         /\ Counted("changes") /\ count.changes < MaxChanges
              => count' \in Counts /\ SameCount /\ count'.changes = count.changes + 1
         /\ Counted("edits") /\ count.edits < MaxEdits
              => /\ count' \in Counts /\ count'.edits = count.edits + 1
                 /\ count'.calls = count.calls /\ count'.changes = count.changes
         /\ Counted("calls") /\ count.calls < MaxCalls
              => /\ count' \in Counts /\ count'.calls = count.calls + 1
                 /\ count'.edits = count.edits /\ count'.changes = count.changes
BY StockAssumption DEF StockTypes, Counts, Counted, SameCount

\* The record of a call, and where it is left.
LEMMA AtTypes ==
  ASSUME NEW at \in Stages
  PROVE  /\ At(at) \in CallRecords
         /\ At(at).at = at /\ At(at).kind = "none" /\ At(at).op = NoOp
BY StockAssumption DEF At, CallRecords

LEMMA GoesLeaves ==
  ASSUME StockTypes, NEW at \in Stages, Goes(at)
  PROVE  call' \in CallRecords /\ call'.at = at /\ Keeps /\ answer' = answer
BY DEF StockTypes, CallRecords, Goes, Keeps, SameCall

LEMMA CaughtLeaves ==
  ASSUME StockTypes, NEW reason \in {"denied", "conflict", "error"}, Caught(reason)
  PROVE  /\ call' \in CallRecords /\ call'.at = "catch" /\ call'.reason = reason
         /\ SameCall /\ call'.journal = call.journal /\ answer' = answer
BY DEF StockTypes, CallRecords, Caught, SameCall, Stages

LEMMA EndsLeaves ==
  ASSUME StockTypes, NEW kind \in Kinds, NEW receipt \in 0..MaxCalls, Ends(kind, receipt)
  PROVE  /\ call' \in CallRecords /\ Stops /\ answer' \in [Ops -> Answers]
         /\ answer' = [answer EXCEPT ![call.op] = Said(kind, receipt)]
<1>1. call' = At("idle") /\ answer' = [answer EXCEPT ![call.op] = Said(kind, receipt)]
  BY DEF Ends
<1>2. Said(kind, receipt) \in Answers
  BY DEF Said, Answers
<1>3. answer' \in [Ops -> Answers]
  BY <1>1, <1>2 DEF StockTypes
<1>4. call' \in CallRecords /\ Stops
  BY <1>1, AtTypes DEF Stages, Stops
<1> QED
  BY <1>1, <1>3, <1>4

LEMMA ThrowsLeaves ==
  ASSUME StockTypes, Throws \/ Unreadable
  PROVE  /\ call' \in CallRecords /\ Stops /\ answer' \in [Ops -> Answers]
         /\ \/ answer' = answer
            \/ answer' = [answer EXCEPT ![call.op] = Said("error", 0)]
            \/ answer' = [answer EXCEPT ![call.op] = Said("too-large", 0)]
<1>1. CASE call' = At("down") /\ UNCHANGED answer
  BY <1>1, AtTypes DEF Stages, Stops, StockTypes
<1>2. CASE Ends("error", 0) \/ Ends("too-large", 0)
  BY <1>2, EndsLeaves, StockAssumption DEF Kinds
<1> QED
  BY <1>1, <1>2 DEF Throws, Unreadable

-------------------------------------------------------------------------------
\* What each action leaves, as far as the invariant can tell.
LEMMA RecoveredLeaves ==
  ASSUME StockTypes, Recovered
  PROVE  /\ call.at = "recover" /\ pending = {} /\ Rests
         /\ call' \in CallRecords
         /\ Stops \/ (call'.at = "read" /\ Keeps /\ call.kind # "launch")
<1>1. CASE call.kind = "launch"
  BY <1>1, AtTypes DEF Recovered, Rests, SameCount, Stops, Stages
<1>2. CASE call.kind # "launch" /\ Goes("read")
  BY <1>2, GoesLeaves DEF Recovered, Rests, SameCount, Stages
<1> QED
  BY <1>1, <1>2 DEF Recovered, Goes

LEMMA ExamineLeaves ==
  ASSUME StockTypes, NEW j \in pending, Examine(j)
  PROVE  /\ call.at = "recover" /\ Rests
         /\ call' \in CallRecords
         /\ answer' \in [Ops -> Answers]
         /\ \/ Stops
            \/ /\ call'.at = "drop" /\ stock = j.before
               /\ call'.journal = j /\ SameCall /\ call'.reason = call.reason
            \/ /\ call'.at = "record" /\ j.row \in stock.rows
               /\ call'.journal = j /\ SameCall /\ call'.reason = call.reason
<1>0. call.at = "recover" /\ Rests
  BY DEF Examine, Rests, SameCount
<1>1. CASE stock = j.before /\ call' = [call EXCEPT !.at = "drop", !.journal = j] /\ UNCHANGED answer
  BY <1>0, <1>1 DEF StockTypes, CallRecords, Stages, SameCall
<1>2. CASE Recorded(stock, j) /\ call' = [call EXCEPT !.at = "record", !.journal = j] /\ UNCHANGED answer
  BY <1>0, <1>2 DEF StockTypes, CallRecords, Stages, SameCall, Recorded
<1>3. CASE Ends("uncertain", 0)
  BY <1>0, <1>3, EndsLeaves, StockAssumption DEF Kinds
<1>4. CASE Throws \/ Unreadable
  BY <1>0, <1>4, ThrowsLeaves
<1> QED
  BY <1>1, <1>2, <1>3, <1>4 DEF Examine

LEMMA RecordLeaves ==
  ASSUME StockTypes, Record
  PROVE  /\ call.at = "record" /\ UNCHANGED <<stock, pending, landed>> /\ SameCount
         /\ call' \in CallRecords
         /\ answer' \in [Ops -> Answers] /\ count' \in Counts /\ count'.changes = count.changes
         /\ hist' = hist \/ hist' = hist \cup {call.journal.row}
         /\ Stops \/ (call'.at = "drop" /\ Keeps /\ call.journal.row \in hist')
<1>0. call.at = "record" /\ UNCHANGED <<stock, pending, landed>>
  BY DEF Record
<1>1. CASE call.journal.row \in hist /\ Goes("drop") /\ UNCHANGED <<hist, count>>
  BY <1>0, <1>1, GoesLeaves DEF Stages, SameCount, StockTypes
<1>2. CASE Throws /\ UNCHANGED <<hist, count>>
  BY <1>0, <1>2, ThrowsLeaves DEF SameCount, StockTypes
<1>3. CASE Durably(hist' = hist \cup {call.journal.row}, UNCHANGED hist, Goes("drop"))
  <2>1. \/ hist' = hist \cup {call.journal.row} /\ Goes("drop") /\ count' = count
        \/ /\ hist' = hist \cup {call.journal.row} \/ hist' = hist
           /\ Throws
    BY <1>3 DEF Durably
  <2>2. SameCount /\ count' \in Counts /\ count'.changes = count.changes
    BY <1>3, CountedLeaves DEF Durably, SameCount, StockTypes
  <2>3. CASE hist' = hist \cup {call.journal.row} /\ Goes("drop")
    BY <1>0, <2>2, <2>3, GoesLeaves DEF Stages, StockTypes
  <2>4. CASE Throws /\ (hist' = hist \cup {call.journal.row} \/ hist' = hist)
    BY <1>0, <2>2, <2>4, ThrowsLeaves
  <2> QED
    BY <2>1, <2>3, <2>4
<1> QED
  BY <1>1, <1>2, <1>3 DEF Record

\* A journal is removed, or the removal is reported failed.
Removes == pending' = pending \/ pending' = pending \ {call.journal}

LEMMA DropLeaves ==
  ASSUME StockTypes, Drop
  PROVE  /\ call.at = "drop" /\ UNCHANGED <<stock, hist, landed>> /\ SameCount
         /\ call' \in CallRecords
         /\ answer' \in [Ops -> Answers] /\ count' \in Counts /\ count'.changes = count.changes
         /\ Removes
         /\ Stops \/ (call'.at = "recover" /\ Keeps)
<1>0. call.at = "drop" /\ UNCHANGED <<stock, hist, landed>>
  BY DEF Drop
<1>1. SameCount /\ count' \in Counts /\ count'.changes = count.changes
  BY CountedLeaves DEF Drop, Durably, SameCount, StockTypes
<1>2. CASE pending' = pending \ {call.journal} /\ Goes("recover")
  BY <1>0, <1>1, <1>2, GoesLeaves DEF Stages, StockTypes, Removes
<1>3. CASE Throws /\ Removes
  BY <1>0, <1>1, <1>3, ThrowsLeaves
<1> QED
  BY <1>2, <1>3 DEF Drop, Durably, Removes

\* The seven ways a call that reads ends.
Answering ==
  ReadUnreadable \/ ReadBroken \/ AnswerView \/ AnswerStatus \/ Replay \/ Conflict \/ PrepareRefuses

LEMMA AnsweringLeaves ==
  ASSUME StockTypes, Answering
  PROVE  call.at = "read" /\ Rests /\ Stops /\ call' \in CallRecords /\ answer' \in [Ops -> Answers]
<1>0. call.at = "read" /\ Rests
  BY DEF Answering, ReadUnreadable, ReadBroken, AnswerView, AnswerStatus, Replay, Conflict,
         PrepareRefuses, Told, Reading, Unrecorded, Rests, SameCount
<1>1. CASE Throws \/ Unreadable
  BY <1>0, <1>1, ThrowsLeaves
<1>2. ASSUME NEW kind \in {"invalid", "seen", "missing", "not-found", "denied", "conflict", "error"},
             Ends(kind, 0)
      PROVE  Stops /\ call' \in CallRecords /\ answer' \in [Ops -> Answers]
  BY <1>2, EndsLeaves, StockAssumption DEF Kinds
<1>3. ASSUME NEW r \in RowsOf(stock, call.op), Ends("applied", r.receipt)
      PROVE  Stops /\ call' \in CallRecords /\ answer' \in [Ops -> Answers]
  <2>1. r.receipt \in 0..MaxCalls
    BY StockAssumption DEF RowsOf, StockTypes, Documents, Rows
  <2> QED
    BY <1>3, <2>1, EndsLeaves DEF Kinds
<1>4. CASE ReadUnreadable \/ ReadBroken
  BY <1>0, <1>1, <1>2, <1>4 DEF ReadUnreadable, ReadBroken
<1>5. CASE AnswerView \/ Conflict \/ PrepareRefuses
  BY <1>0, <1>2, <1>5 DEF AnswerView, Conflict, PrepareRefuses
<1>6. CASE AnswerStatus \/ Replay
  BY <1>0, <1>2, <1>3, <1>6 DEF AnswerStatus, Replay
<1> QED
  BY <1>4, <1>5, <1>6 DEF Answering

LEMMA PrepareLeaves ==
  ASSUME StockTypes, CallFits, Prepare
  PROVE  /\ call.at = "read" /\ call.kind = "execute" /\ Rests
         /\ call' \in CallRecords /\ call'.at = "journal" /\ SameCall
         /\ \A r \in stock.rows : r.op # call.op
         /\ LET row == [op |-> call.op, receipt |-> count.calls]
            IN call'.journal = [row |-> row, before |-> stock, after |-> With(stock, row)]
         /\ call'.journal \in Journals
<1> DEFINE row == [op |-> call.op, receipt |-> count.calls]
           journal == [row |-> row, before |-> stock, after |-> With(stock, row)]
<1>1. /\ call.at = "read" /\ call.kind = "execute" /\ Rests
      /\ \A r \in stock.rows : r.op # call.op
      /\ call' = [call EXCEPT !.at = "journal", !.journal = journal]
  BY DEF Prepare, Unrecorded, Reading, Told, RowsOf, Rests, SameCount
<1>2. row \in Rows
  BY <1>1, StockAssumption DEF StockTypes, Counts, CallFits, Rows
<1>3. With(stock, row) \in Documents
  BY <1>2 DEF StockTypes, With, Documents
<1>4. journal \in Journals
  BY <1>2, <1>3 DEF Journals, StockTypes
<1> HIDE DEF row, journal
<1>5. call' \in CallRecords /\ call'.at = "journal" /\ SameCall /\ call'.journal = journal
  BY <1>1, <1>4 DEF StockTypes, CallRecords, Stages, SameCall
<1> QED
  BY <1>1, <1>4, <1>5 DEF row, journal

LEMMA WriteJournalLeaves ==
  ASSUME StockTypes, WriteJournal
  PROVE  /\ call.at = "journal" /\ UNCHANGED <<stock, hist, landed>> /\ SameCount
         /\ call' \in CallRecords
         /\ answer' \in [Ops -> Answers] /\ count' \in Counts /\ count'.changes = count.changes
         /\ \/ Stops /\ (pending' = pending \/ pending' = pending \cup {call.journal})
            \/ call'.at = "guard" /\ Keeps /\ pending' = pending \cup {call.journal}
<1>0. call.at = "journal" /\ UNCHANGED <<stock, hist, landed>>
  BY DEF WriteJournal
<1>1. SameCount /\ count' \in Counts /\ count'.changes = count.changes
  BY CountedLeaves DEF WriteJournal, Durably, SameCount, StockTypes
<1>2. CASE pending' = pending \cup {call.journal} /\ Goes("guard")
  BY <1>0, <1>1, <1>2, GoesLeaves DEF Stages, StockTypes
<1>3. CASE Throws /\ (pending' = pending \/ pending' = pending \cup {call.journal})
  BY <1>0, <1>1, <1>3, ThrowsLeaves
<1> QED
  BY <1>2, <1>3 DEF WriteJournal, Durably

LEMMA GuardLeaves ==
  ASSUME StockTypes, Guard
  PROVE  /\ call.at = "guard" /\ Rests /\ answer' = answer
         /\ call' \in CallRecords /\ SameCall /\ call'.journal = call.journal
         /\ \/ call'.at = "replace" /\ stock = call.journal.before
            \/ /\ call'.at = "catch" /\ call'.reason \in {"denied", "error", "conflict"}
               /\ call'.reason = "conflict" => stock # call.journal.before
<1>0. call.at = "guard" /\ Rests
  BY DEF Guard, Rests, SameCount
<1>1. CASE Caught("denied")
  BY <1>0, <1>1, CaughtLeaves
<1>2. CASE Caught("error")
  BY <1>0, <1>2, CaughtLeaves
<1>3. CASE Caught("conflict") /\ stock # call.journal.before
  BY <1>0, <1>3, CaughtLeaves
<1>4. CASE Goes("replace") /\ stock = call.journal.before
  BY <1>0, <1>4, GoesLeaves DEF Stages, Keeps
<1> QED
  BY <1>1, <1>2, <1>3, <1>4 DEF Guard

LEMMA ReplaceLeaves ==
  ASSUME StockTypes, Replace
  PROVE  /\ call.at = "replace" /\ UNCHANGED <<pending, hist>> /\ SameCount /\ answer' = answer
         /\ count' \in Counts /\ count'.changes = count.changes
         /\ call' \in CallRecords /\ SameCall /\ call'.journal = call.journal
         /\ \/ /\ stock' = call.journal.after /\ landed' = landed \cup {call.journal.row}
               /\ call'.at = "persist" \/ (call'.at = "catch" /\ call'.reason = "error")
            \/ /\ stock' = stock /\ landed' = landed
               /\ call'.at = "guard" \/ (call'.at = "catch" /\ call'.reason = "error")
<1>0. /\ call.at = "replace" /\ UNCHANGED <<pending, hist>>
      /\ SameCount /\ count' \in Counts /\ count'.changes = count.changes
  BY CountedLeaves DEF Replace, SameCount, StockTypes
<1>1. Goes("persist") \/ Goes("guard") \/ Caught("error")
  BY DEF Replace
<1>2. call' \in CallRecords /\ SameCall /\ call'.journal = call.journal /\ answer' = answer
  BY <1>1, GoesLeaves, CaughtLeaves DEF Stages, Keeps
<1>3. Goes("persist") => call'.at = "persist"
  BY GoesLeaves DEF Stages
<1>4. Goes("guard") => call'.at = "guard"
  BY GoesLeaves DEF Stages
<1>5. Caught("error") => call'.at = "catch" /\ call'.reason = "error"
  BY CaughtLeaves
<1> QED
  BY <1>0, <1>2, <1>3, <1>4, <1>5 DEF Replace

LEMMA CatchLeaves ==
  ASSUME StockTypes, CallFits, Catch
  PROVE  /\ call.at = "catch" /\ Rests
         /\ call' \in CallRecords /\ answer' \in [Ops -> Answers]
         /\ \/ Stops
            \/ /\ call'.at = "undo" /\ Keeps
               /\ stock = call.journal.before \/ call.reason = "conflict"
            \/ call'.at = "persist" /\ Keeps /\ call.journal.row \in stock.rows
<1>0. call.at = "catch" /\ Rests
  BY DEF Catch, Rests, SameCount
<1>1. CASE Unreadable
  BY <1>0, <1>1, ThrowsLeaves
<1>2. CASE Goes("undo") /\ (stock = call.journal.before \/ call.reason = "conflict")
  BY <1>0, <1>2, GoesLeaves DEF Stages, StockTypes
<1>3. CASE Goes("persist") /\ call.journal.row \in stock.rows
  BY <1>0, <1>3, GoesLeaves DEF Stages, StockTypes
<1>4. CASE Ends(IF stock.form = "broken" THEN call.reason ELSE "error", 0)
  <2>1. (IF stock.form = "broken" THEN call.reason ELSE "error") \in Kinds
    BY <1>0 DEF CallFits, Kinds
  <2> QED
    BY <1>0, <1>4, <2>1, EndsLeaves, StockAssumption
<1> QED
  BY <1>1, <1>2, <1>3, <1>4 DEF Catch, Recorded

LEMMA UndoLeaves ==
  ASSUME StockTypes, CallFits, Undo
  PROVE  /\ call.at = "undo" /\ UNCHANGED <<stock, hist, landed>> /\ SameCount
         /\ call' \in CallRecords
         /\ answer' \in [Ops -> Answers] /\ count' \in Counts /\ count'.changes = count.changes
         /\ Removes /\ Stops
<1>0. call.at = "undo" /\ UNCHANGED <<stock, hist, landed>>
  BY DEF Undo
<1>1. SameCount /\ count' \in Counts /\ count'.changes = count.changes
  BY CountedLeaves DEF Undo, Durably, SameCount, StockTypes
<1>2. PICK kind \in {"denied", "error", "conflict", "too-large", "invalid"} :
        Durably(pending' = pending \ {call.journal}, UNCHANGED pending, Ends(kind, 0))
  BY <1>0 DEF Undo, CallFits
<1>3. CASE pending' = pending \ {call.journal} /\ Ends(kind, 0)
  BY <1>0, <1>1, <1>3, EndsLeaves, StockAssumption DEF Kinds, Removes
<1>4. CASE Throws /\ Removes
  BY <1>0, <1>1, <1>4, ThrowsLeaves
<1> QED
  BY <1>2, <1>3, <1>4 DEF Durably, Removes

LEMMA PersistLeaves ==
  ASSUME StockTypes, Persist
  PROVE  /\ call.at = "persist" /\ UNCHANGED <<stock, pending, landed>> /\ SameCount
         /\ call' \in CallRecords
         /\ answer' \in [Ops -> Answers] /\ count' \in Counts /\ count'.changes = count.changes
         /\ hist' = hist \/ hist' = hist \cup {call.journal.row}
         /\ Stops \/ (call'.at = "finish" /\ Keeps /\ call.journal.row \in hist')
<1>0. call.at = "persist" /\ UNCHANGED <<stock, pending, landed>>
  BY DEF Persist
<1>1. SameCount /\ count' \in Counts /\ count'.changes = count.changes
  BY CountedLeaves DEF Persist, Durably, SameCount, StockTypes
<1>2. CASE hist' = hist \cup {call.journal.row} /\ Goes("finish")
  BY <1>0, <1>1, <1>2, GoesLeaves DEF Stages, StockTypes
<1>3. CASE Throws /\ (hist' = hist \/ hist' = hist \cup {call.journal.row})
  BY <1>0, <1>1, <1>3, ThrowsLeaves
<1> QED
  BY <1>2, <1>3 DEF Persist, Durably

LEMMA FinishLeaves ==
  ASSUME StockTypes, CallFits, Finish
  PROVE  /\ call.at = "finish" /\ UNCHANGED <<stock, hist, landed>> /\ SameCount
         /\ call' \in CallRecords
         /\ answer' \in [Ops -> Answers] /\ count' \in Counts /\ count'.changes = count.changes
         /\ Removes /\ Stops
<1>0. call.at = "finish" /\ UNCHANGED <<stock, hist, landed>>
  BY DEF Finish
<1>1. SameCount /\ count' \in Counts /\ count'.changes = count.changes
  BY CountedLeaves DEF Finish, Durably, SameCount, StockTypes
<1>2. call.journal.row.receipt \in 0..MaxCalls
  BY <1>0, StockAssumption DEF CallFits, Committing, Journals, Rows
<1>3. CASE pending' = pending \ {call.journal} /\ Ends("applied", call.journal.row.receipt)
  BY <1>0, <1>1, <1>2, <1>3, EndsLeaves DEF Kinds, Removes
<1>4. CASE Throws /\ Removes
  BY <1>0, <1>1, <1>4, ThrowsLeaves
<1> QED
  BY <1>3, <1>4 DEF Finish, Durably, Removes

LEMMA FaultLeaves ==
  ASSUME StockTypes, Fault
  PROVE  /\ call.at \notin {"idle", "down"} /\ Rests
         /\ count' \in Counts /\ count'.changes = count.changes
         /\ call' \in CallRecords /\ answer' \in [Ops -> Answers]
         /\ \/ Stops
            \/ /\ call.at = "guard" /\ call'.at = "catch" /\ call'.reason = "error"
               /\ SameCall /\ call'.journal = call.journal
<1>0. call.at \notin {"idle", "down"} /\ Rests /\ count' \in Counts /\ count'.changes = count.changes
  BY CountedLeaves DEF Fault, Rests
<1>1. CASE call.at = "guard" /\ Caught("error")
  BY <1>0, <1>1, CaughtLeaves DEF StockTypes
<1>2. CASE Throws
  BY <1>0, <1>2, ThrowsLeaves
<1> QED
  BY <1>1, <1>2 DEF Fault

LEMMA CrashLeaves ==
  ASSUME StockTypes, Crash
  PROVE  /\ Rests /\ count' \in Counts /\ count'.changes = count.changes
         /\ call' \in CallRecords /\ answer' \in [Ops -> Answers] /\ Stops
<1>1. Rests /\ count' \in Counts /\ count'.changes = count.changes /\ call' = At("down")
  BY CountedLeaves DEF Crash, Rests
<1>2. Said("error", 0) \in Answers
  BY StockAssumption DEF Said, Answers, Kinds
<1>3. answer' \in [Ops -> Answers]
  BY <1>2 DEF Crash, StockTypes
<1> QED
  BY <1>1, <1>3, AtTypes DEF Stages, Stops

LEMMA LaunchLeaves ==
  ASSUME StockTypes, Launch
  PROVE  /\ call.at = "down" /\ Rests /\ answer' = answer
         /\ call' \in CallRecords
         /\ call'.at = "recover" /\ call'.kind = "launch" /\ call'.op = NoOp
BY StockAssumption DEF Launch, At, CallRecords, Stages, Rests, SameCount

\* A call of a person enters, or is refused.
LEMMA EnterLeaves ==
  ASSUME StockTypes, NEW o \in Ops, View(o) \/ Status(o) \/ Execute(o)
  PROVE  /\ call.at = "idle" /\ UNCHANGED <<stock, pending, hist, landed>>
         /\ call' \in CallRecords /\ answer' \in [Ops -> Answers]
         /\ \/ count' = count
            \/ count' \in Counts /\ count'.calls = count.calls + 1 /\ count'.edits = count.edits
               /\ count'.changes = count.changes
         /\ \/ call' = call
            \/ /\ call'.at = "recover" /\ call'.op = o
               /\ call'.kind \in {"view", "status", "execute"}
               /\ call'.kind = "execute" => count'.calls = count.calls + 1
<1>1. Said("none", 0) \in Answers /\ Said("denied", 0) \in Answers
  BY StockAssumption DEF Said, Answers, Kinds
<1>2. ASSUME NEW kind \in {"view", "status", "execute"}, NEW needs, Enter(kind, o, needs)
      PROVE  /\ call.at = "idle" /\ UNCHANGED <<stock, pending, hist, landed>>
             /\ call' \in CallRecords /\ answer' \in [Ops -> Answers]
             /\ \/ call' = call
                \/ call'.at = "recover" /\ call'.op = o /\ call'.kind = kind
  <2>1. CASE /\ call' = [At("recover") EXCEPT !.kind = kind, !.op = o,
                                              !.generation = access.generation]
             /\ answer' = [answer EXCEPT ![o] = Said("none", 0)]
    <3>1. /\ call' \in CallRecords
          /\ call'.at = "recover" /\ call'.op = o /\ call'.kind = kind
      BY <2>1 DEF At, CallRecords, Stages, StockTypes
    <3> QED
      BY <1>1, <1>2, <2>1, <3>1 DEF Enter, StockTypes
  <2>2. CASE answer' = [answer EXCEPT ![o] = Said("denied", 0)] /\ UNCHANGED call
    BY <1>1, <1>2, <2>2 DEF Enter, StockTypes
  <2> QED
    BY <1>2, <2>1, <2>2 DEF Enter
<1>3. CASE View(o) \/ Status(o)
  BY <1>2, <1>3 DEF View, Status
<1>4. CASE Execute(o)
  BY <1>2, <1>4, CountedLeaves DEF Execute
<1> QED
  BY <1>3, <1>4

\* Other programs change the document, and never add a receipt to it.
LEMMA EditLeaves ==
  ASSUME StockTypes, Edit
  PROVE  /\ UNCHANGED <<pending, hist, landed, call, answer>>
         /\ count' \in Counts /\ count'.calls = count.calls /\ count'.edits > 0
         /\ count'.changes = count.changes
         /\ stock' \in Documents /\ stock'.rows \subseteq stock.rows
<1>1. /\ UNCHANGED <<pending, hist, landed, call, answer>>
      /\ count' \in Counts /\ count'.calls = count.calls /\ count'.edits = count.edits + 1
      /\ count'.changes = count.changes
  BY CountedLeaves DEF Edit
<1>2. count.edits + 1 > 0
  BY StockAssumption DEF StockTypes, Counts
<1>3. CASE stock' \in {Broken, Large, Opening}
  BY <1>1, <1>2, <1>3 DEF Broken, Large, Opening, Documents
<1>4. CASE stock' = [stock EXCEPT !.form = "other"]
  BY <1>1, <1>2, <1>4 DEF Documents, StockTypes
<1> QED
  BY <1>3, <1>4 DEF Edit

LEMMA AccessLeaves ==
  ASSUME StockTypes, AccessChanges
  PROVE  /\ Rests /\ UNCHANGED <<call, answer>> /\ count' \in Counts
         /\ count'.changes = count.changes + 1
         /\ access' \in [may : SUBSET {"read", "apply"}, generation : 0..MaxChanges]
         /\ access'.generation <= count'.changes
<1>1. /\ Rests /\ UNCHANGED <<call, answer>> /\ count' \in Counts
      /\ count'.changes = count.changes + 1 /\ count.changes < MaxChanges
  BY CountedLeaves DEF AccessChanges, Rests
<1>2. PICK may \in {{}, {"read"}, {"read", "apply"}} :
        access' = [may |-> may, generation |-> access.generation + 1]
  BY DEF AccessChanges
<1>3. access.generation + 1 \in 0..MaxChanges /\ access.generation + 1 <= count.changes + 1
  BY <1>1, StockAssumption DEF StockTypes, Counts
<1> QED
  BY <1>1, <1>2, <1>3

-------------------------------------------------------------------------------
\* Initially the invariant holds.
LEMMA StockInit == Init => StockInv
<1> SUFFICES ASSUME Init
             PROVE  StockInv
  OBVIOUS
<1>1. call \in CallRecords /\ call.at = "idle" /\ call.kind = "none"
  BY AtTypes DEF Init, Stages
<1>2. StockTypes
  <2>1. access \in [may : SUBSET {"read", "apply"}, generation : 0..MaxChanges]
    BY StockAssumption DEF Init
  <2>2. count \in Counts /\ count.changes = 0
    BY StockAssumption DEF Init, Counts
  <2>3. answer \in [Ops -> Answers]
    BY StockAssumption DEF Init, Said, Answers, Kinds
  <2>4. access.generation <= count.changes
    BY <2>2 DEF Init
  <2>5. stock \in Documents /\ pending \subseteq Journals /\ hist \subseteq Rows /\ landed \subseteq Rows
    BY DEF Init, Opening, Documents
  <2> QED
    BY <1>1, <2>1, <2>2, <2>3, <2>4, <2>5 DEF Init, StockTypes, Plans
<1> QED
  BY <1>1, <1>2
     DEF StockInv, Init, CallFits, PendingFits, JournalsFit, ReceiptsFit, ProgressFits, NotYet,
         ReceiptsAreNumbered, UntouchedFits, Opening, Committing

\* Every action keeps the values of the variables.
LEMMA TypesStep ==
  ASSUME StockTypes, CallFits, [Next]_stockVars
  PROVE  StockTypes'
<1>1. /\ stock' \in Documents /\ pending' \subseteq Journals
      /\ hist' \subseteq Rows /\ landed' \subseteq Rows
      /\ call' \in CallRecords /\ answer' \in [Ops -> Answers]
      /\ count' \in Counts
      /\ access' = access => count'.changes >= count.changes
      /\ plan' = plan \/ AnswerView
      /\ access' = access \/ AccessChanges
  <2> USE DEF Rests
  <2>1. CASE Recovered
    BY <2>1, RecoveredLeaves DEF StockTypes, Recovered, Counts
  <2>2. CASE \E j \in pending : Examine(j)
    <3>1. PICK j \in pending : Examine(j)
      BY <2>2
    <3>2. UNCHANGED <<access, plan, count>>
      BY <3>1 DEF Examine
    <3> QED
      BY <3>1, <3>2, ExamineLeaves, StockAssumption DEF StockTypes, Counts
  <2>3. CASE Record \/ Persist
    <3>1. call.journal.row \in Rows
      BY <2>3 DEF Record, Persist, CallFits, Committing, Journals
    <3> QED
      BY <2>3, <3>1, RecordLeaves, PersistLeaves DEF StockTypes, Record, Persist, Counts
  <2>4. CASE Drop \/ Finish \/ Undo
    BY <2>4, DropLeaves, FinishLeaves, UndoLeaves
       DEF StockTypes, Drop, Finish, Undo, Removes, Counts
  <2>5. CASE Answering
    BY <2>5, AnsweringLeaves
       DEF StockTypes, Answering, ReadUnreadable, ReadBroken, AnswerView, AnswerStatus, Replay,
           Conflict, PrepareRefuses, Told, Counts
  <2>6. CASE Prepare
    BY <2>6, PrepareLeaves DEF StockTypes, Prepare, Told, Counts
  <2>7. CASE WriteJournal
    <3>1. call.journal \in Journals
      BY <2>7 DEF WriteJournal, CallFits, Committing
    <3> QED
      BY <2>7, <3>1, WriteJournalLeaves DEF StockTypes, WriteJournal, Counts
  <2>8. CASE Guard \/ Catch
    BY <2>8, GuardLeaves, CatchLeaves DEF StockTypes, Guard, Catch, Counts
  <2>9. CASE Replace
    <3>1. call.journal.row \in Rows /\ call.journal.after \in Documents
      BY <2>9 DEF Replace, CallFits, Committing, Journals
    <3> QED
      BY <2>9, <3>1, ReplaceLeaves DEF StockTypes, Replace, Counts
  <2>10. CASE Launch
    BY <2>10, LaunchLeaves DEF StockTypes, Launch, Counts
  <2>11. CASE Callers
    <3>1. PICK o \in Ops : View(o) \/ Status(o) \/ Execute(o)
      BY <2>11 DEF Callers
    <3>2. access' = access /\ plan' = plan
      BY <3>1 DEF View, Status, Execute, Enter
    <3>3. count' \in Counts /\ count'.changes >= count.changes
      BY <3>1, EnterLeaves, StockAssumption DEF StockTypes, Counts
    <3> QED
      BY <3>1, <3>2, <3>3, EnterLeaves DEF StockTypes
  <2>12. CASE Fault \/ Crash
    BY <2>12, FaultLeaves, CrashLeaves DEF StockTypes, Fault, Crash, Counts
  <2>13. CASE Edit
    BY <2>13, EditLeaves DEF StockTypes, Edit, Counts
  <2>14. CASE AccessChanges
    <3>1. count'.changes = count.changes + 1 /\ count.changes \in Nat
      BY <2>14, AccessLeaves, StockAssumption DEF StockTypes, Counts
    <3>2. plan' = plan
      BY <2>14 DEF AccessChanges
    <3> QED
      BY <2>14, <3>1, <3>2, AccessLeaves DEF StockTypes
  <2>15. CASE UNCHANGED stockVars
    BY <2>15 DEF StockTypes, stockVars, Counts
  <2> QED
    BY <2>1, <2>2, <2>3, <2>4, <2>5, <2>6, <2>7, <2>8, <2>9, <2>10, <2>11, <2>12, <2>13, <2>14,
       <2>15 DEF Next, Work, Answering
<1>2. /\ access' \in [may : SUBSET {"read", "apply"}, generation : 0..MaxChanges]
      /\ access'.generation <= count'.changes
  <2>1. CASE access' = access
    BY <1>1, <2>1, StockAssumption DEF StockTypes, Counts
  <2>2. CASE AccessChanges
    BY <2>2, AccessLeaves
  <2> QED
    BY <1>1, <2>1, <2>2
<1>3. /\ plan' \in [Ops -> Plans]
      /\ \A o \in Ops : plan'[o] = NoPlan \/ plan'[o] \in [Touches[o] -> 0..MaxCalls]
  <2>1. CASE plan' = plan
    BY <2>1 DEF StockTypes
  <2>2. CASE AnswerView
    <3>1. call.op \in Ops
      BY <2>2 DEF AnswerView, Reading, CallFits
    <3>2. Versions(stock, call.op) \in [Touches[call.op] -> 0..MaxCalls]
      BY <3>1, VersionsTypes DEF StockTypes
    <3>3. plan' = plan \/ plan' = [plan EXCEPT ![call.op] = Versions(stock, call.op)]
      BY <2>2 DEF AnswerView
    <3> QED
      BY <3>1, <3>2, <3>3 DEF StockTypes, Plans
  <2> QED
    BY <1>1, <2>1, <2>2
<1> QED
  BY <1>1, <1>2, <1>3 DEF StockTypes

\* Every action leaves the call where it can stand.
LEMMA CallStep ==
  ASSUME StockInv, [Next]_stockVars
  PROVE  CallFits'
<1> USE DEF StockInv, CallFits, Committing, Stops, SameCall, Keeps, Rests, SameCount
<1>1. CASE Recovered
  BY <1>1, RecoveredLeaves
<1>2. CASE \E j \in pending : Examine(j)
  <2>1. PICK j \in pending : Examine(j)
    BY <1>2
  <2> QED
    BY <2>1, ExamineLeaves DEF StockTypes
<1>3. CASE Record \/ Drop
  BY <1>3, RecordLeaves, DropLeaves
<1>4. CASE Answering \/ Undo \/ Finish \/ Crash
  BY <1>4, AnsweringLeaves, UndoLeaves, FinishLeaves, CrashLeaves
<1>5. CASE Prepare
  BY <1>5, PrepareLeaves
<1>6. CASE WriteJournal
  BY <1>6, WriteJournalLeaves
<1>7. CASE Guard
  BY <1>7, GuardLeaves
<1>8. CASE Replace
  BY <1>8, ReplaceLeaves
<1>9. CASE Catch
  BY <1>9, CatchLeaves
<1>10. CASE Persist
  BY <1>10, PersistLeaves
<1>11. CASE Launch
  BY <1>11, LaunchLeaves
<1>12. CASE Callers
  <2>1. PICK o \in Ops : View(o) \/ Status(o) \/ Execute(o)
    BY <1>12 DEF Callers
  <2> QED
    BY <2>1, EnterLeaves, StockAssumption DEF StockTypes, Counts
<1>13. CASE Fault
  BY <1>13, FaultLeaves
<1>14. CASE Edit \/ AccessChanges
  BY <1>14, EditLeaves, AccessLeaves
<1>15. CASE UNCHANGED stockVars
  BY <1>15 DEF stockVars
<1> QED
  BY <1>1, <1>2, <1>3, <1>4, <1>5, <1>6, <1>7, <1>8, <1>9, <1>10, <1>11, <1>12, <1>13, <1>14, <1>15
     DEF Next, Work, Answering

\* There stays one journal at a time.
LEMMA PendingStep ==
  ASSUME StockInv, [Next]_stockVars
  PROVE  PendingFits'
<1> USE DEF StockInv, PendingFits, Stops, SameCall, Keeps, Rests
<1>1. CASE Recovered
  BY <1>1, RecoveredLeaves
<1>2. CASE \E j \in pending : Examine(j)
  <2>1. PICK j \in pending : Examine(j)
    BY <1>2
  <2> QED
    BY <2>1, ExamineLeaves
<1>3. CASE Record \/ Drop
  BY <1>3, RecordLeaves, DropLeaves DEF Removes
<1>4. CASE Answering \/ Undo \/ Finish \/ Crash
  BY <1>4, AnsweringLeaves, UndoLeaves, FinishLeaves, CrashLeaves DEF Removes
<1>5. CASE Prepare
  BY <1>5, PrepareLeaves
<1>6. CASE WriteJournal
  BY <1>6, WriteJournalLeaves
<1>7. CASE Guard
  BY <1>7, GuardLeaves
<1>8. CASE Replace
  BY <1>8, ReplaceLeaves
<1>9. CASE Catch
  BY <1>9, CatchLeaves
<1>10. CASE Persist
  BY <1>10, PersistLeaves
<1>11. CASE Launch
  BY <1>11, LaunchLeaves
<1>12. CASE Callers
  <2>1. PICK o \in Ops : View(o) \/ Status(o) \/ Execute(o)
    BY <1>12 DEF Callers
  <2> QED
    BY <2>1, EnterLeaves
<1>13. CASE Fault
  BY <1>13, FaultLeaves
<1>14. CASE Edit \/ AccessChanges
  BY <1>14, EditLeaves, AccessLeaves
<1>15. CASE UNCHANGED stockVars
  BY <1>15 DEF stockVars
<1> QED
  BY <1>1, <1>2, <1>3, <1>4, <1>5, <1>6, <1>7, <1>8, <1>9, <1>10, <1>11, <1>12, <1>13, <1>14, <1>15
     DEF Next, Work, Answering

\* Journals stay what they were made, and the History only grows.
LEMMA JournalsStep ==
  ASSUME StockInv, [Next]_stockVars
  PROVE  JournalsFit'
<1>1. hist \subseteq hist'
  <2> USE DEF Rests
  <2>1. CASE Answering
    BY <2>1, AnsweringLeaves DEF StockInv
  <2>2. CASE Callers
    <3>1. PICK o \in Ops : View(o) \/ Status(o) \/ Execute(o)
      BY <2>2 DEF Callers
    <3> QED
      BY <3>1, EnterLeaves DEF StockInv
  <2>3. CASE Record \/ Persist
    BY <2>3, RecordLeaves, PersistLeaves DEF StockInv
  <2>4. CASE UNCHANGED hist
    BY <2>4
  <2> QED
    BY <2>1, <2>2, <2>3, <2>4
       DEF Next, Work, Answering, Recovered, Examine, Drop, Prepare, Told, WriteJournal, Guard,
           Replace, Catch, Undo, Finish, Launch, Fault, Crash, Edit, AccessChanges, stockVars
<1>2. \A j : JournalFits(j) => JournalFits(j)'
  BY <1>1 DEF JournalFits, With
<1>3. CASE Prepare
  <2>1. JournalFits(call'.journal)
    <3>1. stock.rows \subseteq hist /\ \A r, s \in stock.rows : r.op = s.op => r = s
      BY <1>3, PrepareLeaves DEF StockInv, ReceiptsFit, PendingFits
    <3>2. \A r \in stock.rows : r.op # call.op
      BY <1>3, PrepareLeaves DEF StockInv
    <3>3. LET j == call'.journal
          IN j.row.op = call.op /\ j.before = stock /\ j.after = With(stock, j.row)
      BY <1>3, PrepareLeaves DEF StockInv
    <3> QED
      BY <3>1, <3>2, <3>3 DEF JournalFits
  <2>2. pending' = pending
    BY <1>3, PrepareLeaves DEF StockInv, Rests
  <2> QED
    BY <1>2, <2>1, <2>2 DEF StockInv, JournalsFit
<1>4. CASE WriteJournal
  <2>1. call'.at # "journal" /\ pending' \subseteq pending \cup {call.journal}
    BY <1>4, WriteJournalLeaves DEF StockInv, Stops
  <2>2. JournalFits(call.journal)
    BY <1>4, WriteJournalLeaves DEF StockInv, JournalsFit
  <2> QED
    BY <1>2, <2>1, <2>2 DEF StockInv, JournalsFit
<1>5. CASE pending' \subseteq pending /\ (call'.at = "journal" => call' = call)
  BY <1>2, <1>5 DEF StockInv, JournalsFit
<1>6. CASE Answering \/ Undo \/ Finish \/ Crash \/ Recovered \/ Record \/ Drop \/ Guard \/ Replace
            \/ Catch \/ Persist \/ Launch \/ Fault \/ Edit \/ AccessChanges
  <2>1. pending' \subseteq pending
    BY <1>6, AnsweringLeaves, UndoLeaves, FinishLeaves, DropLeaves
       DEF StockInv, Rests, Removes, Crash, Recovered, Record, Guard, Replace, Catch, Persist,
           Launch, Fault, Edit, AccessChanges
  <2>2. call'.at = "journal" => call' = call
    BY <1>6, AnsweringLeaves, UndoLeaves, FinishLeaves, CrashLeaves, RecoveredLeaves, RecordLeaves,
       DropLeaves, GuardLeaves, ReplaceLeaves, CatchLeaves, PersistLeaves, LaunchLeaves,
       FaultLeaves, EditLeaves, AccessLeaves
       DEF StockInv, Stops
  <2> QED
    BY <1>5, <2>1, <2>2
<1>7. CASE \E j \in pending : Examine(j)
  <2>1. PICK j \in pending : Examine(j)
    BY <1>7
  <2> QED
    BY <1>5, <2>1, ExamineLeaves DEF StockInv, Rests, Stops
<1>8. CASE Callers
  <2>1. PICK o \in Ops : View(o) \/ Status(o) \/ Execute(o)
    BY <1>8 DEF Callers
  <2> QED
    BY <1>5, <2>1, EnterLeaves DEF StockInv
<1>9. CASE UNCHANGED stockVars
  BY <1>5, <1>9 DEF stockVars
<1> QED
  BY <1>3, <1>4, <1>6, <1>7, <1>8, <1>9 DEF Next, Work, Answering

\* Receipts keep their entries, or the journal that owes one.
LEMMA ReceiptsStep ==
  ASSUME StockInv, [Next]_stockVars
  PROVE  ReceiptsFit'
<1> USE DEF StockInv
<1>1. CASE UNCHANGED <<stock, pending, hist, landed>>
  BY <1>1 DEF ReceiptsFit
<1>2. CASE Record \/ Persist
  <2>1. call.journal.row \in landed
    BY <1>2, RecordLeaves, PersistLeaves DEF ProgressFits
  <2> QED
    BY <1>2, <2>1, RecordLeaves, PersistLeaves DEF ReceiptsFit
<1>3. CASE Drop \/ Undo \/ Finish
  <2>1. /\ UNCHANGED <<stock, hist, landed>>
        /\ Removes
        /\ call.at \in {"drop", "undo", "finish"}
    BY <1>3, DropLeaves, UndoLeaves, FinishLeaves
  <2>2. call.journal.row \in hist \/ call.journal.row \notin stock.rows
    BY <2>1 DEF ProgressFits
  <2>3. stock.rows \subseteq hist \cup {j.row : j \in pending'}
    BY <2>1, <2>2 DEF ReceiptsFit, Removes
  <2> QED
    BY <2>1, <2>3 DEF ReceiptsFit
<1>4. CASE WriteJournal
  <2>1. UNCHANGED <<stock, hist, landed>> /\ pending \subseteq pending'
    BY <1>4, WriteJournalLeaves
  <2> QED
    BY <2>1 DEF ReceiptsFit
<1>5. CASE Replace
  <2> DEFINE j == call.journal
  <2>1. call.at = "replace" /\ UNCHANGED <<pending, hist>>
    BY <1>5, ReplaceLeaves
  <2>2. JournalFits(j) /\ j \in pending
    BY <2>1 DEF PendingFits, JournalsFit
  <2>3. CASE UNCHANGED <<stock, landed>>
    BY <1>1, <2>1, <2>3
  <2>4. CASE stock' = j.after /\ landed' = landed \cup {j.row}
    <3>1. stock'.rows = j.before.rows \cup {j.row}
      BY <2>2, <2>4 DEF JournalFits, With
    <3>2. stock'.rows \subseteq hist \cup {i.row : i \in pending}
      BY <2>2, <3>1 DEF JournalFits
    <3>3. stock'.rows \subseteq landed'
      BY <2>2, <2>4, <3>1 DEF JournalFits, ReceiptsFit
    <3>4. \A r, s \in stock'.rows : r.op = s.op => r = s
      BY <2>2, <3>1 DEF JournalFits
    <3>5. hist \subseteq landed'
      BY <2>4 DEF ReceiptsFit
    <3> QED
      BY <2>1, <3>2, <3>3, <3>4, <3>5 DEF ReceiptsFit
  <2> QED
    BY <1>5, <2>3, <2>4, ReplaceLeaves
<1>6. CASE Edit
  <2>1. UNCHANGED <<pending, hist, landed>> /\ stock'.rows \subseteq stock.rows
    BY <1>6, EditLeaves
  <2> QED
    BY <2>1 DEF ReceiptsFit
<1>7. CASE Callers
  <2>1. PICK o \in Ops : View(o) \/ Status(o) \/ Execute(o)
    BY <1>7 DEF Callers
  <2> QED
    BY <1>1, <2>1, EnterLeaves
<1>8. CASE Answering
  BY <1>1, <1>8, AnsweringLeaves DEF Rests
<1> QED
  BY <1>1, <1>2, <1>3, <1>4, <1>5, <1>6, <1>7, <1>8
     DEF Next, Work, Answering, Recovered, Examine, Prepare, Told, Guard, Catch, Launch, Fault,
         Crash, AccessChanges, stockVars

\* Every action leaves the command where its call says it is.
LEMMA ProgressStep ==
  ASSUME StockInv, [Next]_stockVars
  PROVE  ProgressFits'
<1> USE DEF StockInv, ProgressFits, NotYet, Stops, SameCall, Keeps, Rests
<1>1. CASE Recovered
  BY <1>1, RecoveredLeaves
<1>2. CASE \E j \in pending : Examine(j)
  <2>1. PICK j \in pending : Examine(j)
    BY <1>2
  <2>2. stock = j.before => j.row \notin stock.rows
    BY DEF JournalsFit, JournalFits
  <2>3. j.row \in stock.rows => j.row \in landed
    BY DEF ReceiptsFit
  <2> QED
    BY <2>1, <2>2, <2>3, ExamineLeaves
<1>3. CASE Record \/ Drop
  BY <1>3, RecordLeaves, DropLeaves
<1>4. CASE Answering \/ Undo \/ Finish \/ Crash
  BY <1>4, AnsweringLeaves, UndoLeaves, FinishLeaves, CrashLeaves
<1>5. CASE Prepare
  BY <1>5, PrepareLeaves
<1>6. CASE WriteJournal
  BY <1>6, WriteJournalLeaves
<1>7. CASE Guard
  BY <1>7, GuardLeaves
<1>8. CASE Replace
  BY <1>8, ReplaceLeaves
<1>9. CASE Catch
  <2>1. JournalFits(call.journal) /\ call.journal.row.op = call.op
    BY <1>9, CatchLeaves DEF PendingFits, JournalsFit, CallFits, Committing
  <2>2. stock = call.journal.before => call.journal.row \notin stock.rows
    BY <2>1 DEF JournalFits
  <2>3. call.reason = "conflict" => call.journal.row \notin stock.rows
    BY <1>9, <2>1, CatchLeaves
  <2>4. call.journal.row \in stock.rows => call.journal.row \in landed
    BY DEF ReceiptsFit
  <2> QED
    BY <1>9, <2>2, <2>3, <2>4, CatchLeaves
<1>10. CASE Persist
  BY <1>10, PersistLeaves
<1>11. CASE Launch
  BY <1>11, LaunchLeaves
<1>12. CASE Callers
  <2>1. PICK o \in Ops : View(o) \/ Status(o) \/ Execute(o)
    BY <1>12 DEF Callers
  <2> QED
    BY <2>1, EnterLeaves
<1>13. CASE Fault
  BY <1>13, FaultLeaves
<1>14. CASE Edit
  BY <1>14, EditLeaves
<1>15. CASE AccessChanges
  BY <1>15, AccessLeaves
<1>16. CASE UNCHANGED stockVars
  BY <1>16 DEF stockVars
<1> QED
  BY <1>1, <1>2, <1>3, <1>4, <1>5, <1>6, <1>7, <1>8, <1>9, <1>10, <1>11, <1>12, <1>13, <1>14,
     <1>15, <1>16 DEF Next, Work, Answering

\* A receipt is not drawn twice.
LEMMA NumbersStep ==
  ASSUME StockInv, [Next]_stockVars
  PROVE  ReceiptsAreNumbered'
<1> USE DEF StockInv, ReceiptsAreNumbered, NotYet, Stops, SameCall, Keeps, Rests, SameCount
<1>1. CASE Recovered
  BY <1>1, RecoveredLeaves
<1>2. CASE \E j \in pending : Examine(j)
  <2>1. PICK j \in pending : Examine(j)
    BY <1>2
  <2> QED
    BY <2>1, ExamineLeaves
<1>3. CASE Record \/ Drop
  BY <1>3, RecordLeaves, DropLeaves
<1>4. CASE Answering \/ Undo \/ Finish \/ Crash
  BY <1>4, AnsweringLeaves, UndoLeaves, FinishLeaves, CrashLeaves
<1>5. CASE Prepare
  BY <1>5, PrepareLeaves
<1>6. CASE WriteJournal
  BY <1>6, WriteJournalLeaves
<1>7. CASE Guard
  BY <1>7, GuardLeaves
<1>8. CASE Replace
  <2>1. call.journal.row.receipt = count.calls /\ count.calls \in Nat
    BY <1>8, ReplaceLeaves, StockAssumption DEF CallFits, Committing, StockTypes, Counts
  <2> QED
    BY <1>8, <2>1, ReplaceLeaves
<1>9. CASE Catch
  BY <1>9, CatchLeaves
<1>10. CASE Persist
  BY <1>10, PersistLeaves
<1>11. CASE Launch
  BY <1>11, LaunchLeaves
<1>12. CASE Callers
  <2>1. PICK o \in Ops : View(o) \/ Status(o) \/ Execute(o)
    BY <1>12 DEF Callers
  <2>2. \A r \in landed : r.receipt \in Nat /\ count.calls \in Nat
    BY StockAssumption DEF StockTypes, Rows, Counts
  <2> QED
    BY <2>1, <2>2, EnterLeaves DEF CallFits
<1>13. CASE Fault
  BY <1>13, FaultLeaves
<1>14. CASE Edit
  BY <1>14, EditLeaves
<1>15. CASE AccessChanges
  BY <1>15, AccessLeaves
<1>16. CASE UNCHANGED stockVars
  BY <1>16 DEF stockVars
<1> QED
  BY <1>1, <1>2, <1>3, <1>4, <1>5, <1>6, <1>7, <1>8, <1>9, <1>10, <1>11, <1>12, <1>13, <1>14,
     <1>15, <1>16 DEF Next, Work, Answering

\* Until another program writes, the document is what the service made of it.
LEMMA UntouchedStep ==
  ASSUME StockInv, [Next]_stockVars
  PROVE  UntouchedFits'
<1> USE DEF StockInv, UntouchedFits, Stops, SameCall, Keeps, Rests, SameCount
<1>1. CASE Recovered
  BY <1>1, RecoveredLeaves
<1>2. CASE \E j \in pending : Examine(j)
  <2>1. PICK j \in pending : Examine(j)
    BY <1>2
  <2> QED
    BY <2>1, ExamineLeaves
<1>3. CASE Record \/ Drop
  BY <1>3, RecordLeaves, DropLeaves DEF Removes
<1>4. CASE Answering \/ Undo \/ Finish \/ Crash
  BY <1>4, AnsweringLeaves, UndoLeaves, FinishLeaves, CrashLeaves DEF Removes
<1>5. CASE Prepare
  BY <1>5, PrepareLeaves
<1>6. CASE WriteJournal
  BY <1>6, WriteJournalLeaves
<1>7. CASE Guard
  BY <1>7, GuardLeaves
<1>8. CASE Replace
  <2> DEFINE j == call.journal
  <2>1. call.at = "replace" /\ pending' = pending /\ SameCount
    BY <1>8, ReplaceLeaves
  <2>2. JournalFits(j) /\ \A i \in pending : i = j
    BY <2>1 DEF PendingFits, JournalsFit
  <2>3. CASE UNCHANGED <<stock, landed>>
    BY <1>8, <2>1, <2>3, ReplaceLeaves
  <2>4. CASE /\ stock' = j.after /\ landed' = landed \cup {j.row}
             /\ call'.at = "persist" \/ (call'.at = "catch" /\ call'.reason = "error")
    <3>1. stock'.rows = j.before.rows \cup {j.row}
      BY <2>2, <2>4 DEF JournalFits, With
    <3>2. count.edits = 0 => landed' = stock'.rows
      BY <2>1, <2>4, <3>1
    <3>3. \A i \in pending' : i.row \in stock'.rows
      BY <2>1, <2>2, <3>1
    <3> QED
      BY <2>1, <2>4, <3>2, <3>3
  <2> QED
    BY <1>8, <2>3, <2>4, ReplaceLeaves
<1>9. CASE Catch
  BY <1>9, CatchLeaves
<1>10. CASE Persist
  BY <1>10, PersistLeaves
<1>11. CASE Launch
  BY <1>11, LaunchLeaves
<1>12. CASE Callers
  <2>1. PICK o \in Ops : View(o) \/ Status(o) \/ Execute(o)
    BY <1>12 DEF Callers
  <2> QED
    BY <2>1, EnterLeaves
<1>13. CASE Fault
  BY <1>13, FaultLeaves
<1>14. CASE Edit
  BY <1>14, EditLeaves
<1>15. CASE AccessChanges
  BY <1>15, AccessLeaves
<1>16. CASE UNCHANGED stockVars
  BY <1>16 DEF stockVars
<1> QED
  BY <1>1, <1>2, <1>3, <1>4, <1>5, <1>6, <1>7, <1>8, <1>9, <1>10, <1>11, <1>12, <1>13, <1>14,
     <1>15, <1>16 DEF Next, Work, Answering

LEMMA StockStep == StockInv /\ [Next]_stockVars => StockInv'
  BY TypesStep, CallStep, PendingStep, JournalsStep, ReceiptsStep, ProgressStep, NumbersStep,
     UntouchedStep DEF StockInv

LEMMA StockInvariance == Spec => []StockInv
  BY StockInit, StockStep, PTL DEF Spec

\* Every variable keeps its type.
THEOREM StockTypeCorrect == Spec => []TypeOK
<1>1. StockInv => TypeOK
  BY DEF StockInv, StockTypes, TypeOK, CallRecords, Answers, Counts
<1> QED
  BY <1>1, StockInvariance, PTL

\* A receipt in the document has its History entry, or the one journal there is owes it;
\* no entry stands for anything else; and an operation has one receipt.
THEOREM ReceiptsHaveEvidence == Spec => []EvidenceIsOwed
<1>1. ASSUME NEW S, \A x, y \in S : x = y
      PROVE  Cardinality(S) <= 1
  <2>1. CASE S = {}
    BY <2>1, FS_EmptySet
  <2>2. CASE S # {}
    <3>1. PICK x : S = {x}
      BY <1>1, <2>2
    <3>2. Cardinality({x}) = 1
      BY FS_Singleton
    <3> QED
      BY <3>1, <3>2
  <2> QED
    BY <2>1, <2>2
<1>2. StockInv => EvidenceIsOwed
  <2> SUFFICES ASSUME StockInv
               PROVE  EvidenceIsOwed
    OBVIOUS
  <2>1. Cardinality(pending) <= 1
    BY <1>1 DEF StockInv, PendingFits
  <2>2. \A o \in Ops : \A r, s \in RowsOf(stock, o) : r = s
    BY DEF StockInv, ReceiptsFit, RowsOf
  <2>3. \A o \in Ops : Cardinality(RowsOf(stock, o)) <= 1
    BY <1>1, <2>2
  <2> QED
    BY <2>1, <2>3 DEF StockInv, ReceiptsFit, EvidenceIsOwed
<1> QED
  BY <1>2, StockInvariance, PTL

-------------------------------------------------------------------------------
\* What a call tells the caller of one command, once the invariant holds.
TellsTruly(o) ==
  LET kind == answer'[o].kind
      done == {r \in landed' : r.op = o}
  IN /\ kind = "applied"
          => [op |-> o, receipt |-> answer'[o].receipt] \in landed' \cap hist'
     /\ kind \in {"denied", "invalid"} /\ call.kind = "execute"
          => \A r \in done : r.receipt # count.calls
     /\ kind \in {"not-found", "conflict"}
          => done \cap stock'.rows = {} /\ (done # {} => count.edits > 0)
     /\ kind = "uncertain" => count.edits > 0
     /\ kind # "missing"

\* An answer of an ending call is the one it ends with.
LEMMA EndsTells ==
  ASSUME StockInv, NEW kind \in Kinds, NEW receipt \in 0..MaxCalls, Ends(kind, receipt),
         NEW o \in Ops, answer'[o] # answer[o]
  PROVE  o = call.op /\ answer'[o].kind = kind /\ answer'[o].receipt = receipt
<1>1. answer' = [answer EXCEPT ![call.op] = Said(kind, receipt)] /\ answer \in [Ops -> Answers]
  BY DEF StockInv, StockTypes, Ends
<1>2. o = call.op
  BY <1>1
<1>3. answer'[o] = Said(kind, receipt)
  BY <1>1, <1>2
<1> QED
  BY <1>2, <1>3 DEF Said

\* A failure tells only to check the status, or that the document is too large.
LEMMA ThrowsTells ==
  ASSUME StockInv, Throws \/ Unreadable, NEW o \in Ops, answer'[o] # answer[o]
  PROVE  TellsTruly(o)
<1>1. Ends("error", 0) \/ Ends("too-large", 0)
  BY DEF Throws, Unreadable
<1>2. answer'[o].kind \in {"error", "too-large"}
  BY <1>1, EndsTells, StockAssumption DEF Kinds
<1> QED
  BY <1>2 DEF TellsTruly

\* A receipt that a call reads in the document has its entry.
LEMMA ReceiptsAreSettled ==
  ASSUME StockInv, call.at = "read", NEW o \in Ops, NEW r \in RowsOf(stock, o)
  PROVE  /\ r \in landed \cap hist /\ r = [op |-> o, receipt |-> r.receipt]
         /\ r.receipt \in 0..MaxCalls
<1>1. r \in Rows /\ r.op = o
  BY DEF StockInv, StockTypes, Documents, RowsOf
<1>2. r \in landed \cap hist
  BY DEF StockInv, ReceiptsFit, PendingFits, RowsOf
<1> QED
  BY <1>1, <1>2, StockAssumption DEF Rows

\* A command that is not in the document has no receipt that nobody else removed.
LEMMA AbsentIsAbsent ==
  ASSUME StockInv, NEW o \in Ops, \A r \in stock.rows : r.op # o
  PROVE  LET done == {r \in landed : r.op = o}
         IN done \cap stock.rows = {} /\ (done # {} => count.edits > 0)
BY StockAssumption DEF StockInv, UntouchedFits, StockTypes, Counts

\* The answers of a call that reads.
LEMMA AnsweringTells ==
  ASSUME StockInv, Answering, NEW o \in Ops, answer'[o] # answer[o]
  PROVE  TellsTruly(o)
<1>0. call.at = "read" /\ UNCHANGED <<stock, landed, hist, count>> /\ 0 \in 0..MaxCalls
  BY AnsweringLeaves, StockAssumption
     DEF StockInv, Rests, Answering, ReadUnreadable, ReadBroken, AnswerView, AnswerStatus,
         Replay, Conflict, PrepareRefuses, Told
<1>1. CASE Throws \/ Unreadable
  BY <1>1, ThrowsTells
<1>2. CASE Ends("seen", 0) \/ Ends("error", 0)
  <2>1. answer'[o].kind \in {"seen", "error"}
    BY <1>0, <1>2, EndsTells DEF Kinds
  <2> QED
    BY <2>1 DEF TellsTruly
<1>3. CASE Ends("invalid", 0) \/ Ends("denied", 0)
  <2>1. answer'[o].kind \in {"invalid", "denied"}
    BY <1>0, <1>3, EndsTells DEF Kinds
  <2>2. call.kind = "execute" => \A r \in landed : r.receipt # count.calls
    BY <1>0 DEF StockInv, ReceiptsAreNumbered
  <2> QED
    BY <1>0, <2>1, <2>2 DEF TellsTruly
<1>4. CASE (Ends("not-found", 0) \/ Ends("conflict", 0)) /\ RowsOf(stock, call.op) = {}
  <2>1. answer'[o].kind \in {"not-found", "conflict"} /\ o = call.op
    BY <1>0, <1>4, EndsTells DEF Kinds
  <2>2. \A r \in stock.rows : r.op # o
    BY <1>4, <2>1 DEF RowsOf
  <2>3. LET done == {r \in landed : r.op = o}
        IN done \cap stock.rows = {} /\ (done # {} => count.edits > 0)
    BY <2>2, AbsentIsAbsent
  <2> QED
    BY <1>0, <2>1, <2>3 DEF TellsTruly
<1>5. ASSUME NEW r \in RowsOf(stock, call.op), Ends("applied", r.receipt)
      PROVE  TellsTruly(o)
  <2>1. r.receipt \in 0..MaxCalls
    BY StockAssumption DEF StockInv, StockTypes, Documents, Rows, RowsOf
  <2>2. answer'[o].kind = "applied" /\ answer'[o].receipt = r.receipt /\ o = call.op
    BY <1>5, <2>1, EndsTells DEF Kinds
  <2>3. r \in landed \cap hist /\ r = [op |-> o, receipt |-> r.receipt]
    BY <1>0, <2>2, ReceiptsAreSettled
  <2> QED
    BY <1>0, <2>2, <2>3 DEF TellsTruly
<1>6. stock.rows \subseteq hist
  BY <1>0 DEF StockInv, ReceiptsFit, PendingFits
<1>7. CASE ReadUnreadable \/ ReadBroken
  BY <1>1, <1>3, <1>7 DEF ReadUnreadable, ReadBroken
<1>8. CASE AnswerView
  BY <1>2, <1>6, <1>8 DEF AnswerView
<1>9. CASE AnswerStatus
  BY <1>4, <1>5, <1>9 DEF AnswerStatus
<1>10. CASE Replay
  BY <1>3, <1>5, <1>10 DEF Replay
<1>11. CASE Conflict
  BY <1>4, <1>11 DEF Conflict, Unrecorded
<1>12. CASE PrepareRefuses
  BY <1>2, <1>3, <1>12 DEF PrepareRefuses
<1> QED
  BY <1>7, <1>8, <1>9, <1>10, <1>11, <1>12 DEF Answering

\* The answers of a command that was stopped, or that went through.
LEMMA CommitTells ==
  ASSUME StockInv, Catch \/ Undo \/ Finish, NEW o \in Ops, answer'[o] # answer[o]
  PROVE  TellsTruly(o)
<1>0. 0 \in 0..MaxCalls
  BY StockAssumption
<1>1. UNCHANGED <<stock, landed, hist>>
  BY DEF Catch, Undo, Finish
<1>2. CASE Throws \/ Unreadable
  BY <1>2, ThrowsTells
<1>3. ASSUME NEW kind \in {"denied", "error", "conflict", "too-large", "invalid"}, Ends(kind, 0),
             call.at \in {"catch", "undo"}, kind = "error" \/ call.reason # "error"
      PROVE  TellsTruly(o)
  <2>1. answer'[o].kind = kind /\ o = call.op
    BY <1>0, <1>3, EndsTells DEF Kinds
  <2>2. kind # "error" => /\ \A r \in landed : r.receipt # count.calls
                          /\ \A r \in stock.rows : r.op # call.op
    BY <1>3 DEF StockInv, ReceiptsAreNumbered, ProgressFits, NotYet, CallFits, Committing
  <2>3. kind # "error" => LET done == {r \in landed : r.op = o}
                          IN done \cap stock.rows = {} /\ (done # {} => count.edits > 0)
    BY <2>1, <2>2, AbsentIsAbsent
  <2> QED
    BY <1>1, <1>3, <2>1, <2>2, <2>3 DEF TellsTruly
<1>4. CASE Catch
  <2>1. call.at = "catch" /\ call.reason \in {"denied", "conflict", "error"}
    BY <1>4 DEF Catch, StockInv, CallFits
  <2>2. CASE Ends(IF stock.form = "broken" THEN call.reason ELSE "error", 0)
    BY <1>3, <2>1, <2>2
  <2>3. CASE Goes("undo") \/ Goes("persist")
    BY <2>3 DEF Goes
  <2> QED
    BY <1>2, <1>4, <2>2, <2>3 DEF Catch
<1>5. CASE Undo
  <2>1. call.at = "undo" /\ call.reason \in {"denied", "conflict", "error"}
    BY <1>5 DEF Undo, StockInv, CallFits
  <2>2. \E kind \in {"denied", "error", "conflict", "too-large", "invalid"} :
          (kind = "error" \/ call.reason # "error") /\ (Ends(kind, 0) \/ Throws)
    BY <1>5, <2>1 DEF Undo, Durably
  <2> QED
    BY <1>2, <1>3, <2>1, <2>2
<1>6. CASE Finish
  <2>1. call.at = "finish" /\ call.journal.row \in Rows
    BY <1>6 DEF Finish, StockInv, CallFits, Committing, Journals
  <2>2. call.journal.row \in hist \cap landed
    BY <2>1 DEF StockInv, ProgressFits, ReceiptsFit
  <2>3. call.journal.row = [op |-> call.op, receipt |-> call.journal.row.receipt]
        /\ call.journal.row.receipt \in 0..MaxCalls
    BY <2>1, StockAssumption DEF StockInv, CallFits, Committing, Rows
  <2>4. CASE Ends("applied", call.journal.row.receipt)
    <3>1. /\ answer'[o].kind = "applied" /\ o = call.op
          /\ answer'[o].receipt = call.journal.row.receipt
      BY <2>3, <2>4, EndsTells DEF Kinds
    <3> QED
      BY <1>1, <2>2, <2>3, <3>1 DEF TellsTruly
  <2> QED
    BY <1>2, <1>6, <2>4 DEF Finish, Durably
<1> QED
  BY <1>4, <1>5, <1>6

\* A call that enters, is recovered or is cut short.
LEMMA OthersTell ==
  ASSUME StockInv, NEW o \in Ops, answer'[o] # answer[o],
         \/ \E j \in pending : Examine(j)
         \/ Record \/ Drop \/ WriteJournal \/ Persist \/ Fault \/ Crash \/ Callers
  PROVE  TellsTruly(o)
<1>1. CASE Throws \/ Unreadable
  BY <1>1, ThrowsTells
<1>2. CASE \E j \in pending : Examine(j)
  <2>1. PICK j \in pending : Examine(j)
    BY <1>2
  <2>2. CASE Ends("uncertain", 0) /\ stock # j.before /\ j.row \notin stock.rows
    <3>1. answer'[o].kind = "uncertain"
      BY <2>2, EndsTells, StockAssumption DEF Kinds
    <3>2. count.edits > 0
      BY <2>2, StockAssumption DEF StockInv, UntouchedFits, StockTypes, Counts
    <3> QED
      BY <3>1, <3>2 DEF TellsTruly
  <2> QED
    BY <1>1, <2>1, <2>2 DEF Examine, Recorded
<1>3. CASE Record \/ Drop \/ WriteJournal \/ Persist \/ Fault
  <2>1. Throws
    BY <1>3 DEF Record, Drop, WriteJournal, Persist, Fault, Durably, Goes, Caught
  <2> QED
    BY <1>1, <2>1
<1>4. CASE Crash
  <2>1. answer' = [answer EXCEPT ![call.op] = Said("error", 0)] /\ answer \in [Ops -> Answers]
    BY <1>4 DEF Crash, StockInv, StockTypes
  <2>2. answer'[o].kind = "error"
    BY <2>1 DEF Said
  <2> QED
    BY <2>2 DEF TellsTruly
<1>5. CASE Callers
  <2>1. PICK p \in Ops : View(p) \/ Status(p) \/ Execute(p)
    BY <1>5 DEF Callers
  <2>2. /\ call.at = "idle"
        /\ \/ answer' = [answer EXCEPT ![p] = Said("none", 0)]
           \/ answer' = [answer EXCEPT ![p] = Said("denied", 0)]
    BY <2>1 DEF View, Status, Execute, Enter
  <2>3. answer'[o].kind \in {"none", "denied"}
    BY <2>2 DEF StockInv, StockTypes, Said
  <2> QED
    BY <2>2, <2>3 DEF TellsTruly, StockInv, CallFits
<1> QED
  BY <1>2, <1>3, <1>4, <1>5

\* What a caller is told is so, whatever failed and whoever else wrote.
THEOREM CallersAreToldTheTruth == Spec => AnswersAreTrue
<1>1. ASSUME StockInv, Next, NEW o \in Ops, answer'[o] # answer[o]
      PROVE  TellsTruly(o)
  BY <1>1, AnsweringTells, CommitTells, OthersTell
     DEF Next, Work, Answering, Recovered, Prepare, Guard, Goes, Caught, Replace, Launch, Edit,
         AccessChanges
<1>2. StockInv /\ [Next]_stockVars =>
        [\A o \in Ops : answer'[o] # answer[o] => TellsTruly(o)]_stockVars
  BY <1>1
<1> QED
  BY <1>2, StockInvariance, PTL DEF Spec, AnswersAreTrue, TellsTruly

===============================================================================
