---------------------------- MODULE InventoryStock ----------------------------
(***************************************************************************)
(* The inventory of a project (server/inventory/): a stock command is one  *)
(* replacement of the stock document, which carries the receipt, and one   *)
(* entry in the History of the project, which is another file.  A journal  *)
(* in between says that an entry may be owed; recovery confirms what       *)
(* happened and never makes a command happen.  Everything runs under       *)
(* Store.locked, one call at a time; every await at which a failure, a     *)
(* crash, another program or a change of access matters ends a step.       *)
(*                                                                         *)
(* The History in memory is the saved one whenever a call starts, because  *)
(* locked reloads it after a call that threw; only the saved one is kept.  *)
(* A receipt is known by the call that drew it.  A document is known by    *)
(* who wrote its bytes and by its receipts, from which versions follow.    *)
(***************************************************************************)
EXTENDS Naturals, FiniteSets, FiniteSetsExt

CONSTANTS
  Ops,         \* the commands, by operation id
  Places,      \* balances: an item at a location
  Touches,     \* the balances each command changes: two for a transfer
  NoOp, NoPlan, NoJournal,
  Room,        \* receipts that fit the limit on the document (compact)
  Legible,     \* receipts that fit the limit on a file that is read (as written)
  MaxCalls,    \* calls of execute
  MaxFaults,   \* reads, writes, renames and removals that fail
  MaxCrashes,
  MaxEdits,    \* edits of the document by other programs
  MaxChanges   \* changes of somebody's access

ASSUME StockAssumption ==
  /\ Touches \in [Ops -> (SUBSET Places) \ {{}}]
  /\ NoOp \notin Ops
  /\ {Room, Legible, MaxCalls, MaxFaults, MaxCrashes, MaxEdits, MaxChanges} \subseteq Nat

VARIABLES
  stock,    \* the stock document
  pending,  \* the journals in inventory-pending/
  hist,     \* the inventory entries of the saved History
  access,   \* what the caller may do, and the generation of that authority
  call,     \* where the one locked call stands
  plan,     \* the versions each command expects, once somebody has looked
  answer,   \* what the last call about each command was told
  landed,   \* history: the receipts the service put into the document
  count     \* how many calls, faults, crashes, edits and changes there were

stockVars == <<stock, pending, hist, access, call, plan, answer, landed, count>>

Rows == [op : Ops, receipt : 1..MaxCalls]
Documents == [form : {"first", "ours", "other", "broken", "large"}, rows : SUBSET Rows]
Journals == [row : Rows, before : Documents, after : Documents]
Opening == [form |-> "first", rows |-> {}]
Broken == [form |-> "broken", rows |-> {}]
Large == [form |-> "large", rows |-> {}]

\* The version of a balance is the last receipt that changed it.
Version(doc, p) == Max({0} \cup {r.receipt : r \in {x \in doc.rows : p \in Touches[x.op]}})

\* Mutant of Versions: the caller is shown every balance.
VersionsOfAll(doc, o) == [p \in Places |-> Version(doc, p)]

\* The versions of the balances a command changes.
Versions(doc, o) == [p \in Touches[o] |-> Version(doc, p)]
RowsOf(doc, o) == {r \in doc.rows : r.op = o}

\* readTextOrNull: a file larger than the limit is refused.
Readable(doc) ==
  doc.form # "large" /\ (doc.form = "ours" => Cardinality(doc.rows) <= Legible)
Recorded(doc, j) == j.row \in doc.rows

\* The document with one more receipt, as the service writes it.
With(doc, row) == [form |-> "ours", rows |-> doc.rows \cup {row}]

At(at) == [at |-> at, kind |-> "none", op |-> NoOp, generation |-> 0, journal |-> NoJournal,
           reason |-> "none"]
Said(kind, receipt) == [kind |-> kind, receipt |-> receipt]
Counted(kind) == count' = [count EXCEPT ![kind] = @ + 1]

-------------------------------------------------------------------------------
\* The call ends and its caller is told; a launch has nobody to tell.
Ends(kind, receipt) ==
  /\ call' = At("idle")
  /\ answer' = [answer EXCEPT ![call.op] = Said(kind, receipt)]

\* Every other error: the caller is told to check the status, a launch fails.
Throws ==
  IF call.kind = "launch" THEN call' = At("down") /\ UNCHANGED answer ELSE Ends("error", 0)

\* ApiError 413 of a file that is too large to read.
Unreadable == IF call.kind = "launch" THEN Throws ELSE Ends("too-large", 0)

Goes(at) == call' = [call EXCEPT !.at = at] /\ UNCHANGED answer

\* One file is written or removed durably: it is done, or it is reported failed,
\* whether or not it was done.
Durably(done, left, next) ==
  \/ done /\ next /\ UNCHANGED count
  \/ /\ count.faults < MaxFaults
     /\ Counted("faults")
     /\ done \/ left
     /\ Throws

\* A call enters the queue and is authorized for what it asks.
Enter(kind, o, needs) ==
  /\ call.at = "idle"
  /\ IF needs \in access.may
       THEN /\ call' = [At("recover") EXCEPT !.kind = kind, !.op = o,
                                             !.generation = access.generation]
            /\ answer' = [answer EXCEPT ![o] = Said("none", 0)]
       ELSE answer' = [answer EXCEPT ![o] = Said("denied", 0)] /\ UNCHANGED call
  /\ UNCHANGED <<stock, pending, hist, access, plan, landed>>

\* Somebody looks at the inventory to prepare a command (view).  Whoever was told to
\* check the status of the command does that first.
View(o) ==
  /\ answer[o].kind # "error"
  /\ Enter("view", o, "read")
  /\ UNCHANGED count

Status(o) == Enter("status", o, "read") /\ UNCHANGED count

\* A command, or the same command again.
Execute(o) ==
  /\ plan[o] # NoPlan
  /\ count.calls < MaxCalls
  /\ Counted("calls")
  /\ Enter("execute", o, "apply")

-------------------------------------------------------------------------------
\* recover: no journal is left, and the call goes on.
Recovered ==
  /\ call.at = "recover"
  /\ pending = {}
  /\ IF call.kind = "launch" THEN call' = At("idle") ELSE call' = [call EXCEPT !.at = "read"]
  /\ UNCHANGED <<stock, pending, hist, access, plan, answer, landed, count>>

\* Mutant of Examine: a journal whose document is unchanged cannot be reconciled.
ExamineStrictly(j) ==
  /\ call.at = "recover"
  /\ j \in pending
  /\ \/ /\ Readable(stock) /\ Recorded(stock, j)
        /\ call' = [call EXCEPT !.at = "record", !.journal = j] /\ UNCHANGED answer
     \/ /\ Readable(stock) /\ ~Recorded(stock, j)
        /\ IF call.kind = "status" THEN Ends("uncertain", 0) ELSE Throws
     \/ ~Readable(stock) /\ Unreadable
  /\ UNCHANGED <<stock, pending, hist, access, plan, landed, count>>

\* recover, one journal: the document is as it was and the journal is dropped; it
\* holds the receipt, and the entry is owed; or it is not possible to tell.
Examine(j) ==
  /\ call.at = "recover"
  /\ j \in pending
  /\ \/ /\ Readable(stock) /\ stock = j.before
        /\ call' = [call EXCEPT !.at = "drop", !.journal = j] /\ UNCHANGED answer
     \/ /\ Readable(stock) /\ stock # j.before /\ Recorded(stock, j)
        /\ call' = [call EXCEPT !.at = "record", !.journal = j] /\ UNCHANGED answer
     \/ /\ Readable(stock) /\ stock # j.before /\ ~Recorded(stock, j)
        /\ IF call.kind = "status" THEN Ends("uncertain", 0) ELSE Throws
     \/ ~Readable(stock) /\ Unreadable
  /\ UNCHANGED <<stock, pending, hist, access, plan, landed, count>>

\* recordRecoveredHistory: the entry is there, or another entry has the operation, or
\* it is added to the saved History.
Record ==
  /\ call.at = "record"
  /\ LET row == call.journal.row
     IN \/ row \in hist /\ Goes("drop") /\ UNCHANGED <<hist, count>>
        \/ /\ row \notin hist /\ \E r \in hist : r.op = row.op
           /\ Throws /\ UNCHANGED <<hist, count>>
        \/ /\ \A r \in hist : r.op # row.op
           /\ Durably(hist' = hist \cup {row}, UNCHANGED hist, Goes("drop"))
  /\ UNCHANGED <<stock, pending, access, plan, landed>>

Drop ==
  /\ call.at = "drop"
  /\ Durably(pending' = pending \ {call.journal}, UNCHANGED pending, Goes("recover"))
  /\ UNCHANGED <<stock, hist, access, plan, landed>>

-------------------------------------------------------------------------------
\* The document of a call that has recovered is read.
Reading(kind) == call.at = "read" /\ call.kind = kind /\ Readable(stock)
Told == UNCHANGED <<stock, pending, hist, access, landed, count>>

ReadUnreadable ==
  /\ call.at = "read"
  /\ ~Readable(stock)
  /\ Unreadable
  /\ plan' = plan /\ Told

\* A document that is missing or does not parse.
ReadBroken ==
  /\ call.at = "read"
  /\ stock.form = "broken"
  /\ IF call.kind = "view" THEN Throws ELSE Ends("invalid", 0)
  /\ plan' = plan /\ Told

\* view: every receipt has its entry; the caller learns the versions.
AnswerView ==
  /\ Reading("view") /\ stock.form # "broken"
  /\ IF stock.rows \subseteq hist
       THEN /\ Ends("seen", 0)
            /\ plan' = [plan EXCEPT ![call.op] = Versions(stock, call.op)]
       ELSE Ends("missing", 0) /\ plan' = plan
  /\ Told

AnswerStatus ==
  /\ Reading("status") /\ stock.form # "broken"
  /\ \/ RowsOf(stock, call.op) = {} /\ Ends("not-found", 0)
     \/ \E r \in RowsOf(stock, call.op) : Ends("applied", r.receipt)
  /\ plan' = plan /\ Told

\* assertFreshAuthorization: the permission is still there, and the authority is the
\* one the call was admitted under.
Fresh == "apply" \in access.may /\ access.generation = call.generation

\* The operation is recorded: its receipt is disclosed under fresh authority.
Replay ==
  /\ Reading("execute") /\ stock.form # "broken"
  /\ \E r \in RowsOf(stock, call.op) :
       IF Fresh THEN Ends("applied", r.receipt) ELSE Ends("denied", 0)
  /\ plan' = plan /\ Told

\* Mutant of Unrecorded: a command is not looked for among the receipts.
UnrecordedAnyway == Reading("execute") /\ stock.form # "broken"

Unrecorded == Reading("execute") /\ stock.form # "broken" /\ RowsOf(stock, call.op) = {}

\* Somebody has moved the stock since the caller looked.
Conflict ==
  /\ Unrecorded
  /\ Versions(stock, call.op) # plan[call.op]
  /\ Ends("conflict", 0)
  /\ plan' = plan /\ Told

\* prepareInventoryCommand refuses: a quantity, a unit, a time (invalid), or a limit.
\* Quantities are not modelled, so any command may be refused.
PrepareRefuses ==
  /\ Unrecorded
  /\ Versions(stock, call.op) = plan[call.op]
  /\ \E kind \in {"invalid", "error"} : Ends(kind, 0)
  /\ plan' = plan /\ Told

\* It proposes the document with the receipt, if the document keeps to its limit.
Prepare ==
  /\ Unrecorded
  /\ Versions(stock, call.op) = plan[call.op]
  /\ Cardinality(stock.rows) < Room
  /\ LET row == [op |-> call.op, receipt |-> count.calls]
     IN call' = [call EXCEPT !.at = "journal",
                             !.journal = [row |-> row, before |-> stock,
                                          after |-> With(stock, row)]]
  /\ UNCHANGED answer
  /\ plan' = plan /\ Told

-------------------------------------------------------------------------------
WriteJournal ==
  /\ call.at = "journal"
  /\ Durably(pending' = pending \cup {call.journal}, UNCHANGED pending, Goes("guard"))
  /\ UNCHANGED <<stock, hist, access, plan, landed>>

\* The write ends up in its handler of errors.
Caught(reason) == call' = [call EXCEPT !.at = "catch", !.reason = reason] /\ UNCHANGED answer

\* The last look before each rename: fresh authority, and the bytes the receipt was
\* computed from.
Guard ==
  /\ call.at = "guard"
  /\ IF ~Fresh THEN Caught("denied")
     ELSE IF ~Readable(stock) THEN Caught("error")
     ELSE IF stock # call.journal.before THEN Caught("conflict")
     ELSE Goes("replace")
  /\ UNCHANGED <<stock, pending, hist, access, plan, landed, count>>

\* The rename.  One that fails is tried again after another look, or ends in the
\* handler, where the document may have been replaced for all that.
Replace ==
  /\ call.at = "replace"
  /\ LET lands == /\ stock' = call.journal.after
                  /\ landed' = landed \cup {call.journal.row}
     IN \/ lands /\ Goes("persist") /\ UNCHANGED count
        \/ /\ count.faults < MaxFaults
           /\ Counted("faults")
           /\ \/ UNCHANGED <<stock, landed>> /\ (Goes("guard") \/ Caught("error"))
              \/ lands /\ Caught("error")
  /\ UNCHANGED <<pending, hist, access, plan>>

\* Mutant of Catch: whatever stopped the write, it did not happen.
CatchUnread ==
  /\ call.at = "catch"
  /\ Goes("undo")
  /\ UNCHANGED <<stock, pending, hist, access, plan, landed, count>>

\* The handler looks at what is there: nothing happened, or it lost to another
\* program; it happened all the same; or it is not possible to tell and the journal
\* stays.  Bytes that do not parse leave the error as it was.
Catch ==
  /\ call.at = "catch"
  /\ LET j == call.journal
         lost == stock = j.before \/ call.reason = "conflict"
     IN \/ ~Readable(stock) /\ Unreadable
        \/ Readable(stock) /\ lost /\ Goes("undo")
        \/ Readable(stock) /\ ~lost /\ Recorded(stock, j) /\ Goes("persist")
        \/ /\ Readable(stock) /\ ~lost /\ ~Recorded(stock, j)
           /\ Ends(IF stock.form = "broken" THEN call.reason ELSE "error", 0)
  /\ UNCHANGED <<stock, pending, hist, access, plan, landed, count>>

\* The journal is removed and the error goes to the caller; after a conflict the
\* document is read again for its version.
Undo ==
  /\ call.at = "undo"
  /\ \E kind \in IF call.reason # "conflict" THEN {call.reason}
                 ELSE IF ~Readable(stock) THEN {"too-large"}
                 ELSE IF stock.form = "broken" THEN {"invalid", "error"} ELSE {"conflict"} :
       Durably(pending' = pending \ {call.journal}, UNCHANGED pending, Ends(kind, 0))
  /\ UNCHANGED <<stock, hist, access, plan, landed>>

\* The document holds the receipt: the History is saved, then the journal removed.
Persist ==
  /\ call.at = "persist"
  /\ Durably(hist' = hist \cup {call.journal.row}, UNCHANGED hist, Goes("finish"))
  /\ UNCHANGED <<stock, pending, access, plan, landed>>

Finish ==
  /\ call.at = "finish"
  /\ Durably(pending' = pending \ {call.journal}, UNCHANGED pending,
             Ends("applied", call.journal.row.receipt))
  /\ UNCHANGED <<stock, hist, access, plan, landed>>

-------------------------------------------------------------------------------
\* A read fails, or a write of an object of the History; inside the write of the
\* document, before the rename, its handler takes over.
Fault ==
  /\ call.at \in {"recover", "read", "journal", "guard", "catch"}
  /\ count.faults < MaxFaults
  /\ Counted("faults")
  /\ IF call.at = "guard" THEN Caught("error") ELSE Throws
  /\ UNCHANGED <<stock, pending, hist, access, plan, landed>>

\* The process stops; whoever waits for an answer gets none.
Crash ==
  /\ call.at # "down"
  /\ count.crashes < MaxCrashes
  /\ Counted("crashes")
  /\ call' = At("down")
  /\ answer' = IF call.op = NoOp THEN answer ELSE [answer EXCEPT ![call.op] = Said("error", 0)]
  /\ UNCHANGED <<stock, pending, hist, access, plan, landed>>

\* The service starts again (init).
Launch ==
  /\ call.at = "down"
  /\ call' = [At("recover") EXCEPT !.kind = "launch"]
  /\ UNCHANGED <<stock, pending, hist, access, plan, answer, landed, count>>

\* Another program saves the document as it is, spoils it, makes it too large, or puts
\* the first one back.
Edit ==
  /\ count.edits < MaxEdits
  /\ Counted("edits")
  /\ stock' \in ({Broken, Large, Opening}
              \cup {[d EXCEPT !.form = "other"] : d \in {stock} \ {Broken, Large}}) \ {stock}
  /\ UNCHANGED <<pending, hist, access, call, plan, answer, landed>>

AccessChanges ==
  /\ count.changes < MaxChanges
  /\ Counted("changes")
  /\ \E may \in {{}, {"read"}, {"read", "apply"}} :
       access' = [may |-> may, generation |-> access.generation + 1]
  /\ UNCHANGED <<stock, pending, hist, call, plan, answer, landed>>

-------------------------------------------------------------------------------
Init ==
  /\ stock = Opening /\ pending = {} /\ hist = {} /\ landed = {}
  /\ access = [may |-> {"read", "apply"}, generation |-> 0]
  /\ call = At("idle")
  /\ plan = [o \in Ops |-> NoPlan]
  /\ answer = [o \in Ops |-> Said("none", 0)]
  /\ count = [calls |-> 0, faults |-> 0, crashes |-> 0, edits |-> 0, changes |-> 0]

\* The call under way goes on, and a stopped service is started again.
Work ==
  \/ Recovered \/ (\E j \in pending : Examine(j)) \/ Record \/ Drop
  \/ ReadUnreadable \/ ReadBroken \/ AnswerView \/ AnswerStatus
  \/ Replay \/ Conflict \/ PrepareRefuses \/ Prepare
  \/ WriteJournal \/ Guard \/ Replace \/ Catch \/ Undo \/ Persist \/ Finish
  \/ Launch

Callers == \E o \in Ops : View(o) \/ Status(o) \/ Execute(o)

Next == Work \/ Callers \/ Fault \/ Crash \/ Edit \/ AccessChanges

Spec == Init /\ [][Next]_stockVars

\* The caller does what an error asks for, and the queue is first come, first served.
FairSpec ==
  /\ Spec
  /\ WF_stockVars(Work)
  /\ \A o \in Ops : SF_stockVars(answer[o].kind = "error" /\ Status(o))

-------------------------------------------------------------------------------
Kinds == {"none", "error", "denied", "invalid", "conflict", "applied", "not-found", "uncertain",
          "seen", "missing", "too-large"}
Stages == {"idle", "down", "recover", "record", "drop", "read", "journal", "guard", "replace",
           "catch", "undo", "persist", "finish"}

TypeOK ==
  /\ stock \in Documents
  /\ pending \subseteq Journals
  /\ hist \subseteq Rows /\ landed \subseteq Rows
  /\ access.may \subseteq {"read", "apply"} /\ access.generation \in 0..MaxChanges
  /\ call.at \in Stages
  /\ call.kind \in {"none", "view", "status", "execute", "launch"}
  /\ call.op \in Ops \cup {NoOp}
  /\ call.generation \in 0..MaxChanges
  /\ call.journal \in Journals \cup {NoJournal}
  /\ call.reason \in {"none", "denied", "conflict", "error"}
  /\ \A o \in Ops : plan[o] = NoPlan \/ plan[o] \in [Touches[o] -> 0..MaxCalls]
  /\ answer \in [Ops -> [kind : Kinds, receipt : 0..MaxCalls]]
  /\ count \in [calls : 0..MaxCalls, faults : 0..MaxFaults, crashes : 0..MaxCrashes,
                edits : 0..MaxEdits, changes : 0..MaxChanges]

\* A receipt in the document has its entry in the History, or the one journal there
\* is owes it; an entry stands for a receipt that was put into the document; and an
\* operation has one receipt (commit, recover, recordRecoveredHistory).
EvidenceIsOwed ==
  /\ stock.rows \subseteq hist \cup {j.row : j \in pending}
  /\ hist \subseteq landed
  /\ Cardinality(pending) <= 1
  /\ \A o \in Ops : Cardinality(RowsOf(stock, o)) <= 1

\* What a caller is told is so (execute, status, view): an applied receipt is in the
\* document and the History; after a refusal nothing of the call has happened; what
\* is not found, or stale, has no receipt that another program did not remove; only
\* another program makes an effect uncertain; and no receipt lacks its entry.
AnswersAreTrue ==
  [][\A o \in Ops : answer'[o] # answer[o] =>
       LET kind == answer'[o].kind
           done == {r \in landed' : r.op = o}
       IN /\ kind = "applied"
               => [op |-> o, receipt |-> answer'[o].receipt] \in landed' \cap hist'
          /\ kind \in {"denied", "invalid"} /\ call.kind = "execute"
               => \A r \in done : r.receipt # count.calls
          /\ kind \in {"not-found", "conflict"}
               => done \cap stock'.rows = {} /\ (done # {} => count.edits > 0)
          /\ kind = "uncertain" => count.edits > 0
          /\ kind # "missing"]_stockVars

\* A journal that cannot be reconciled: the document is neither what it was nor holds
\* the receipt, or the History has another entry for the operation.
Blocked ==
  \E j \in pending :
    /\ stock # j.before
    /\ Recorded(stock, j) => \E r \in hist : r.op = j.row.op /\ r # j.row

\* Whoever was told to check the status learns what became of the command, across
\* failures and restarts, unless another program left a document too large to read, or
\* a journal that cannot be reconciled (recover, status, receipt-routes); a caller
\* without access is told that, which is all it is owed.
UncertaintyEnds ==
  \A o \in Ops :
    answer[o].kind = "error"
      ~> (Blocked \/ stock.form = "large"
            \/ answer[o].kind \in {"applied", "not-found", "conflict", "invalid", "denied"})

\* A document the service wrote, it can read (assertInventoryDocumentSize).
WrittenIsReadable == \A o \in Ops : answer[o].kind # "too-large"
===============================================================================
