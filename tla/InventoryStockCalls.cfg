\* A receipt and a transfer, two calls of execute, two failures, a crash, an edit by
\* another program and a change of access; the document has room for both receipts.
SPECIFICATION FairSpec
CONSTANTS
  receive = receive
  transfer = transfer
  shelf = shelf
  van = van
  NoOp = NoOp
  NoPlan = NoPlan
  NoJournal = NoJournal
  Ops = {receive, transfer}
  Places = {shelf, van}
  Touches <- MCTouches
  Room = 2
  Legible = 2
  MaxCalls = 2
  MaxFaults = 2
  MaxCrashes = 1
  MaxEdits = 1
  MaxChanges = 1
INVARIANTS TypeOK EvidenceIsOwed
PROPERTIES AnswersAreTrue UncertaintyEnds
