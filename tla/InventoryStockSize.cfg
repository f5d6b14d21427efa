\* Two receipts fit the limit on the compact document, one the limit on the file as it
\* is written; nothing fails and nobody else writes.
SPECIFICATION Spec
CONSTANTS
  receive = receive
  transfer = transfer
  shelf = shelf
  van = van
  NoOp = NoOp
  NoPlan = NoPlan
  NoJournal = NoJournal
  Ops = {receive, transfer}
  Places = {shelf, van}
  Touches <- MCTouches
  Room = 2
  Legible = 1
  MaxCalls = 2
  MaxFaults = 0
  MaxCrashes = 0
  MaxEdits = 0
  MaxChanges = 0
INVARIANTS WrittenIsReadable
