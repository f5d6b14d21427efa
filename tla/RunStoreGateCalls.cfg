\* Two reads, a write and two creations of one run file, with another program that
\* opens it once.
SPECIFICATION FairSpec
CONSTANTS
  Readers = {r1, r2}
  Writers = {w1}
  Creators = {c1, c2}
  Gates = {g1, g2}
  NoGate = NoGate
  NoCall = NoCall
  Absent = Absent
  MaxAttempts = 2
  MaxForeign = 1
INVARIANTS TypeOK RenameIsAlone CallsShareOneGate LandInOrder ReportsAreTrue
PROPERTIES EveryCallReturns
CHECK_DEADLOCK FALSE
