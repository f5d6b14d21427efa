\* A proposal for two files and a save by the person, with two edits by another
\* program, three failing calls (a write, its rescue and the recovery after it), a
\* crash, and a task scope that expires or is revoked.
SPECIFICATION FairSpec
CONSTANTS
  both = both
  f1 = f1
  f2 = f2
  NoNeed = NoNeed
  NoFile = NoFile
  NoJournal = NoJournal
  Needs = {both}
  Files = {f1, f2}
  Target <- MCTarget
  MaxEdits = 2
  MaxSaves = 1
  MaxFaults = 3
  MaxCrashes = 1
INVARIANTS TypeOK EffectIsAccounted SettledTruthfully NothingOvertakesAJournal
  RecoveryAcceptsItsJournals ScopeEndStopsWrites
PROPERTIES OutsideEditsAreKept ImplementsApprovals DecisionsSettle
CHECK_DEADLOCK FALSE
