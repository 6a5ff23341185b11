SPECIFICATION Spec
CONSTANTS
  Worlds <- MCWorlds
  Exprs <- MCExprs
  Horizon <- MCHorizon
  Texts <- MCTexts
  Readables <- MCReadables
  Whats <- MCWhats
  MaxSearches <- MCMaxSearches
  Budgets <- MCBudgets
  Steps <- MCSteps
  WindowBase = 2
  WindowExtra = 1
INVARIANTS TypeOK InsideWindow FindsFirst KeepsFound FaultIsForMissing
PROPERTY Terminates
CHECK_DEADLOCK FALSE
