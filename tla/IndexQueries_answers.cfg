SPECIFICATION Spec
CONSTANTS
  Files <- MCFiles
  Sources <- MCSources
  Edits <- MCEdits
  Names <- MCNames
  StopWords <- MCStopWords
  Expressions <- MCExpressions
  Contained <- MCContained
  EntryPoints <- MCEntryPoints
  Budgets <- MCBudgets
  Depths <- MCDepths
  DiffLines = 3
  Strays <- MCStrays
  NodeBytes = 5
  Missing = Missing
  None = None
INVARIANTS
  ReferencesExact
  DefinitionsFound
  BudgetKept
  DependentsExact
  ChangesFound
