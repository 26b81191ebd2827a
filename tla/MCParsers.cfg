SPECIFICATION Spec
CONSTANTS
  Names <- MCNames
  Files <- MCFiles
  Avoided <- MCAvoided
CHECK_DEADLOCK FALSE
INVARIANTS TypeOK TellsWhatItRefuses SpellsItsTokens GroupsByPrecedence StatementsStandAlone
