SPECIFICATION Spec
CONSTANTS
  Keys <- MCKeys
  Words <- MCWords
  Letters <- MCLetters
  Alphabet <- MCAlphabet
  Message <- MCMessage
  Parallelism = 2
  MaxMessages = 3
  MaxInbox = 1
CHECK_DEADLOCK FALSE
INVARIANTS
  TypeOK
  StableReference
  RowsAccounted
  UniformRowsFit
  SameFieldsSameRows
