SPECIFICATION Spec
CONSTANTS
  Keys <- MCKeys
  Words <- MCWords
  Letters <- MCLetters
  Alphabet <- MCAlphabet
  Message <- MCMessage
  Parallelism = 2
  MaxMessages = 2
  MaxInbox = 1
CHECK_DEADLOCK FALSE
INVARIANT EveryRowFits
