SPECIFICATION FairSpec
CONSTANTS
  Users = {u1, u2}
  Commands = {"ONE_CHAT_MSG"}
  Split = TRUE
  MaxRequests = 5
  MaxLetters = 2
  None = None
INVARIANTS TypeOK OnePostPerWait ReaderIsExpected NothingSkipped
PROPERTIES ImplementsTerminal WaitsEnd
CHECK_DEADLOCK FALSE
