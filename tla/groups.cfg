SPECIFICATION FairSpec
CONSTANTS
  s1 = s1  s2 = s2
  l1 = l1  l2 = l2
  t1 = t1  t2 = t2  
  n1 = n1  n2 = n2  n3 = n3  g1 = g1
  None = None
  Names = {n1, n2, n3}
  Terminals = {t1, t2}
  Known <- OneAccount
  Keyed = TRUE
  MaxFaults = 1
  Servers = {s1, s2}
  Loops = {l1, l2}
  ServerOf <- Placement
  LoopOf <- Spread
  KnownTo <- Owners
  Msgs = {g1}
  MaxAccounts = 3
  MaxGroups = 2
  FriendIds = {1}
  NamesOf <- Chosen
  MaxCommands <- Requested
  MaxCrashes = 1
INVARIANTS TypeOK CreatorIsFounder ToldIsYours FounderIsMember MembersAreServed ListsAreWhole
PROPERTY WaitersAreAnswered
CHECK_DEADLOCK FALSE
