SPECIFICATION Spec
CONSTANTS
  s1 = s1  s2 = s2
  l1 = l1  l2 = l2
  c1 = c1  c2 = c2  c3 = c3
  u1 = u1  u2 = u2  u3 = u3
  m1 = m1  m2 = m2  g1 = g1
  None = None
  Servers = {s1}
  Loops = {l1,l2}
  Conns = {c1,c2}
  Users = {u1,u2}
  Chats = {}
  GroupChats = {}
  ServerOf <- OneServer
  LoopOf <- Placement
  HomeOf <- Shared
  AddresseeOf <- ToFirst
  Members = {u1,u2}
  DBFaults = TRUE
  Patient = FALSE
  StopKinds = {"sigint"}
  MaxStops = 1
  MaxLogins <- Once
  Passwords = {"right"}
CHECK_DEADLOCK FALSE
INVARIANTS
  IteratorsValid
  NoDeadEntry
