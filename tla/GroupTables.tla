----------------------------- MODULE GroupTables -----------------------------
(***************************************************************************)
(* The MySQL tables behind registration, friends and groups: User,         *)
(* ALLGroup, GroupUser and Friend, with the statements of UserModel,       *)
(* GroupModel and FriendModel on them.  Each statement runs on a           *)
(* connection of its own in autocommit mode.  Rows are never changed or    *)
(* deleted.  The columns by and founder are history: who asked for the     *)
(* row.                                                                    *)
(*                                                                         *)
(* The schema is not in the repository.  Ids are AUTO_INCREMENT, since the *)
(* code asks for mysql_insert_id; whether User.name, (groupid, userid) and *)
(* (userid, friendid) are keys is the constant Keyed.                      *)
(***************************************************************************)
EXTENDS Naturals, Sequences, FiniteSets, Functions

CONSTANTS
  Names,       \* what people call themselves
  Terminals,   \* ChatClient processes, each with one connection
  Known,       \* the accounts there are already: a sequence of names
  Keyed,       \* TRUE: the tables refuse a second row with the same key
  MaxFaults,   \* bound: how many calls of MySQL fail
  None         \* no account, no group, no terminal

ASSUME TablesAssumption ==
  /\ Known \in Seq(Names)
  /\ Keyed \in BOOLEAN
  /\ MaxFaults \in Nat
  /\ None \notin Nat /\ None \notin Terminals

VARIABLES
  accounts,    \* User: the row at index i has id i
  groups,      \* ALLGroup, likewise
  groupUser,   \* GroupUser, in the order of insertion
  friends,     \* Friend
  faults       \* how many calls failed

tablesOnly == <<accounts, groups, groupUser, friends>>
groupTableVars == <<tablesOnly, faults>>

Accounts == [name : Names, by : Terminals \cup {None}]
Groups == [founder : Nat]
Memberships == [group : Nat, user : Nat, role : {"creator", "normal"}]
Friendships == [user : Nat, friend : Nat]

GroupTablesTypeOK ==
  /\ accounts \in Seq(Accounts)
  /\ groups \in Seq(Groups)
  /\ groupUser \in Seq(Memberships)
  /\ friends \in Seq(Friendships)
  /\ faults \in Nat

GroupTablesInit ==
  /\ accounts = [i \in DOMAIN Known |-> [name |-> Known[i], by |-> None]]
  /\ groups = <<>>
  /\ groupUser = <<>>
  /\ friends = <<>>
  /\ faults = 0

(***************************************************************************)
(* MySQL::connect and MySQL::update: what became of an insert, and what    *)
(* the caller is told.  A row with a key that is there already is refused. *)
(* A connection that fails does nothing; one that breaks after the         *)
(* statement was sent may have done it all the same.                       *)
(***************************************************************************)
Done == [done |-> TRUE, ok |-> TRUE]
NotDone == [done |-> FALSE, ok |-> FALSE]
Unknown == [done |-> TRUE, ok |-> FALSE]
Results == {Done, NotDone, Unknown}

Fail == faults < MaxFaults /\ faults' = faults + 1

Update(allowed, result) ==
  \/ /\ result = IF allowed THEN Done ELSE NotDone
     /\ UNCHANGED faults
  \/ /\ result = NotDone \/ (allowed /\ result = Unknown)
     /\ Fail

Put(table, row, result) == IF result.done THEN Append(table, row) ELSE table

\* MySQL::query: the rows, or no result set, which a caller takes for no rows.
Query(rows, nothing, vec) == (vec = rows /\ UNCHANGED faults) \/ (vec = nothing /\ Fail)

\* mysql_insert_id on the connection of the insert: the id this row got.
InsertId(table) == Len(table) + 1

\* Mutant: the newest id of the table, read by a later statement.
LastId(table) == Len(table)

-----------------------------------------------------------------------------
\* UserModel::insert
UserInsert(name, t, result) ==
  /\ Update(Keyed => \A row \in Range(accounts) : row.name # name, result)
  /\ accounts' = Put(accounts, [name |-> name, by |-> t], result)
  /\ UNCHANGED <<groups, groupUser, friends>>

\* GroupModel::createGroup
GroupInsert(u, result) ==
  /\ Update(TRUE, result)
  /\ groups' = Put(groups, [founder |-> u], result)
  /\ UNCHANGED <<accounts, groupUser, friends>>

\* GroupModel::addGroup.  Neither the group nor the user need exist.
IsMember(u, g) == \E row \in Range(groupUser) : row.user = u /\ row.group = g

MemberInsert(u, g, role, result) ==
  /\ Update(Keyed => ~IsMember(u, g), result)
  /\ groupUser' = Put(groupUser, [group |-> g, user |-> u, role |-> role], result)
  /\ UNCHANGED <<accounts, groups, friends>>

\* FriendModel::insert
FriendInsert(u, v, result) ==
  /\ Update(Keyed => [user |-> u, friend |-> v] \notin Range(friends), result)
  /\ friends' = Put(friends, [user |-> u, friend |-> v], result)
  /\ UNCHANGED <<accounts, groups, groupUser>>

-----------------------------------------------------------------------------
\* GroupModel::queryGroupUsers: the column userid, a row each, in any order.
Listings(g) ==
  LET rows == {i \in DOMAIN groupUser : groupUser[i].group = g} IN
  {[i \in 1 .. Cardinality(rows) |-> groupUser[order[i]].user] :
     order \in Bijection(1 .. Cardinality(rows), rows)}

\* The two joins of GroupModel::queryGroups, and FriendModel::query, as sets:
\* if a table has a row twice (~Keyed), the code lists its pair twice.
GroupsOf(u) == {g \in DOMAIN groups : IsMember(u, g)}
MembersOf(g) == {u \in DOMAIN accounts : IsMember(u, g)}
FriendsOf(u) == {v \in DOMAIN accounts : [user |-> u, friend |-> v] \in Range(friends)}
==============================================================================
