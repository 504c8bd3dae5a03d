----------------------------- MODULE UserSystem -----------------------------
(***************************************************************************)
(* Accounts and sessions (user_system.cpp).  The engine keeps a privilege  *)
(* twice: with the account on disk, and in online_users, where login       *)
(* copies it.  Commands are authorised by the copy.                        *)
(*                                                                         *)
(* Names, mail addresses and passwords are left out: login is called with  *)
(* the right password, and changing one is a stuttering step.              *)
(***************************************************************************)
EXTENDS Integers

CONSTANTS
  Users,       \* user names
  Privileges   \* -g of add_user and modify_profile

ASSUME PrivilegesAssumption == Privileges \subseteq 0 .. 10

VARIABLES
  user_data,     \* user name -> privilege, on disk
  online_users   \* user name -> privilege at login, in memory

vars == <<user_data, online_users>>

\* What modify_profile takes -g for when the argument is left out.
Omitted == 11

Put(f, k, v) == [x \in DOMAIN f \cup {k} |-> IF x = k THEN v ELSE f[x]]

Init ==
  /\ user_data = [u \in {} |-> 0]
  /\ online_users = [u \in {} |-> 0]

\* The first account ever: -c and -g are ignored.
AddFirstUser(u) ==
  /\ DOMAIN user_data = {}
  /\ user_data' = Put(user_data, u, 10)
  /\ UNCHANGED online_users

\* A bug: a session may create its equal.
AddUserEqual(c, u, g) ==
  /\ DOMAIN user_data # {}
  /\ c \in DOMAIN online_users
  /\ g <= online_users[c]
  /\ u \notin DOMAIN user_data
  /\ user_data' = Put(user_data, u, g)
  /\ UNCHANGED online_users

AddUser(c, u, g) ==
  /\ DOMAIN user_data # {}
  /\ c \in DOMAIN online_users
  /\ g < online_users[c]
  /\ u \notin DOMAIN user_data
  /\ user_data' = Put(user_data, u, g)
  /\ UNCHANGED online_users

LoginUser(u) ==
  /\ u \notin DOMAIN online_users
  /\ u \in DOMAIN user_data
  /\ online_users' = Put(online_users, u, user_data[u])
  /\ UNCHANGED user_data

LogoutUser(u) ==
  /\ u \in DOMAIN online_users
  /\ online_users' = [x \in DOMAIN online_users \ {u} |-> online_users[x]]
  /\ UNCHANGED user_data

\* c may touch itself and the accounts that rank below its session.
MayModify(c, u) ==
  /\ c \in DOMAIN online_users
  /\ u \in DOMAIN user_data
  /\ c # u => online_users[c] > user_data[u]

\* A bug: the default of -g is stored.
ModifyStoresDefault(c, u, g) ==
  /\ MayModify(c, u)
  /\ g # Omitted => g < online_users[c]
  /\ user_data' = [user_data EXCEPT ![u] = g]
  /\ UNCHANGED online_users

\* A bug: -g is not compared with the session's privilege.
ModifyAnyGrade(c, u, g) ==
  /\ MayModify(c, u)
  /\ user_data' = IF g = Omitted THEN user_data ELSE [user_data EXCEPT ![u] = g]
  /\ UNCHANGED online_users

\* A bug: the rank of the account is not looked at.
ModifyAnyone(c, u, g) ==
  /\ c \in DOMAIN online_users
  /\ u \in DOMAIN user_data
  /\ g # Omitted => g < online_users[c]
  /\ user_data' = IF g = Omitted THEN user_data ELSE [user_data EXCEPT ![u] = g]
  /\ UNCHANGED online_users

\* The account is written, the copy in online_users is not.
ModifyProfile(c, u, g) ==
  /\ MayModify(c, u)
  /\ g # Omitted => g < online_users[c]
  /\ user_data' = IF g = Omitted THEN user_data ELSE [user_data EXCEPT ![u] = g]
  /\ UNCHANGED online_users

\* exit and a new process on the same files.
Restart ==
  /\ online_users' = [u \in {} |-> 0]
  /\ UNCHANGED user_data

Next ==
  \/ \E u \in Users : AddFirstUser(u) \/ LoginUser(u) \/ LogoutUser(u)
  \/ \E c, u \in Users : \E g \in Privileges : AddUser(c, u, g)
  \/ \E c, u \in Users : \E g \in Privileges \cup {Omitted} : ModifyProfile(c, u, g)
  \/ Restart

Spec == Init /\ [][Next]_vars

-----------------------------------------------------------------------------
(* Properties *)

\* Privileges stay between 0 and 10, and every session is that of an account.
TypeOK ==
  /\ DOMAIN user_data \subseteq Users
  /\ user_data \in [DOMAIN user_data -> 0 .. 10]
  /\ DOMAIN online_users \subseteq DOMAIN user_data
  /\ online_users \in [DOMAIN online_users -> 0 .. 10]

\* u holds the highest privilege, in its account or in its session.
IsRoot(u) ==
  \/ u \in DOMAIN user_data /\ user_data[u] = 10
  \/ u \in DOMAIN online_users /\ online_users[u] = 10

\* However accounts are added, changed and logged in and out, and however old
\* the privileges of the sessions are: privilege 10 is never held by two users.
OneRoot == \A u, v \in Users : IsRoot(u) /\ IsRoot(v) => u = v

\* No account is ever given a privilege above all that accounts and sessions
\* hold at that time: once everybody has been demoted and logged out, nobody
\* gets back up.
AuthorityNeverGrows ==
  [][DOMAIN user_data # {} =>
       \A u \in DOMAIN user_data' :
         \/ \E v \in DOMAIN user_data : user_data'[u] <= user_data[v]
         \/ \E v \in DOMAIN online_users : user_data'[u] <= online_users[v]]_vars

\* The account of privilege 10 is only ever demoted from its own session, one
\* that still holds privilege 10.
RootDemotesItself ==
  [][\A u \in DOMAIN user_data :
       user_data[u] = 10 /\ user_data'[u] # 10 =>
         u \in DOMAIN online_users /\ online_users[u] = 10]_vars
=============================================================================
