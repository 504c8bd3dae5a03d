-------------------------- MODULE UserSystem_proofs --------------------------
(***************************************************************************)
(* Proofs about UserSystem, for any number of users and any privileges.    *)
(***************************************************************************)
EXTENDS UserSystem, TLAPS

USE PrivilegesAssumption DEF Omitted

\* A session of privilege 10 is that of the one user who ever had it.
Inv == TypeOK /\ OneRoot

\* add_user with a privilege below that of a session adds no root.
LEMMA AddedIsNoRoot ==
  ASSUME TypeOK, NEW c \in DOMAIN online_users, NEW g \in 0 .. 10, g < online_users[c]
  PROVE  g # 10
<1>1. online_users[c] \in 0 .. 10
  BY DEF TypeOK
<1>. QED
  BY <1>1

\* Every step keeps the types.
LEMMA TypeOKNext == TypeOK /\ [Next]_vars => TypeOK'
<1>. SUFFICES ASSUME TypeOK, [Next]_vars PROVE TypeOK'
  OBVIOUS
<1>. USE DEF TypeOK
<1>1. ASSUME NEW u \in Users, AddFirstUser(u) PROVE TypeOK'
  BY <1>1 DEF AddFirstUser, Put
<1>2. ASSUME NEW u \in Users, LoginUser(u) PROVE TypeOK'
  BY <1>2 DEF LoginUser, Put
<1>3. ASSUME NEW u \in Users, LogoutUser(u) PROVE TypeOK'
  BY <1>3 DEF LogoutUser
<1>4. ASSUME NEW c \in Users, NEW u \in Users, NEW g \in Privileges, AddUser(c, u, g)
      PROVE  TypeOK'
  BY <1>4 DEF AddUser, Put
<1>5. ASSUME NEW c \in Users, NEW u \in Users, NEW g \in Privileges \cup {Omitted},
             ModifyProfile(c, u, g)
      PROVE  TypeOK'
  <2>1. CASE g = Omitted
    BY <1>5, <2>1 DEF ModifyProfile
  <2>2. CASE g \in 0 .. 10
    BY <1>5, <2>2 DEF ModifyProfile
  <2>. QED
    BY <2>1, <2>2
<1>6. CASE Restart
  BY <1>6 DEF Restart
<1>7. CASE UNCHANGED vars
  BY <1>7 DEF vars
<1>. QED
  BY <1>1, <1>2, <1>3, <1>4, <1>5, <1>6, <1>7 DEF Next

\* No step but the first makes a second root: whoever holds privilege 10 after
\* a step held it before, unless there was no account at all.
LEMMA NoNewRoot ==
  ASSUME TypeOK, TypeOK', [Next]_vars, NEW u \in Users, IsRoot(u)'
  PROVE  IsRoot(u) \/ (AddFirstUser(u) /\ DOMAIN online_users = {})
<1>. USE DEF IsRoot
<1>1. ASSUME NEW v \in Users, AddFirstUser(v)
      PROVE  AddFirstUser(u) /\ DOMAIN online_users = {}
  <2>1. DOMAIN user_data' = {v} /\ DOMAIN online_users = {} /\ UNCHANGED online_users
    BY <1>1 DEF AddFirstUser, Put, TypeOK
  <2>. QED
    BY <1>1, <2>1
<1>2. ASSUME NEW v \in Users, LoginUser(v) PROVE IsRoot(u)
  BY <1>2 DEF LoginUser, Put
<1>3. ASSUME NEW v \in Users, LogoutUser(v) PROVE IsRoot(u)
  BY <1>3 DEF LogoutUser
<1>4. ASSUME NEW c \in Users, NEW v \in Users, NEW g \in Privileges, AddUser(c, v, g)
      PROVE  IsRoot(u)
  <2>1. g # 10
    BY <1>4, AddedIsNoRoot DEF AddUser
  <2>. QED
    BY <1>4, <2>1 DEF AddUser, Put
<1>5. ASSUME NEW c \in Users, NEW v \in Users, NEW g \in Privileges \cup {Omitted},
             ModifyProfile(c, v, g)
      PROVE  IsRoot(u)
  <2>1. CASE g = Omitted
    BY <1>5, <2>1 DEF ModifyProfile
  <2>2. CASE g # Omitted
    <3>1. g # 10
      BY <1>5, <2>2, AddedIsNoRoot DEF ModifyProfile, MayModify
    <3>2. user_data' = [user_data EXCEPT ![v] = g] /\ UNCHANGED online_users
      BY <1>5, <2>2 DEF ModifyProfile
    <3>. QED
      BY <3>1, <3>2
  <2>. QED
    BY <2>1, <2>2
<1>6. ASSUME Restart PROVE IsRoot(u)
  BY <1>6 DEF Restart
<1>7. ASSUME UNCHANGED vars PROVE IsRoot(u)
  BY <1>7 DEF vars
<1>. QED
  BY <1>1, <1>2, <1>3, <1>4, <1>5, <1>6, <1>7 DEF Next

\* The invariant is inductive.
LEMMA InvNext == Inv /\ [Next]_vars => Inv'
<1>. SUFFICES ASSUME Inv, [Next]_vars PROVE Inv'
  OBVIOUS
<1>1. TypeOK /\ TypeOK'
  BY TypeOKNext DEF Inv
<1>2. ASSUME NEW u \in Users, NEW v \in Users, IsRoot(u)', IsRoot(v)'
      PROVE  u = v
  <2>1. CASE DOMAIN user_data = {}
    <3>1. DOMAIN online_users = {} /\ ~IsRoot(u) /\ ~IsRoot(v)
      BY <1>1, <2>1 DEF TypeOK, IsRoot
    <3>2. AddFirstUser(u) /\ AddFirstUser(v)
      BY <1>1, <1>2, <3>1, NoNewRoot
    <3>3. DOMAIN user_data' = {u} /\ DOMAIN user_data' = {v}
      BY <3>2, <2>1 DEF AddFirstUser, Put
    <3>. QED
      BY <3>3
  <2>2. CASE DOMAIN user_data # {}
    <3>1. IsRoot(u) /\ IsRoot(v)
      BY <1>1, <1>2, <2>2, NoNewRoot DEF AddFirstUser
    <3>. QED
      BY <3>1 DEF Inv, OneRoot
  <2>. QED
    BY <2>1, <2>2
<1>3. OneRoot'
  BY <1>2 DEF OneRoot
<1>. QED
  BY <1>1, <1>3 DEF Inv

\* Privilege 10 is never held by two users, in accounts or in sessions, and
\* every session is that of an account.
THEOREM RootInvariance == Spec => []Inv
<1>1. Init => Inv
  BY DEF Init, Inv, TypeOK, OneRoot, IsRoot
<1>. QED
  BY <1>1, InvNext, PTL DEF Spec

\* Privilege 10 is never held by two users.
THEOREM OneRootOnly == Spec => []OneRoot
<1>1. Inv => OneRoot
  BY DEF Inv
<1>. QED
  BY <1>1, RootInvariance, PTL

\* While an account has privilege 10, so has its session.
RootSession ==
  \A u \in DOMAIN user_data :
    user_data[u] = 10 /\ u \in DOMAIN online_users => online_users[u] = 10

\* No step makes a session of the root account one of a lower privilege.
LEMMA RootSessionNext == TypeOK /\ RootSession /\ [Next]_vars => RootSession'
<1>. SUFFICES ASSUME TypeOK, RootSession, [Next]_vars PROVE RootSession'
  OBVIOUS
<1>1. ASSUME NEW u \in Users, AddFirstUser(u) PROVE RootSession'
  BY <1>1 DEF AddFirstUser, Put, RootSession, TypeOK
<1>2. ASSUME NEW u \in Users, LoginUser(u) PROVE RootSession'
  BY <1>2 DEF LoginUser, Put, RootSession
<1>3. ASSUME NEW u \in Users, LogoutUser(u) PROVE RootSession'
  BY <1>3 DEF LogoutUser, RootSession
<1>4. ASSUME NEW c \in Users, NEW u \in Users, NEW g \in Privileges, AddUser(c, u, g)
      PROVE  RootSession'
  BY <1>4 DEF AddUser, Put, RootSession, TypeOK
<1>5. ASSUME NEW c \in Users, NEW u \in Users, NEW g \in Privileges \cup {Omitted},
             ModifyProfile(c, u, g)
      PROVE  RootSession'
  <2>1. CASE g = Omitted
    BY <1>5, <2>1 DEF ModifyProfile, RootSession
  <2>2. CASE g # Omitted
    <3>1. g # 10
      BY <1>5, <2>2, AddedIsNoRoot DEF ModifyProfile, MayModify
    <3>. QED
      BY <1>5, <2>2, <3>1 DEF ModifyProfile, RootSession
  <2>. QED
    BY <2>1, <2>2
<1>6. CASE Restart
  BY <1>6 DEF Restart, RootSession
<1>7. CASE UNCHANGED vars
  BY <1>7 DEF vars, RootSession
<1>. QED
  BY <1>1, <1>2, <1>3, <1>4, <1>5, <1>6, <1>7 DEF Next

\* The account of privilege 10 is only ever demoted from its own session, one
\* that still holds privilege 10.
THEOREM RootStays == Spec => RootDemotesItself
<1>. DEFINE Demotion == \A u \in DOMAIN user_data :
                          user_data[u] = 10 /\ user_data'[u] # 10 =>
                            u \in DOMAIN online_users /\ online_users[u] = 10
<1>1. Init => TypeOK /\ RootSession
  BY DEF Init, TypeOK, RootSession
<1>2. TypeOK /\ RootSession /\ [Next]_vars => Demotion
  <2>. SUFFICES ASSUME TypeOK, RootSession, [Next]_vars,
                       NEW u \in DOMAIN user_data, user_data[u] = 10, user_data'[u] # 10
                PROVE  u \in DOMAIN online_users /\ online_users[u] = 10
    OBVIOUS
  <2>1. PICK c \in Users, v \in Users, g \in Privileges \cup {Omitted} : ModifyProfile(c, v, g)
    <3>1. user_data' # user_data
      OBVIOUS
    <3>2. ASSUME NEW v, NEW g, v \notin DOMAIN user_data, user_data' = Put(user_data, v, g)
          PROVE  FALSE
      BY <3>2 DEF Put
    <3>3. ~\E v \in Users : AddFirstUser(v)
      BY <3>2 DEF AddFirstUser
    <3>4. ~\E c, v \in Users : \E g \in Privileges : AddUser(c, v, g)
      BY <3>2 DEF AddUser
    <3>. QED
      BY <3>1, <3>3, <3>4 DEF Next, vars, LoginUser, LogoutUser, Restart
  <2>2. v = u /\ MayModify(c, u)
    BY <2>1 DEF ModifyProfile
  <2>3. c = u
    <3>1. c \in DOMAIN online_users => online_users[c] \in 0 .. 10
      BY DEF TypeOK
    <3>. QED
      BY <2>2, <3>1 DEF MayModify
  <2>. QED
    BY <2>2, <2>3 DEF MayModify, RootSession
<1>. QED
  BY <1>1, <1>2, TypeOKNext, RootSessionNext, PTL DEF Spec, RootDemotesItself

\* Privileges stay between 0 and 10, and every session is that of an account.
THEOREM TypeCorrect == Spec => []TypeOK
<1>1. Inv => TypeOK
  BY DEF Inv
<1>. QED
  BY <1>1, RootInvariance, PTL

\* No account is ever given a privilege above all that accounts and sessions
\* hold at that time.
THEOREM NobodyRises == Spec => AuthorityNeverGrows
<1>. DEFINE Bounded(u) ==
       \/ \E v \in DOMAIN user_data : user_data'[u] <= user_data[v]
       \/ \E v \in DOMAIN online_users : user_data'[u] <= online_users[v]
<1>. DEFINE Step == DOMAIN user_data # {} => \A u \in DOMAIN user_data' : Bounded(u)
<1>1. TypeOK /\ [Next]_vars => Step
  <2>. SUFFICES ASSUME TypeOK, [Next]_vars, DOMAIN user_data # {}, NEW u \in DOMAIN user_data'
                PROVE  Bounded(u)
    OBVIOUS
  <2>1. ASSUME u \in DOMAIN user_data, user_data'[u] = user_data[u] PROVE Bounded(u)
    <3>1. user_data[u] \in 0 .. 10
      BY <2>1 DEF TypeOK
    <3>. QED
      BY <2>1, <3>1
  <2>2. ASSUME NEW c \in DOMAIN online_users, NEW g \in 0 .. 10, g < online_users[c], user_data'[u] = g
        PROVE  Bounded(u)
    <3>1. online_users[c] \in 0 .. 10
      BY DEF TypeOK
    <3>. QED
      BY <2>2, <3>1
  <2>3. ASSUME NEW c \in Users, NEW v \in Users, NEW g \in Privileges, AddUser(c, v, g)
        PROVE  Bounded(u)
    <3>1. CASE u = v
      <4>1. user_data'[u] = g
        BY <2>3, <3>1 DEF AddUser, Put
      <4>. QED
        BY <2>2, <2>3, <4>1 DEF AddUser
    <3>2. CASE u # v
      BY <2>1, <2>3, <3>2 DEF AddUser, Put
    <3>. QED
      BY <3>1, <3>2
  <2>4. ASSUME NEW c \in Users, NEW v \in Users, NEW g \in Privileges \cup {Omitted},
               ModifyProfile(c, v, g)
        PROVE  Bounded(u)
    <3>1. CASE u = v /\ g # Omitted
      <4>1. user_data'[u] = g
        BY <2>4, <3>1 DEF ModifyProfile, MayModify
      <4>. QED
        BY <2>2, <2>4, <3>1, <4>1 DEF ModifyProfile, MayModify
    <3>2. CASE ~(u = v /\ g # Omitted)
      <4>1. u \in DOMAIN user_data /\ user_data'[u] = user_data[u]
        BY <2>4, <3>2 DEF ModifyProfile
      <4>. QED
        BY <2>1, <4>1
    <3>. QED
      BY <3>1, <3>2
  <2>5. ASSUME UNCHANGED user_data PROVE Bounded(u)
    BY <2>1, <2>5
  <2>. QED
    BY <2>3, <2>4, <2>5 DEF Next, vars, AddFirstUser, LoginUser, LogoutUser, Restart
<1>. QED
  BY <1>1, TypeCorrect, PTL DEF Spec, AuthorityNeverGrows

=============================================================================
