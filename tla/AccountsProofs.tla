--------------------------- MODULE AccountsProofs ---------------------------
(* For every set of requests and calls: an administrator remains, password  *)
(* work is bounded, no session outlives its password, and lockouts are met. *)
(* Each proof first says of a step how it changes the few variables that    *)
(* matter: the rows of the users (Stores), the permits (PermitsMove), the   *)
(* table of failures (EntriesMove), and what a session was shown (Unshown). *)
EXTENDS Accounts, FiniteSetTheorems, WellFoundedInduction, TLAPS

CallsOK ==
    /\ step \in [Requests -> Steps] /\ call \in [Requests -> Call \cup {NoCall}]
    /\ \A r \in Requests : step[r] \notin {"idle", "done"} => call[r] \in Call

UsersOK ==
    /\ lastId \in 0..MaxIds /\ DOMAIN users \subseteq 1..lastId
    /\ \A u \in DOMAIN users : users[u] \in User

IInv == CallsOK /\ UsersOK

(* How a step changes the call of r, and the users. *)
Moves(r) ==
    \/ step' = [step EXCEPT ![r] = "done"] /\ call' = [call EXCEPT ![r] = NoCall]
    \/ /\ step[r] \notin {"idle", "done"} /\ call' = call
       /\ \E to \in Steps : step' = [step EXCEPT ![r] = to]
    \/ \E to \in Steps, c \in Call :
          step' = [step EXCEPT ![r] = to] /\ call' = [call EXCEPT ![r] = c]

Stores ==
    \/ UNCHANGED <<users, lastId>>
    \/ \E n \in Names, h \in Hash, role \in Roles : Insert(n, h, role)
    \/ \E u \in Ids \cup {0}, role \in Roles : SetRole(u, role)
    \/ \E u \in Ids \cup {0}, h \in Hash : UpdatePassword(u, h)
    \/ \E u \in Ids \cup {0} : DeleteRow(u)

-----------------------------------------------------------------------------
LEMMA MovesKeep == ASSUME CallsOK, NEW r \in Requests, Moves(r) PROVE CallsOK'
<1> USE DEF CallsOK
<1>1. CASE step' = [step EXCEPT ![r] = "done"] /\ call' = [call EXCEPT ![r] = NoCall]
  BY <1>1 DEF Steps
<1>2. CASE /\ step[r] \notin {"idle", "done"} /\ call' = call
           /\ \E to \in Steps : step' = [step EXCEPT ![r] = to]
  BY <1>2
<1>3. CASE \E to \in Steps, c \in Call :
              step' = [step EXCEPT ![r] = to] /\ call' = [call EXCEPT ![r] = c]
  BY <1>3
<1> QED
  BY <1>1, <1>2, <1>3 DEF Moves

LEMMA CliTargets == ASSUME CallsOK, UsersOK, NEW r \in Requests, step[r] = "find",
                           NEW u \in DOMAIN users
                    PROVE [call[r] EXCEPT !.id = u] \in Call
<1>1. call[r] \in Call
  BY DEF CallsOK
<1>2. u \in Ids
  BY AccountsAssumption DEF UsersOK, Ids
<1> QED
  BY <1>1, <1>2 DEF Call

(* An answered request, one that goes on, one that arrives. *)
LEMMA GoesOn == ASSUME NEW r \in Requests, NEW to \in Steps, step[r] \notin {"idle", "done"},
                       step' = [step EXCEPT ![r] = to], UNCHANGED call
                PROVE Moves(r)
  BY DEF Moves

LEMMA RequestMoves == ASSUME CallsOK, UsersOK, NEW r \in Requests, RequestStep(r) PROVE Moves(r)
<1> USE DEF Steps, Waiting, Working, Blocking, Go, Keep, Finish
<1>1. CASE \E c \in Calls, h \in Requests, to \in {"setup", "find", "lookup"} : Arrive(r, c, h) /\ Go(r, "idle", to)
  BY <1>1, AccountsAssumption DEF Arrive, Moves
<1>2. CASE Finish(r)
  BY <1>2 DEF Moves
<1>3. CASE Open(r) \/ RunCommand(r) \/ Present(r)
  <2> USE <1>1
  <2>1. CASE Open(r)
    BY <2>1 DEF Open
  <2>2. CASE RunCommand(r)
    BY <2>2 DEF RunCommand
  <2>3. CASE Present(r)
    BY <2>3 DEF Present
  <2> QED
    BY <1>3, <2>1, <2>2, <2>3
<1>4. CASE \/ Unauthorized(r) \/ TurnAway(r) \/ WaitTimesOut(r) \/ Drop(r) \/ RecordRefusal(r) \/ Forbid(r)
           \/ Login(r) \/ Logout(r) \/ ChangeRole(r) \/ DeleteUser(r) \/ CreateToken(r) \/ RevokeToken(r)
           \/ RefuseSetup(r) \/ StorePassword(r) \/ CreateUser(r) \/ CreateInitialAdmin(r)
           \/ CliCreate(r) \/ CliPromote(r)
  <2>1. Finish(r)
    BY <1>4 DEF Unauthorized, TurnAway, WaitTimesOut, Drop, RecordRefusal, Forbid, Login, Logout, ChangeRole,
                DeleteUser, CreateToken, RevokeToken, RefuseSetup, StorePassword, CreateUser,
                CreateInitialAdmin, CliCreate, CliPromote
  <2> QED
    BY <2>1, <1>2
<1>5. CASE WorkEnds(r) \/ StartVerifying(r) \/ TurnAwayWaiting(r) \/ StartHashing(r)
  BY <1>5, GoesOn DEF WorkEnds, StartVerifying, TurnAwayWaiting, StartHashing
<1>6. CASE FindUser(r) \/ Judge(r) \/ FindHolder(r) \/ ResolveTokenUser(r)
  BY <1>6, <1>2, GoesOn DEF FindUser, Admit, Busy, FailAuthentication, Judge, FindHolder, ResolveTokenUser, Acts
<1>7. CASE BeginHash(r)
  BY <1>7, <1>2, GoesOn DEF BeginHash, Admit, Busy, Acts
<1>8. CASE CliFind(r)
  <2>1. CASE \E u \in Named(call[r].about) :
               Go(r, "find", "write") /\ call' = [call EXCEPT ![r].id = u]
    <3>1. PICK u \in DOMAIN users : call' = [call EXCEPT ![r] = [call[r] EXCEPT !.id = u]]
      BY <2>1 DEF Named
    <3>2. [call[r] EXCEPT !.id = u] \in Call
      BY <2>1, CliTargets
    <3> QED
      BY <2>1, <3>1, <3>2 DEF Moves
  <2> QED
    BY <1>8, <2>1, <1>2 DEF CliFind
<1>9. CASE CliWrite(r)
  BY <1>9, <1>2, GoesOn DEF CliWrite
<1> QED
  BY <1>3, <1>4, <1>5, <1>6, <1>7, <1>8, <1>9 DEF RequestStep

LEMMA RequestStores == ASSUME CallsOK, UsersOK, NEW r \in Requests, RequestStep(r) PROVE Stores
<1>1. step[r] \notin {"idle", "done"} =>
        /\ call[r].role \in Roles /\ call[r].id \in Ids \cup {0}
        /\ call[r].about \in Names /\ Hashed(r) \in Hash
  BY DEF CallsOK, Call, Hashed, Hash
<1>2. CASE \/ Open(r) \/ RunCommand(r) \/ Unauthorized(r) \/ Present(r) \/ TurnAway(r)
           \/ WaitTimesOut(r) \/ WorkEnds(r) \/ Drop(r)
           \/ FindUser(r) \/ StartVerifying(r) \/ TurnAwayWaiting(r) \/ RecordRefusal(r) \/ Judge(r) \/ FindHolder(r)
           \/ Forbid(r) \/ Login(r) \/ Logout(r) \/ ResolveTokenUser(r) \/ CreateToken(r) \/ RevokeToken(r)
           \/ BeginHash(r) \/ RefuseSetup(r) \/ StartHashing(r) \/ CliFind(r)
  BY <1>2 DEF Open, RunCommand, Unauthorized, Present, TurnAway, WaitTimesOut, WorkEnds, Drop, FindUser,
              StartVerifying, TurnAwayWaiting, RecordRefusal, Judge, FindHolder, Forbid, Login, Logout, ResolveTokenUser,
              CreateToken, RevokeToken, BeginHash, RefuseSetup, StartHashing, CliFind, rows, Stores
<1>3. CASE ChangeRole(r) \/ CliPromote(r)
  BY <1>1, <1>3 DEF ChangeRole, CliPromote, Acts, Stores, Roles
<1>4. CASE DeleteUser(r)
  BY <1>1, <1>4 DEF DeleteUser, Acts, Stores
<1>5. CASE StorePassword(r)
  BY <1>1, <1>5 DEF StorePassword, Stores
<1>6. CASE CreateUser(r) \/ CreateInitialAdmin(r) \/ CliCreate(r)
  BY <1>1, <1>6 DEF CreateUser, CreateInitialAdmin, CliCreate, Stores, Roles
<1>7. CASE CliWrite(r)
  BY <1>1, <1>7 DEF CliWrite, Stores
<1> QED
  BY <1>2, <1>3, <1>4, <1>5, <1>6, <1>7 DEF RequestStep

-----------------------------------------------------------------------------
(* The statements keep the rows well formed, and an administrator.          *)
LEMMA StoresKeep == ASSUME UsersOK, Stores PROVE UsersOK' /\ (HasAdmin => HasAdmin')
<1> USE DEF UsersOK, HasAdmin, Admins
<1>1. CASE UNCHANGED <<users, lastId>>
  BY <1>1
<1>2. ASSUME NEW n \in Names, NEW h \in Hash, NEW role \in Roles, Insert(n, h, role)
      PROVE UsersOK' /\ (HasAdmin => HasAdmin')
  <2>1. CASE UNCHANGED <<users, lastId>>
    BY <2>1
  <2>2. CASE /\ lastId < MaxIds /\ lastId' = lastId + 1
             /\ users' = [u \in DOMAIN users \cup {lastId + 1} |->
                           IF u = lastId + 1 THEN [name |-> n, hash |-> h, role |-> role] ELSE users[u]]
    <3>1. [name |-> n, hash |-> h, role |-> role] \in User
      BY DEF User
    <3>2. UsersOK'
      BY <2>2, <3>1, AccountsAssumption
    <3>3. \A v \in DOMAIN users : v # lastId + 1
      BY AccountsAssumption
    <3>4. \A v \in DOMAIN users : v \in DOMAIN users' /\ users'[v] = users[v]
      BY <2>2, <3>3
    <3> QED
      BY <3>2, <3>4
  <2> QED
    BY <1>2, <2>1, <2>2 DEF Insert
<1>3. ASSUME NEW u \in Ids \cup {0}, NEW role \in Roles, SetRole(u, role)
      PROVE UsersOK' /\ (HasAdmin => HasAdmin')
  <2>1. CASE u \in DOMAIN users /\ (role = "admin" \/ MayLose(u)) /\ users' = [users EXCEPT ![u].role = role]
    <3>1. users[u] \in User /\ [users[u] EXCEPT !.role = role] \in User
      BY <2>1 DEF User
    <3>2. /\ DOMAIN users' = DOMAIN users /\ users'[u] \in User /\ users'[u].role = role
          /\ \A v \in DOMAIN users : v # u => users'[v] = users[v]
      BY <2>1, <3>1 DEF User
    <3>3. UsersOK'
      BY <1>3, <3>2 DEF SetRole
    <3>4. HasAdmin => HasAdmin'
      BY <2>1, <3>2 DEF MayLose
    <3> QED
      BY <3>3, <3>4
  <2>2. CASE users' = users
    BY <1>3, <2>2 DEF SetRole
  <2> QED
    BY <1>3, <2>1, <2>2 DEF SetRole
<1>4. ASSUME NEW u \in Ids \cup {0}, NEW h \in Hash, UpdatePassword(u, h)
      PROVE UsersOK' /\ (HasAdmin => HasAdmin')
  <2>1. CASE u \in DOMAIN users /\ users' = [users EXCEPT ![u].hash = h]
    <3>1. users[u] \in User /\ [users[u] EXCEPT !.hash = h] \in User
      BY <2>1 DEF User
    <3>2. /\ DOMAIN users' = DOMAIN users /\ users'[u] \in User /\ users'[u].role = users[u].role
          /\ \A v \in DOMAIN users : v # u => users'[v] = users[v]
      BY <2>1, <3>1 DEF User
    <3> QED
      BY <1>4, <3>2 DEF UpdatePassword
  <2> QED
    BY <1>4, <2>1 DEF UpdatePassword
<1>5. ASSUME NEW u \in Ids \cup {0}, DeleteRow(u)
      PROVE UsersOK' /\ (HasAdmin => HasAdmin')
  <2>1. CASE u \in DOMAIN users /\ MayLose(u) /\ users' = Without(users, u) /\ lastId' = lastId
    <3>1. DOMAIN users' = DOMAIN users \ {u} /\ \A v \in DOMAIN users' : users'[v] = users[v]
      BY <2>1 DEF Without, Restrict
    <3> QED
      BY <2>1, <3>1 DEF MayLose
  <2> QED
    BY <1>5, <2>1 DEF DeleteRow, rows
<1> QED
  BY <1>1, <1>2, <1>3, <1>4, <1>5 DEF Stores

LEMMA InitOK == Init => IInv
<1> SUFFICES ASSUME Init PROVE IInv
  OBVIOUS
<1>1. CallsOK
  BY DEF Init, CallsOK, Steps
<1>2. PICK n \in 0..MaxIds : DOMAIN users = 1..n
  BY AccountsAssumption DEF Init
<1>3. lastId = n
  BY <1>2, FS_Interval, AccountsAssumption DEF Init
<1>4. UsersOK
  BY <1>2, <1>3, AccountsAssumption DEF Init, UsersOK
<1> QED
  BY <1>1, <1>4 DEF IInv

LEMMA NextKeeps == ASSUME IInv, [Next]_vars PROVE IInv' /\ (HasAdmin => HasAdmin')
<1> USE DEF IInv
<1>1. CASE \E r \in Requests : RequestStep(r)
  BY <1>1, RequestMoves, RequestStores, MovesKeep, StoresKeep
<1>2. CASE OrphanEnds \/ Expire \/ Tick \/ UNCHANGED vars
  BY <1>2 DEF OrphanEnds, Expire, Tick, vars, rows, CallsOK, UsersOK, HasAdmin, Admins
<1>3. CASE Restart
  <2>1. UNCHANGED <<users, lastId>>
    BY <1>3 DEF Restart, rows
  <2>2. UsersOK' /\ (HasAdmin => HasAdmin')
    BY <2>1 DEF UsersOK, HasAdmin, Admins
  <2>3. CallsOK'
    BY <1>3 DEF Restart, CallsOK, Steps
  <2> QED
    BY <2>2, <2>3
<1> QED
  BY <1>1, <1>2, <1>3 DEF Next

(* A database that has an administrator keeps one, and no setup succeeds on *)
(* it: users.rs, the guarded UPDATE, DELETE and INSERT.                     *)
THEOREM AnAdministratorRemains == Spec => AdministratorsRemain
<1>1. ASSUME IInv, [Next]_vars
      PROVE [HasAdmin => /\ HasAdmin'
                         /\ \A r \in Requests : CreateInitialAdmin(r) => users' = users]_vars
  <2>1. HasAdmin => HasAdmin'
    BY <1>1, NextKeeps
  <2>2. HasAdmin => \A r \in Requests : CreateInitialAdmin(r) => users' = users
    BY DEF CreateInitialAdmin, NoAdminYet
  <2> QED
    BY <2>1, <2>2
<1>2. IInv /\ [Next]_vars => IInv'
  BY NextKeeps
<1> QED
  BY InitOK, <1>1, <1>2, PTL DEF Spec, AdministratorsRemain

-----------------------------------------------------------------------------
(* Password work.  A step of a request changes the permits together with    *)
(* where that request is.                                                   *)
Queued == Waiting \cup Working
Those(S) == {q \in Requests : step[q] \in S}

AtWork == Cardinality(Those(Working))
InQueue == Cardinality(Those(Waiting))

PermitsOK ==
    /\ admitted \in Nat /\ working \in Nat /\ orphans \in Nat
    /\ working = AtWork + orphans /\ working <= Workers
    /\ admitted = working + InQueue /\ admitted <= Workers + QueueDepth

(* It is elsewhere, enters the queue, leaves it, begins to work, ends its   *)
(* work, or is dropped at work.                                             *)
PermitsMoveTo(r, to) ==
    /\ step' = [step EXCEPT ![r] = to]
    /\ \/ step[r] \notin Queued /\ to \notin Queued /\ UNCHANGED permits
       \/ /\ step[r] \notin Queued /\ to \in Waiting /\ admitted < Workers + QueueDepth
          /\ admitted' = admitted + 1 /\ UNCHANGED <<working, orphans>>
       \/ /\ step[r] \in Waiting /\ to \notin Queued
          /\ admitted' = admitted - 1 /\ UNCHANGED <<working, orphans>>
       \/ /\ step[r] \in Waiting /\ to \in Working /\ working < Workers
          /\ working' = working + 1 /\ UNCHANGED <<admitted, orphans>>
       \/ /\ step[r] \in Working /\ to \notin Queued
          /\ admitted' = admitted - 1 /\ working' = working - 1 /\ UNCHANGED orphans
       \/ /\ step[r] \in Working /\ to \notin Queued
          /\ orphans' = orphans + 1 /\ UNCHANGED <<admitted, working>>

PermitsMove(r) == \E to \in Steps : PermitsMoveTo(r, to)

LEMMA RequestPermits == ASSUME CallsOK, NEW r \in Requests, RequestStep(r) PROVE PermitsMove(r)
<1> USE DEF Steps, Waiting, Working, Blocking, Queued, Go, Finish
<1>1. ASSUME step[r] \notin Queued, NEW to \in Steps \ Queued, step' = [step EXCEPT ![r] = to], UNCHANGED permits
      PROVE  PermitsMove(r)
  BY <1>1 DEF PermitsMove, PermitsMoveTo
<1>2. ASSUME step[r] \notin Queued, NEW to \in Waiting, Admit(r, to)
      PROVE  PermitsMove(r)
  BY <1>2 DEF PermitsMove, PermitsMoveTo, Admit
<1>3. ASSUME step[r] \in Waiting, Leave, Finish(r)
      PROVE  PermitsMove(r)
  BY <1>3 DEF PermitsMove, PermitsMoveTo, Leave
<1>4. CASE \/ Open(r) \/ RunCommand(r) \/ Unauthorized(r) \/ Present(r) \/ TurnAway(r)
  BY <1>1, <1>4 DEF Open, RunCommand, Unauthorized, Present, TurnAway
<1>5. CASE \/ Judge(r) \/ FindHolder(r) \/ Forbid(r) \/ Login(r) \/ Logout(r) \/ ChangeRole(r) \/ DeleteUser(r)
           \/ ResolveTokenUser(r) \/ CreateToken(r) \/ RevokeToken(r) \/ RefuseSetup(r)
           \/ StorePassword(r) \/ CreateUser(r) \/ CreateInitialAdmin(r)
  BY <1>1, <1>5 DEF Judge, FailAuthentication, FindHolder, Forbid, Login, Logout, ChangeRole, DeleteUser,
                    ResolveTokenUser, CreateToken, RevokeToken, RefuseSetup, StorePassword, CreateUser,
                    CreateInitialAdmin, Acts
<1>6. CASE CliCreate(r) \/ CliFind(r) \/ CliWrite(r) \/ CliPromote(r)
  BY <1>1, <1>6 DEF CliCreate, CliFind, CliWrite, CliPromote
<1>7. CASE FindUser(r) \/ BeginHash(r)
  BY <1>1, <1>2, <1>7 DEF FindUser, BeginHash, FailAuthentication, Busy, Acts
<1>12. ASSUME step[r] = "turned", ReturnBoth, Finish(r)
       PROVE  PermitsMove(r)
  BY <1>12 DEF PermitsMove, PermitsMoveTo, ReturnBoth
<1>8. CASE WaitTimesOut(r) \/ RecordRefusal(r)
  BY <1>3, <1>8, <1>12 DEF WaitTimesOut, RecordRefusal
<1>9. CASE StartVerifying(r) \/ TurnAwayWaiting(r) \/ StartHashing(r)
  <2>1. PICK to \in Working : step' = [step EXCEPT ![r] = to] /\ TakeWorker /\ step[r] \in Waiting
    BY <1>9 DEF StartVerifying, TurnAwayWaiting, StartHashing
  <2> QED
    BY <2>1 DEF TakeWorker, PermitsMove, PermitsMoveTo
<1>10. CASE WorkEnds(r)
  <2> DEFINE to == IF step[r] = "verify" THEN "verified" ELSE "hashed"
  <2>1. to \in Steps \ Queued /\ PermitsMoveTo(r, to)
    BY <1>10 DEF WorkEnds, ReturnBoth, PermitsMoveTo
  <2> QED
    BY <2>1 DEF PermitsMove
<1>11. CASE Drop(r)
  <2>1. CASE DropWorking(r) /\ Finish(r)
    <3>1. PermitsMoveTo(r, "done")
      BY <2>1 DEF DropWorking, PermitsMoveTo
    <3> QED
      BY <3>1 DEF PermitsMove
  <2> QED
    BY <1>1, <1>3, <1>11, <1>12, <2>1 DEF Drop
<1> QED
  BY <1>4, <1>5, <1>6, <1>7, <1>8, <1>9, <1>10, <1>11 DEF RequestStep

(* How many are at some steps, after one of them moved. *)
LEMMA CountMoves == ASSUME CallsOK, NEW r \in Requests, NEW to, step' = [step EXCEPT ![r] = to], NEW S
                    PROVE  /\ Cardinality(Those(S)) \in Nat /\ Cardinality(Those(S)') \in Nat
                           /\ Cardinality(Those(S)') =
                                Cardinality(Those(S)) + (IF to \in S THEN 1 ELSE 0) - (IF step[r] \in S THEN 1 ELSE 0)
<1> DEFINE others == Those(S) \ {r}
<1>1. IsFiniteSet(Those(S))
  BY FS_Subset, AccountsAssumption DEF Those
<1>2. IsFiniteSet(others) /\ Cardinality(others) \in Nat
  BY <1>1, FS_RemoveElement, FS_CardinalityType, Zenon
<1>3. Those(S) = (IF step[r] \in S THEN others \cup {r} ELSE others)
  BY DEF Those
<1>4. Those(S)' = (IF to \in S THEN others \cup {r} ELSE others)
  BY DEF Those, CallsOK
<1>5. r \notin others
  OBVIOUS
<1> HIDE DEF others
<1>8. Cardinality(others \cup {r}) = Cardinality(others) + 1
  BY <1>2, <1>5, FS_AddElement
<1>6. Cardinality(Those(S)) = Cardinality(others) + (IF step[r] \in S THEN 1 ELSE 0)
  BY <1>2, <1>3, <1>8
<1>7. Cardinality(Those(S)') = Cardinality(others) + (IF to \in S THEN 1 ELSE 0)
  BY <1>2, <1>4, <1>8
<1> QED
  BY <1>2, <1>6, <1>7

LEMMA PermitsKeep == ASSUME CallsOK, PermitsOK, NEW r \in Requests, PermitsMove(r) PROVE PermitsOK'
<1>1. PICK to \in Steps : PermitsMoveTo(r, to)
  BY DEF PermitsMove
<1>2. /\ AtWork \in Nat /\ InQueue \in Nat /\ AtWork' \in Nat /\ InQueue' \in Nat
      /\ AtWork' = AtWork + (IF to \in Working THEN 1 ELSE 0) - (IF step[r] \in Working THEN 1 ELSE 0)
      /\ InQueue' = InQueue + (IF to \in Waiting THEN 1 ELSE 0) - (IF step[r] \in Waiting THEN 1 ELSE 0)
  BY <1>1, CountMoves DEF PermitsMoveTo, AtWork, InQueue
<1>3. Waiting \cap Working = {}
  BY DEF Waiting, Working, Blocking
<1> USE AccountsAssumption DEF Queued, permits, PermitsMoveTo, PermitsOK
<1>4. CASE step[r] \notin Queued
  <2>1. AtWork' = AtWork + (IF to \in Working THEN 1 ELSE 0) /\ InQueue' = InQueue + (IF to \in Waiting THEN 1 ELSE 0)
    BY <1>2, <1>4
  <2> QED
    BY <1>1, <1>2, <1>3, <1>4, <2>1
<1>5. CASE step[r] \in Waiting
  <2>1. AtWork' = AtWork + (IF to \in Working THEN 1 ELSE 0) /\ InQueue' = InQueue + (IF to \in Waiting THEN 1 ELSE 0) - 1
    BY <1>2, <1>3, <1>5
  <2> QED
    BY <1>1, <1>2, <1>3, <1>5, <2>1
<1>6. CASE step[r] \in Working
  <2>1. AtWork' = AtWork - 1 /\ InQueue' = InQueue
    BY <1>1, <1>2, <1>3, <1>6
  <2>2. \/ admitted' = admitted - 1 /\ working' = working - 1 /\ UNCHANGED orphans
        \/ orphans' = orphans + 1 /\ UNCHANGED <<admitted, working>>
    BY <1>1, <1>3, <1>6
  <2> QED
    BY <1>2, <2>1, <2>2
<1> QED
  BY <1>4, <1>5, <1>6

LEMMA NextKeepsPermits == ASSUME CallsOK, PermitsOK, [Next]_vars PROVE PermitsOK'
<1>1. CASE \E r \in Requests : RequestStep(r)
  BY <1>1, RequestPermits, PermitsKeep
<1>2. CASE OrphanEnds
  <2>1. AtWork' = AtWork /\ InQueue' = InQueue
    BY <1>2 DEF OrphanEnds, AtWork, InQueue, Those
  <2>2. AtWork \in Nat /\ InQueue \in Nat
    BY FS_Subset, FS_CardinalityType, AccountsAssumption DEF AtWork, InQueue, Those
  <2> QED
    BY <1>2, <2>1, <2>2, AccountsAssumption DEF OrphanEnds, PermitsOK
<1>3. CASE Expire \/ Tick \/ UNCHANGED vars
  BY <1>3 DEF Expire, Tick, vars, permits, PermitsOK, AtWork, InQueue, Those
<1>4. CASE Restart
  <2>1. Those(Waiting)' = {} /\ Those(Working)' = {}
    BY <1>4 DEF Restart, Those, Waiting, Working, Blocking
  <2>2. AtWork' = 0 /\ InQueue' = 0
    BY <2>1, FS_EmptySet DEF AtWork, InQueue
  <2> QED
    BY <1>4, <2>2, AccountsAssumption DEF Restart, PermitsOK
<1> QED
  BY <1>1, <1>2, <1>3, <1>4 DEF Next

LEMMA InitPermits == Init => PermitsOK
<1> SUFFICES ASSUME Init PROVE PermitsOK
  OBVIOUS
<1>1. Those(Waiting) = {} /\ Those(Working) = {}
  BY DEF Init, Those, Waiting, Working, Blocking
<1>2. AtWork = 0 /\ InQueue = 0
  BY <1>1, FS_EmptySet DEF AtWork, InQueue
<1> QED
  BY <1>2, AccountsAssumption DEF Init, PermitsOK

(* Whatever number of requests meet, wait, time out, are dropped at any     *)
(* await or lost with the server: password.rs, the two semaphores whose     *)
(* permits move into the blocking closure.                                  *)
THEOREM PasswordWorkIsBounded == Spec => []WorkIsBounded
<1>1. IInv /\ PermitsOK /\ [Next]_vars => IInv' /\ PermitsOK'
  BY NextKeeps, NextKeepsPermits DEF IInv
<1>2. PermitsOK => WorkIsBounded
  BY DEF PermitsOK, WorkIsBounded, AtWork, InQueue, Those
<1> QED
  BY InitOK, InitPermits, <1>1, <1>2, PTL DEF Spec

-----------------------------------------------------------------------------
(* Sessions.  What a session was shown is the password of the hash it is    *)
(* bound to, because the one that logs in has verified that very hash.      *)
ShownOK ==
    /\ DOMAIN actor = Requests
    /\ \A s \in sessions : s.shown = s.hash.pw
    /\ \A r \in Requests : step[r] = "act" /\ actor[r].verified => call[r].pw = actor[r].hash.pw

(* A step of r that neither stores a session nor begins to act. *)
Unshown(r) ==
    /\ sessions' \subseteq sessions
    /\ \E to \in Steps \ {"act"} : step' = [step EXCEPT ![r] = to]
    /\ DOMAIN actor' = Requests
    /\ \A q \in Requests \ {r} : actor'[q] = actor[q] /\ call'[q] = call[q]

LEMMA UnshownKeeps == ASSUME CallsOK, ShownOK, NEW r \in Requests, Unshown(r) PROVE ShownOK'
  BY DEF Unshown, ShownOK, CallsOK

LEMMA RequestShown == ASSUME CallsOK, ShownOK, NEW r \in Requests, RequestStep(r) PROVE ShownOK'
<1> USE DEF Steps, Waiting, Working, Blocking, Go, Keep
<1>1. ASSUME NEW to \in Steps \ {"act"}, step' = [step EXCEPT ![r] = to], sessions' \subseteq sessions,
             \/ Keep(r)
             \/ UNCHANGED actor /\ \E c : call' = [call EXCEPT ![r] = c]
             \/ UNCHANGED call /\ \E a : actor' = [actor EXCEPT ![r] = a]
      PROVE  ShownOK'
  <2>1. Unshown(r)
    BY <1>1 DEF Unshown, ShownOK, CallsOK
  <2> QED
    BY <2>1, UnshownKeeps
<1>2. ASSUME Finish(r), sessions' \subseteq sessions
      PROVE  ShownOK'
  <2>1. Unshown(r)
    BY <1>2 DEF Finish, Unshown, ShownOK, CallsOK
  <2> QED
    BY <2>1, UnshownKeeps
<1>3. CASE Open(r) \/ RunCommand(r) \/ Present(r)
  <2>1. PICK to \in {"setup", "find", "lookup"} : step' = [step EXCEPT ![r] = to] /\ UNCHANGED <<sessions, actor>>
    BY <1>3 DEF Open, RunCommand, Present, Arrive, rows
  <2>2. \E c : call' = [call EXCEPT ![r] = c]
    BY <1>3 DEF Open, RunCommand, Present, Arrive
  <2> QED
    BY <1>1, <2>1, <2>2
<1>4. CASE \/ Unauthorized(r) \/ TurnAway(r) \/ WaitTimesOut(r) \/ Drop(r) \/ RecordRefusal(r) \/ Forbid(r)
           \/ Logout(r) \/ CreateToken(r) \/ RevokeToken(r)
           \/ RefuseSetup(r) \/ CreateUser(r) \/ CreateInitialAdmin(r) \/ CliCreate(r)
  <2>1. Finish(r) /\ sessions' \subseteq sessions
    BY <1>4 DEF Unauthorized, TurnAway, WaitTimesOut, Drop, RecordRefusal, Forbid, Logout, CreateToken,
                RevokeToken, RefuseSetup, CreateUser, CreateInitialAdmin, CliCreate, rows
  <2> QED
    BY <2>1, <1>2
<1>5. CASE ChangeRole(r) \/ DeleteUser(r) \/ StorePassword(r) \/ CliPromote(r)
  <2>1. Finish(r) /\ sessions' \subseteq sessions
    BY <1>5 DEF ChangeRole, DeleteUser, StorePassword, CliPromote, SetRole, UpdatePassword, DeleteRow, rows
  <2> QED
    BY <2>1, <1>2
<1>6. CASE WorkEnds(r) \/ StartVerifying(r) \/ TurnAwayWaiting(r) \/ StartHashing(r)
  <2>1. PICK to \in Steps \ {"act"} : step' = [step EXCEPT ![r] = to]
    BY <1>6 DEF WorkEnds, StartVerifying, TurnAwayWaiting, StartHashing
  <2> QED
    BY <1>1, <1>6, <2>1 DEF WorkEnds, StartVerifying, TurnAwayWaiting, StartHashing, rows
<1>7. CASE FindUser(r) \/ BeginHash(r)
  BY <1>1, <1>2, <1>7 DEF FindUser, BeginHash, FailAuthentication, Busy, Admit, rows
<1>8. CASE Judge(r)
  <2>1. CASE Verifies(call[r].pw, actor[r].hash) /\ step' = [step EXCEPT ![r] = "act"] /\ Keep(r) /\ UNCHANGED sessions
    BY <2>1 DEF Verifies, ShownOK, CallsOK
  <2> QED
    BY <1>2, <1>8, <2>1 DEF Judge, FailAuthentication, rows
<1>9. CASE FindHolder(r)
  <2>1. CASE \E h \in Holders(r) :
               /\ actor' = [actor EXCEPT ![r] = [id |-> h[1], role |-> h[2], hash |-> Nobody.hash, verified |-> FALSE]]
               /\ step' = [step EXCEPT ![r] = "act"] /\ UNCHANGED <<call, sessions>>
    BY <2>1 DEF ShownOK, CallsOK
  <2> QED
    BY <1>2, <1>9, <2>1 DEF FindHolder, FailAuthentication, rows
<1>10. CASE ResolveTokenUser(r)
  BY <1>1, <1>2, <1>10 DEF ResolveTokenUser, rows
<1>11. CASE Login(r)
  <2>1. /\ step[r] = "act" /\ actor[r].verified
        /\ call[r].pw = actor[r].hash.pw
    BY <1>11 DEF Login, Acts, MayAct, ShownOK
  <2>2. \A s \in sessions' : s \in sessions \/ (s.shown = call[r].pw /\ s.hash = actor[r].hash)
    BY <1>11 DEF Login, WithSession, SessionHash
  <2>3. DOMAIN actor' = Requests /\ \A q \in Requests \ {r} : actor'[q] = actor[q] /\ call'[q] = call[q]
    BY <1>11 DEF Login, Finish, ShownOK, CallsOK
  <2>4. step' = [step EXCEPT ![r] = "done"]
    BY <1>11 DEF Login, Finish
  <2> QED
    BY <2>1, <2>2, <2>3, <2>4 DEF ShownOK, CallsOK
<1>12. CASE CliFind(r)
  <2>1. CASE Finish(r)
    BY <1>2, <1>12, <2>1 DEF CliFind, rows
  <2>2. CASE \E u \in Named(call[r].about) : call' = [call EXCEPT ![r].id = u] /\ Go(r, "find", "write") /\ UNCHANGED actor
    BY <1>1, <1>12, <2>2 DEF CliFind, rows
  <2> QED
    BY <1>12, <2>1, <2>2 DEF CliFind
<1>13. CASE CliWrite(r)
  <2>1. sessions' \subseteq sessions
    BY <1>13 DEF CliWrite, UpdatePassword, SetRole, DeleteRow, rows
  <2> QED
    BY <1>1, <1>2, <1>13, <2>1 DEF CliWrite
<1> QED
  BY <1>3, <1>4, <1>5, <1>6, <1>7, <1>8, <1>9, <1>10, <1>11, <1>12, <1>13 DEF RequestStep

(* No session outlives a reset, not even one whose login was verified       *)
(* before and is stored after it: sessions.rs, the statement that stores a  *)
(* session with the hash that was verified, and the join of authenticate.   *)
THEOREM SessionsShowThePassword == Spec => []SessionsFollowThePassword
<1>1. Init => ShownOK
  BY DEF Init, ShownOK
<1>2. ASSUME CallsOK, ShownOK, [Next]_vars PROVE ShownOK'
  <2>1. CASE \E r \in Requests : RequestStep(r)
    BY <1>2, <2>1, RequestShown
  <2>2. CASE Restart
    BY <1>2, <2>2 DEF Restart, ShownOK, CallsOK, rows
  <2>3. CASE OrphanEnds \/ Expire \/ Tick \/ UNCHANGED vars
    BY <1>2, <2>3 DEF OrphanEnds, Expire, Tick, vars, rows, ShownOK, CallsOK
  <2> QED
    BY <1>2, <2>1, <2>2, <2>3 DEF Next
<1>3. IInv /\ ShownOK /\ [Next]_vars => IInv' /\ ShownOK'
  BY NextKeeps, <1>2 DEF IInv
<1>4. ShownOK => SessionsFollowThePassword
  BY DEF ShownOK, SessionsFollowThePassword, Active
<1> QED
  BY InitOK, <1>1, <1>3, <1>4, PTL DEF Spec

-----------------------------------------------------------------------------
(* Lockouts.  The operations of the table leave a lockout that is in force  *)
(* alone, because eviction spares locked keys and a further failure locks   *)
(* for at least as long.                                                    *)
Entry == [count : Nat, since : Nat, until : Nat, seen : Nat]

TableOK(m, t) ==
    /\ \A k \in DOMAIN m : m[k] \in Entry /\ m[k].until <= t + Lockout
    /\ MaxFailures = 0 => DOMAIN m = {}

InForce(m, k, t) == k \in DOMAIN m /\ Locked(m[k], t) /\ ~WindowExpired(m[k], t)

LocksOutlast(m, n, t) == \A k : InForce(m, k, t) => k \in DOMAIN n /\ n[k].until >= m[k].until

LEMMA CheckedKeepsLocks ==
    ASSUME NEW m, NEW t \in Nat, NEW k, TableOK(m, t)
    PROVE  TableOK(Checked(m, k, t), t) /\ LocksOutlast(m, Checked(m, k, t), t)
<1> USE AccountsAssumption
<1>1. CASE MaxFailures = 0 \/ k \notin DOMAIN m
  BY <1>1 DEF Checked, TableOK, LocksOutlast, InForce, Entry
<1>2. CASE k \in DOMAIN m /\ MaxFailures # 0 /\ WindowExpired(m[k], t)
  <2>1. Checked(m, k, t) = [j \in DOMAIN m \ {k} |-> m[j]]
    BY <1>2 DEF Checked, Without, Restrict
  <2> QED
    BY <1>2, <2>1 DEF TableOK, LocksOutlast, InForce, Entry
<1>3. CASE k \in DOMAIN m /\ MaxFailures # 0 /\ ~WindowExpired(m[k], t)
  <2>1. Checked(m, k, t) = [m EXCEPT ![k].seen = t]
    BY <1>3 DEF Checked
  <2>2. [m[k] EXCEPT !.seen = t] \in Entry /\ [m[k] EXCEPT !.seen = t].until = m[k].until
    BY <1>3 DEF TableOK, Entry
  <2>3. \A j \in DOMAIN m : Checked(m, k, t)[j] = IF j = k THEN [m[k] EXCEPT !.seen = t] ELSE m[j]
    BY <2>1
  <2>4. DOMAIN Checked(m, k, t) = DOMAIN m
    BY <2>1
  <2>5. \A j \in DOMAIN m : Checked(m, k, t)[j] \in Entry /\ Checked(m, k, t)[j].until = m[j].until
    BY <2>2, <2>3 DEF TableOK
  <2>6. \A j \in DOMAIN m : m[j].until \in Nat
    BY DEF TableOK, Entry
  <2> QED
    BY <1>3, <2>4, <2>5, <2>6 DEF TableOK, LocksOutlast, InForce
<1> QED
  BY <1>1, <1>2, <1>3

LEMMA CountedKeepsLocks ==
    ASSUME NEW m, NEW t \in Nat, NEW k, TableOK(m, t), MaxFailures # 0
    PROVE  TableOK(Counted(m, k, t), t) /\ LocksOutlast(m, Counted(m, k, t), t)
<1> DEFINE e == IF k \in DOMAIN m THEN m[k] ELSE [count |-> 0, since |-> t, until |-> 0, seen |-> t]
           n == e.count + 1
           failed == [count |-> n, since |-> e.since, seen |-> t,
                      until |-> IF n >= MaxFailures THEN t + Lockout ELSE e.until]
<1> USE AccountsAssumption
<1>1. e \in Entry /\ e.until <= t + Lockout
  BY DEF TableOK, Entry
<1>2. failed \in Entry /\ failed.until <= t + Lockout /\ failed.until >= e.until
  BY <1>1 DEF Entry
<1>3. Counted(m, k, t) = [j \in DOMAIN m \cup {k} |-> IF j = k THEN failed ELSE m[j]]
  BY DEF Counted
<1>4. k \in DOMAIN m => failed.until >= m[k].until
  BY <1>2
<1> HIDE DEF failed
<1> QED
  BY <1>2, <1>3, <1>4 DEF TableOK, LocksOutlast, InForce, Entry

(* A set of times has a smallest one. *)
LEMMA SomeOldest ==
    ASSUME NEW m, NEW ks, ks # {}, \A k \in ks : m[k].seen \in Nat
    PROVE  Oldest(m, ks) \in ks
<1> DEFINE times == {m[k].seen : k \in ks}
<1>1. times \subseteq Nat /\ times # {}
  OBVIOUS
<1>2. PICK s \in times : \A t \in times : ~(<<t, s>> \in OpToRel(<, Nat))
  BY <1>1, NatLessThanWellFounded, WFMin, Zenon
<1>3. \A t \in times : s <= t
  <2> TAKE t \in times
  <2>1. s \in Nat /\ t \in Nat /\ <<t, s>> \notin {p \in Nat \X Nat : p[1] < p[2]}
    BY <1>1, <1>2 DEF OpToRel
  <2>2. ~(t < s)
    BY <2>1
  <2> QED
    BY <2>1, <2>2
<1>4. \E k \in ks : \A j \in ks : m[k].seen <= m[j].seen
  BY <1>3
<1> QED
  BY <1>4 DEF Oldest

LEMMA FailedKeepsLocks ==
    ASSUME NEW m, NEW t \in Nat, NEW k, TableOK(m, t)
    PROVE  TableOK(Failed(m, k, t), t) /\ LocksOutlast(m, Failed(m, k, t), t)
<1> USE AccountsAssumption
<1> DEFINE current == Current(m, t)
           evictable == Evictable(current, t)
           gone == Oldest(current, evictable)
           rest == Without(current, gone)
<1>1. CASE MaxFailures = 0 \/ MaxEntries = 0
  <2>1. Failed(m, k, t) = m
    BY <1>1 DEF Failed
  <2> QED
    BY <2>1 DEF TableOK, LocksOutlast, InForce, Entry
<1>2. CASE MaxFailures # 0 /\ MaxEntries # 0
  <2>1. current = [j \in {i \in DOMAIN m : ~WindowExpired(m[i], t)} |-> m[j]]
    BY DEF Current, Restrict
  <2>2. TableOK(current, t) /\ LocksOutlast(m, current, t)
    BY <2>1, <1>2 DEF TableOK, LocksOutlast, InForce, Entry
  <2>3. \A j : InForce(m, j, t) => InForce(current, j, t) /\ current[j] = m[j]
    BY <2>1 DEF InForce
  <2>4. TableOK(Counted(current, k, t), t) /\ LocksOutlast(m, Counted(current, k, t), t)
    BY <1>2, <2>2, <2>3, CountedKeepsLocks DEF LocksOutlast
  <2>5. ASSUME evictable # {}
        PROVE  TableOK(Counted(rest, k, t), t) /\ LocksOutlast(m, Counted(rest, k, t), t)
    <3>1. gone \in evictable
      BY <2>2, <2>5, SomeOldest DEF Evictable, TableOK, Entry
    <3>2. rest = [j \in DOMAIN current \ {gone} |-> current[j]]
      BY DEF Without, Restrict
    <3>3. TableOK(rest, t)
      BY <1>2, <2>2, <3>2 DEF TableOK
    <3>4. \A j : InForce(m, j, t) => InForce(rest, j, t) /\ rest[j] = m[j]
      BY <2>3, <3>1, <3>2 DEF InForce, Evictable
    <3> QED
      BY <1>2, <3>3, <3>4, CountedKeepsLocks DEF LocksOutlast
  <2>6. \/ Failed(m, k, t) = Counted(current, k, t)
        \/ Failed(m, k, t) = current
        \/ evictable # {} /\ Failed(m, k, t) = Counted(rest, k, t)
    BY <1>2, Zenon DEF Failed
  <2> QED
    BY <2>2, <2>4, <2>5, <2>6
<1> QED
  BY <1>1, <1>2

(* What a step of r does to the table, and who begins to verify. *)
EntriesMove(r) ==
    /\ UNCHANGED now
    /\ \/ UNCHANGED entries
       \/ \E k : entries' = Checked(entries, k, now)
       \/ \E k : entries' = Failed(entries, k, now)
       \/ /\ entries' = Forgiven(entries, Key(r))
          /\ step[r] \in {"verified", "lookup"} /\ step'[r] = "act"

LEMMA RequestEntries == ASSUME CallsOK, NEW r \in Requests, RequestStep(r) PROVE EntriesMove(r)
<1> USE DEF limiter, EntriesMove
<1>1. CASE \/ Unauthorized(r) \/ Present(r) \/ TurnAway(r) \/ StartVerifying(r) \/ TurnAwayWaiting(r)
  BY <1>1 DEF Unauthorized, Present, TurnAway, StartVerifying, TurnAwayWaiting
<1>2. CASE \/ Open(r) \/ RunCommand(r) \/ WaitTimesOut(r) \/ WorkEnds(r) \/ Drop(r)
           \/ RecordRefusal(r) \/ Forbid(r) \/ Login(r) \/ Logout(r) \/ ChangeRole(r) \/ DeleteUser(r)
           \/ ResolveTokenUser(r) \/ CreateToken(r) \/ RevokeToken(r)
           \/ BeginHash(r) \/ RefuseSetup(r) \/ StartHashing(r)
           \/ StorePassword(r) \/ CreateUser(r) \/ CreateInitialAdmin(r)
           \/ CliCreate(r) \/ CliFind(r) \/ CliWrite(r) \/ CliPromote(r)
  BY <1>2 DEF Open, RunCommand, WaitTimesOut, WorkEnds, Drop, RecordRefusal, Forbid, Login, Logout, ChangeRole, DeleteUser,
              ResolveTokenUser, CreateToken, RevokeToken, BeginHash, RefuseSetup, StartHashing, StorePassword,
              CreateUser, CreateInitialAdmin, CliCreate, CliFind, CliWrite, CliPromote
<1>3. CASE FindUser(r)
  BY <1>3 DEF FindUser, FailAuthentication
<1>4. CASE Judge(r) \/ FindHolder(r)
  BY <1>4 DEF Judge, FindHolder, FailAuthentication, Go, CallsOK
<1> QED
  BY <1>1, <1>2, <1>3, <1>4 DEF RequestStep

LEMMA OnlyStartVerifies ==
    ASSUME CallsOK, NEW q \in Requests, RequestStep(q), NEW r \in Requests,
           step[r] = "wait", step'[r] = "verify"
    PROVE  StartsVerifying(r)
<1>1. q = r
  BY RequestMoves, RequestPermits DEF PermitsMove, PermitsMoveTo, CallsOK
<1>2. CASE step' = [step EXCEPT ![r] = "done"]
  BY <1>2 DEF CallsOK
<1>3. \/ step' = [step EXCEPT ![r] = "done"]
      \/ StartVerifying(r)
  BY <1>1 DEF RequestStep, Open, RunCommand, Unauthorized, Present, TurnAway, WaitTimesOut, WorkEnds, Drop,
              FindUser, StartVerifying, TurnAwayWaiting, RecordRefusal, Judge, FindHolder, Forbid, Login, Logout, ChangeRole,
              DeleteUser, ResolveTokenUser, CreateToken, RevokeToken, BeginHash, RefuseSetup, StartHashing,
              StorePassword, CreateUser, CreateInitialAdmin, CliCreate, CliFind, CliWrite, CliPromote,
              Acts, Arrive, Go, Finish
<1> QED
  BY <1>2, <1>3 DEF StartVerifying

EntriesOK == now \in Nat /\ TableOK(entries, now)

LEMMA RequestLocks ==
    ASSUME CallsOK, EntriesOK, NEW r \in Requests, RequestStep(r), NEW k, InForce(entries, k, now)
    PROVE  \/ k \in DOMAIN entries' /\ entries'[k].until >= entries[k].until
           \/ Key(r) = k /\ step[r] \in {"verified", "lookup"} /\ step'[r] = "act"
<1>1. entries[k].until \in Nat
  BY DEF InForce, EntriesOK, TableOK, Entry
<1>2. CASE UNCHANGED entries
  BY <1>1, <1>2 DEF InForce
<1>3. CASE \E j : entries' = Checked(entries, j, now) \/ entries' = Failed(entries, j, now)
  BY <1>3, CheckedKeepsLocks, FailedKeepsLocks DEF EntriesOK, LocksOutlast
<1>4. CASE entries' = Forgiven(entries, Key(r)) /\ Key(r) # k
  BY <1>1, <1>4 DEF Forgiven, Without, Restrict, InForce
<1> QED
  BY <1>2, <1>3, <1>4, RequestEntries DEF EntriesMove

LEMMA NextKeepsEntries == ASSUME CallsOK, EntriesOK, [Next]_vars PROVE EntriesOK'
<1>1. ASSUME NEW r \in Requests, RequestStep(r) PROVE EntriesOK'
  <2>1. CASE UNCHANGED entries
    BY <1>1, <2>1, RequestEntries DEF EntriesMove, EntriesOK
  <2>2. CASE \E k : entries' = Checked(entries, k, now) \/ entries' = Failed(entries, k, now)
    BY <1>1, <2>2, RequestEntries, CheckedKeepsLocks, FailedKeepsLocks DEF EntriesMove, EntriesOK
  <2>3. CASE entries' = Forgiven(entries, Key(r))
    BY <1>1, <2>3, RequestEntries DEF EntriesMove, EntriesOK, TableOK, Forgiven, Without, Restrict
  <2> QED
    BY <1>1, <2>1, <2>2, <2>3, RequestEntries DEF EntriesMove
<1>2. CASE Tick
  BY <1>2, AccountsAssumption DEF Tick, EntriesOK, TableOK, Entry
<1>3. CASE Restart
  BY <1>3 DEF Restart, EntriesOK, TableOK
<1>4. CASE OrphanEnds \/ Expire \/ UNCHANGED vars
  BY <1>4 DEF OrphanEnds, Expire, vars, limiter, EntriesOK, TableOK
<1> QED
  BY <1>1, <1>2, <1>3, <1>4 DEF Next

(* A lockout is met by those who were already waiting, and neither eviction *)
(* nor a further failure shortens it: auth_rate_limit.rs, record_failure    *)
(* and the second check under the worker permit in api/auth.rs.             *)
THEOREM LockoutsAreKept == Spec => LockoutsHold
<1> DEFINE Met(k) == \A r \in Requests : Key(r) = k /\ step[r] = "wait" => step'[r] # "verify"
           Kept(k) == \/ k \in DOMAIN entries' /\ entries'[k].until >= entries[k].until
                      \/ \E r \in Requests : Key(r) = k /\ step[r] \in {"verified", "lookup"} /\ step'[r] = "act"
                      \/ Restart
<1>1. ASSUME CallsOK, EntriesOK, [Next]_vars, NEW k \in DOMAIN entries, InForce(entries, k, now)
      PROVE  Met(k) /\ Kept(k)
  <2>1. entries[k].until \in Nat /\ MaxFailures # 0
    BY <1>1 DEF EntriesOK, TableOK, Entry
  <2>2. \A r \in Requests : Key(r) = k => ~StartsVerifying(r)
    BY <1>1, <2>1, AccountsAssumption DEF StartsVerifying, Rejects, InForce
  <2>3. ASSUME NEW q \in Requests, RequestStep(q) PROVE Met(k) /\ Kept(k)
    <3>1. Met(k)
      BY <1>1, <2>2, <2>3, OnlyStartVerifies
    <3>2. Kept(k)
      BY <1>1, <2>3, RequestLocks
    <3> QED
      BY <3>1, <3>2
  <2>4. CASE Restart
    BY <1>1, <2>4 DEF Restart, CallsOK
  <2>5. CASE OrphanEnds \/ Expire \/ Tick \/ UNCHANGED vars
    BY <1>1, <2>1, <2>5 DEF OrphanEnds, Expire, Tick, vars, limiter
  <2> QED
    BY <1>1, <2>3, <2>4, <2>5 DEF Next
<1>2. CallsOK /\ EntriesOK /\ [Next]_vars
      => [\A k \in DOMAIN entries :
            Locked(entries[k], now) /\ ~WindowExpired(entries[k], now) =>
              /\ \A r \in Requests : Key(r) = k /\ step[r] = "wait" => step'[r] # "verify"
              /\ \/ k \in DOMAIN entries' /\ entries'[k].until >= entries[k].until
                 \/ \E r \in Requests : Key(r) = k /\ step[r] \in {"verified", "lookup"} /\ step'[r] = "act"
                 \/ Restart]_vars
  BY <1>1 DEF InForce
<1>3. Init => EntriesOK
  BY DEF Init, EntriesOK, TableOK
<1>4. IInv /\ EntriesOK /\ [Next]_vars => IInv' /\ EntriesOK'
  BY NextKeeps, NextKeepsEntries DEF IInv
<1>5. IInv => CallsOK
  BY DEF IInv
<1> QED
  BY InitOK, <1>2, <1>3, <1>4, <1>5, PTL DEF Spec, LockoutsHold
=============================================================================
