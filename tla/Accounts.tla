------------------------------ MODULE Accounts ------------------------------
(* Users, browser sessions and API tokens, and how a request is             *)
(* authenticated: the table of failures, the bounded password workers, the  *)
(* row of the user read before the password is verified, and the operation  *)
(* that acts on it afterwards.  Every step of a request ends at an await;   *)
(* a request may be dropped at any of them.                                 *)
EXTENDS AuthRateLimiter

CONSTANTS
    Requests,          \* every one makes one call
    Names, Passwords,
    MaxIds,            \* bounds the users that are ever created
    MaxTime,           \* bounds the clock
    Workers, QueueDepth, MaxSessions,
    Calls,             \* the calls there are (see Call)
    Founded            \* the users a database may start with

Ids == 1..MaxIds
Roles == {"admin", "readonly"}
Keys == Names \cup Requests \cup {"invalid"}
Hash == [pw : Passwords, salt : Requests \cup {"first"}]
User == [name : Names, hash : Hash, role : Roles]

(* What a call presents, and what it asks for.  "held" is the call that     *)
(* obtained the session or token it presents.                               *)
Operations == {"login", "logout", "setup", "create", "reset", "role", "delete", "token", "revoke", "promote"}
Call == [via : {"basic", "session", "token", "nothing", "cli"}, name : Names, pw : Passwords, op : Operations,
         id : Ids \cup {0}, about : Names, role : Roles, fresh : Passwords, admin : BOOLEAN]
NoCall == [via |-> "none"]

ASSUME AccountsAssumption ==
    /\ IsFiniteSet(Requests) /\ Requests # {}
    /\ Calls \subseteq Call
    /\ MaxFailures \in Nat /\ Window \in Nat /\ Lockout \in Nat /\ MaxEntries \in Nat
    /\ Workers \in Nat \ {0} /\ QueueDepth \in Nat /\ MaxSessions \in Nat
    /\ MaxIds \in Nat /\ MaxTime \in Nat
    /\ \A m \in Founded :
          (\E n \in 0..MaxIds : DOMAIN m = 1..n) /\ (\A u \in DOMAIN m : m[u] \in User)
    /\ "first" \notin Requests

VARIABLES
    users,     \* users[id]: the row of a user; ids are never used again
    lastId,
    sessions, tokens,   \* those that are neither expired nor revoked
    step, call,         \* step[r], call[r]: where r is, and what it is
    held,               \* held[r]: the request whose session or token it presents
    actor,     \* actor[r]: its user as read when it was authenticated
    admitted, working,  \* permits taken of the two semaphores
    orphans,   \* password work whose request was dropped
    entries, now

rows == <<users, lastId, sessions, tokens>>
permits == <<admitted, working, orphans>>
limiter == <<entries, now>>
vars == <<rows, step, call, held, actor, permits, limiter>>

Waiting == {"wait", "queue"}
Blocking == {"verify", "hash"}
Working == Blocking \cup {"turned"}       \* holding a worker
Steps == {"idle", "done", "lookup", "verified", "act", "setup", "hashed", "find", "write", "promote", "grant"}
         \cup Waiting \cup Working
Nobody == [id |-> 0, role |-> "readonly", hash |-> [pw |-> "none", salt |-> "none"], verified |-> FALSE]
Actor == [id : Ids, role : Roles, hash : Hash \cup {Nobody.hash}, verified : BOOLEAN] \cup {Nobody}

TypeOK ==
    /\ DOMAIN users \subseteq 1..lastId /\ lastId \in 0..MaxIds
    /\ \A u \in DOMAIN users : users[u] \in User
    /\ \A u, v \in DOMAIN users : users[u].name = users[v].name => u = v
    /\ sessions \subseteq [id : Requests, user : DOMAIN users, hash : Hash, shown : Passwords]
    /\ tokens \subseteq [id : Requests, user : DOMAIN users, admin : BOOLEAN]
    /\ step \in [Requests -> Steps]
    /\ \A r \in Requests : step[r] \in {"idle", "done"} <=> call[r] = NoCall
    /\ held \in [Requests -> Requests] /\ actor \in [Requests -> Actor]
    /\ admitted \in 0..Workers + QueueDepth /\ working \in 0..Workers /\ orphans \in 0..Workers
    /\ DOMAIN entries \subseteq Keys /\ now \in 0..MaxTime
    /\ \A k \in DOMAIN entries : entries[k].since <= entries[k].seen /\ entries[k].seen <= now

Init ==
    /\ users \in Founded /\ lastId = Cardinality(DOMAIN users)
    /\ sessions = {} /\ tokens = {}
    /\ step = [r \in Requests |-> "idle"] /\ call = [r \in Requests |-> NoCall]
    /\ held = [r \in Requests |-> r] /\ actor = [r \in Requests |-> Nobody]
    /\ admitted = 0 /\ working = 0 /\ orphans = 0
    /\ entries = [k \in {} |-> 0] /\ now = 0

-----------------------------------------------------------------------------
Go(r, from, to) == step[r] = from /\ step' = [step EXCEPT ![r] = to]
Keep(r) == UNCHANGED <<call, held, actor>>

(* The request is answered, or its client is gone. *)
Finish(r) ==
    /\ step' = [step EXCEPT ![r] = "done"] /\ call' = [call EXCEPT ![r] = NoCall]
    /\ held' = [held EXCEPT ![r] = r] /\ actor' = [actor EXCEPT ![r] = Nobody]

(* rate_limit_key, for one client: a session or token has a key of its own. *)
Key(r) == IF call[r].via = "basic" THEN call[r].name ELSE held[r]

Admins == {u \in DOMAIN users : users[u].role = "admin"}
HasAdmin == Admins # {}
Named(n) == {u \in DOMAIN users : users[u].name = n}

-----------------------------------------------------------------------------
(* A call arrives: setup and the command line need no credentials, others   *)
(* without usable ones count as failures of their client.                   *)
Arrive(r, c, h) ==
    /\ step[r] = "idle"
    /\ call' = [call EXCEPT ![r] = c] /\ held' = [held EXCEPT ![r] = h] /\ UNCHANGED actor

Open(r) == \E c \in Calls :
    /\ c.via = "nothing" /\ c.op = "setup"
    /\ Arrive(r, c, r) /\ Go(r, "idle", "setup")
    /\ UNCHANGED <<rows, permits, limiter>>

RunCommand(r) == \E c \in Calls :
    /\ c.via = "cli" /\ Arrive(r, c, r) /\ Go(r, "idle", "find")
    /\ UNCHANGED <<rows, permits, limiter>>

Unauthorized(r) ==
    /\ step[r] = "idle" /\ Finish(r)
    /\ entries' = Failed(entries, "invalid", now) /\ UNCHANGED <<rows, permits, now>>

Present(r) == \E c \in Calls, h \in Requests :
    /\ c.via \in {"basic", "session", "token"}
    /\ c.via = "basic" => h = r
    /\ LET k == IF c.via = "basic" THEN c.name ELSE h
        IN  /\ ~Rejects(entries, k, now) /\ entries' = Checked(entries, k, now)
    /\ Arrive(r, c, h) /\ Go(r, "idle", "lookup")
    /\ UNCHANGED <<rows, permits, now>>

TurnAway(r) == \E k \in Names \cup Requests :
    /\ step[r] = "idle" /\ Rejects(entries, k, now)
    /\ entries' = Checked(entries, k, now) /\ Finish(r)
    /\ UNCHANGED <<rows, permits, now>>

(* fail_authentication *)
FailAuthentication(r) ==
    /\ entries' = Failed(entries, Key(r), now) /\ Finish(r) /\ UNCHANGED now

-----------------------------------------------------------------------------
(* The two semaphores: admission is taken or refused at once, a worker is   *)
(* waited for, and both are returned by the blocking work.                  *)
Admit(r, to) ==
    /\ admitted < Workers + QueueDepth /\ admitted' = admitted + 1
    /\ step' = [step EXCEPT ![r] = to] /\ UNCHANGED <<working, orphans>>

Busy(r) == admitted = Workers + QueueDepth /\ Finish(r) /\ UNCHANGED permits

Leave == admitted' = admitted - 1 /\ UNCHANGED <<working, orphans>>

WaitTimesOut(r) ==
    /\ step[r] \in Waiting /\ Leave /\ Finish(r) /\ UNCHANGED <<rows, limiter>>

TakeWorker == working < Workers /\ working' = working + 1 /\ UNCHANGED <<admitted, orphans>>

ReturnBoth == admitted' = admitted - 1 /\ working' = working - 1 /\ UNCHANGED orphans

WorkEnds(r) ==
    /\ step[r] \in Blocking
    /\ step' = [step EXCEPT ![r] = IF step[r] = "verify" THEN "verified" ELSE "hashed"]
    /\ ReturnBoth /\ UNCHANGED <<rows, call, held, actor, limiter>>

OrphanEnds ==
    /\ orphans > 0 /\ orphans' = orphans - 1
    /\ admitted' = admitted - 1 /\ working' = working - 1
    /\ UNCHANGED <<rows, step, call, held, actor, limiter>>

(* The client disconnects, or the command is killed: blocking work goes on. *)
MutDropWorking(r) ==
    /\ step[r] \in Blocking /\ orphans' = orphans + 1
    /\ admitted' = admitted - 1 /\ working' = working - 1
DropWorking(r) ==
    /\ step[r] \in Blocking /\ orphans' = orphans + 1 /\ UNCHANGED <<admitted, working>>

Drop(r) ==
    /\ step[r] \notin {"idle", "done"} /\ Finish(r)
    /\ \/ DropWorking(r)
       \/ step[r] \in Waiting /\ Leave
       \/ step[r] = "turned" /\ ReturnBoth
       \/ step[r] \notin Waiting \cup Working /\ UNCHANGED permits
    /\ UNCHANGED <<rows, limiter>>

-----------------------------------------------------------------------------
(* Basic: the row of the user is read, then the password is verified        *)
(* against that row, however long it waited.                                *)
FindUser(r) ==
    /\ step[r] = "lookup" /\ call[r].via = "basic"
    /\ \/ /\ Named(call[r].name) = {} /\ FailAuthentication(r) /\ UNCHANGED permits
       \/ \E u \in Named(call[r].name) :
             \/ /\ Admit(r, "wait")
                /\ actor' = [actor EXCEPT ![r] = [id |-> u, role |-> users[u].role,
                                                  hash |-> users[u].hash, verified |-> TRUE]]
                /\ UNCHANGED <<call, held, limiter>>
             \/ Busy(r) /\ UNCHANGED limiter
    /\ UNCHANGED rows

(* A worker is free: the table of failures is consulted a second time. *)
StartsVerifying(r) == ~Rejects(entries, Key(r), now)

StartVerifying(r) ==
    /\ StartsVerifying(r) /\ TakeWorker /\ Go(r, "wait", "verify")
    /\ entries' = Checked(entries, Key(r), now) /\ UNCHANGED <<rows, call, held, actor, now>>

(* It is turned away with the worker in its hands, and gives it back only   *)
(* after the refusal was recorded in the audit log.                         *)
TurnAwayWaiting(r) ==
    /\ ~StartsVerifying(r) /\ TakeWorker /\ Go(r, "wait", "turned")
    /\ entries' = Checked(entries, Key(r), now) /\ UNCHANGED <<rows, call, held, actor, now>>

RecordRefusal(r) ==
    /\ step[r] = "turned" /\ ReturnBoth /\ Finish(r) /\ UNCHANGED <<rows, limiter>>

Verifies(pw, h) == pw = h.pw

Judge(r) ==
    /\ step[r] = "verified"
    /\ \/ /\ Verifies(call[r].pw, actor[r].hash)
          /\ entries' = Forgiven(entries, Key(r)) /\ Go(r, "verified", "act")
          /\ UNCHANGED <<call, held, actor, now>>
       \/ ~Verifies(call[r].pw, actor[r].hash) /\ FailAuthentication(r)
    /\ UNCHANGED <<rows, permits>>

(* Bearer: one statement joins the session or token with its user. *)
Active(s) == s.hash = users[s.user].hash

Holders(r) ==
    IF call[r].via = "session"
    THEN {<<s.user, users[s.user].role>> : s \in {t \in sessions : t.id = held[r] /\ Active(t)}}
    ELSE {<<t.user, IF t.admin /\ users[t.user].role = "admin" THEN "admin" ELSE "readonly">> :
              t \in {x \in tokens : x.id = held[r]}}

FindHolder(r) ==
    /\ step[r] = "lookup" /\ call[r].via \in {"session", "token"}
    /\ \/ \E h \in Holders(r) :
             /\ actor' = [actor EXCEPT ![r] = [id |-> h[1], role |-> h[2],
                                               hash |-> Nobody.hash, verified |-> FALSE]]
             /\ entries' = Forgiven(entries, Key(r)) /\ Go(r, "lookup", "act")
             /\ UNCHANGED <<call, held, now>>
       \/ Holders(r) = {} /\ FailAuthentication(r)
    /\ UNCHANGED <<rows, permits>>

-----------------------------------------------------------------------------
(* The statements.  The last administrator can be neither demoted nor       *)
(* deleted; sessions and tokens go with their user.                         *)
Hashed(r) == [pw |-> call[r].fresh, salt |-> r]

Insert(n, h, role) ==
    IF Named(n) = {} /\ lastId < MaxIds
    THEN /\ lastId' = lastId + 1
         /\ users' = [u \in DOMAIN users \cup {lastId + 1} |->
                        IF u = lastId + 1 THEN [name |-> n, hash |-> h, role |-> role] ELSE users[u]]
    ELSE UNCHANGED <<users, lastId>>

MutMayLose(u) == TRUE
MayLose(u) == users[u].role # "admin" \/ \E v \in Admins : v # u

SetRole(u, role) ==
    /\ users' = IF u \in DOMAIN users /\ (role = "admin" \/ MayLose(u))
                THEN [users EXCEPT ![u].role = role] ELSE users
    /\ UNCHANGED <<lastId, sessions, tokens>>

UpdatePassword(u, h) ==
    /\ users' = IF u \in DOMAIN users THEN [users EXCEPT ![u].hash = h] ELSE users
    /\ UNCHANGED <<lastId, sessions, tokens>>

DeleteRow(u) ==
    IF u \in DOMAIN users /\ MayLose(u)
    THEN /\ users' = Without(users, u) /\ UNCHANGED lastId
         /\ sessions' = {s \in sessions : s.user # u} /\ tokens' = {t \in tokens : t.user # u}
    ELSE UNCHANGED rows

-----------------------------------------------------------------------------
(* What an authenticated request does: as the user and with the role it was *)
(* authenticated with.                                                      *)
MayAct(r) ==
    CASE call[r].op = "login" -> actor[r].verified
      [] call[r].op = "logout" -> call[r].via = "session"
      [] OTHER -> actor[r].role = "admin"

Acts(r, op) == step[r] = "act" /\ call[r].op = op /\ MayAct(r)

Forbid(r) ==
    /\ step[r] = "act" /\ ~MayAct(r) /\ Finish(r) /\ UNCHANGED <<rows, permits, limiter>>

(* The session is bound to the password that was verified; one of an older  *)
(* password and those beyond the limit of a user are not kept.              *)
MutSessionHash(r) == users[actor[r].id].hash
SessionHash(r) == actor[r].hash

WithSession(u, h, r) ==
    LET kept == {s \in sessions : s.user = u => Active(s)}
    IN  IF Cardinality({s \in kept : s.user = u}) >= MaxSessions THEN kept
        ELSE kept \cup {[id |-> r, user |-> u, hash |-> h, shown |-> call[r].pw]}

Login(r) ==
    /\ Acts(r, "login")
    /\ sessions' = IF actor[r].id \in DOMAIN users
                   THEN WithSession(actor[r].id, SessionHash(r), r) ELSE sessions
    /\ Finish(r) /\ UNCHANGED <<users, lastId, tokens, permits, limiter>>

Logout(r) ==
    /\ Acts(r, "logout") /\ Finish(r)
    /\ sessions' = {s \in sessions : s.id # held[r]}
    /\ UNCHANGED <<users, lastId, tokens, permits, limiter>>

ChangeRole(r) ==
    /\ Acts(r, "role") /\ SetRole(call[r].id, call[r].role)
    /\ Finish(r) /\ UNCHANGED <<permits, limiter>>

DeleteUser(r) ==
    /\ Acts(r, "delete") /\ DeleteRow(call[r].id)
    /\ Finish(r) /\ UNCHANGED <<permits, limiter>>

(* A token of admin scope needs an administrator, as its user was read. *)
Grantable(r) == call[r].admin => users[call[r].id].role = "admin"

ResolveTokenUser(r) ==
    /\ Acts(r, "token")
    /\ LET fine == call[r].id \in DOMAIN users /\ Grantable(r)
       IN  \/ fine /\ Go(r, "act", "grant") /\ Keep(r)
           \/ ~fine /\ Finish(r)
    /\ UNCHANGED <<rows, permits, limiter>>

Granted(u, admin, r) ==
    IF u \in DOMAIN users THEN tokens \cup {[id |-> r, user |-> u, admin |-> admin]} ELSE tokens

CreateToken(r) ==
    /\ step[r] = "grant" /\ Finish(r)
    /\ tokens' = Granted(call[r].id, call[r].admin, r)
    /\ UNCHANGED <<users, lastId, sessions, permits, limiter>>

RevokeToken(r) == \E t \in tokens :
    /\ Acts(r, "revoke") /\ tokens' = tokens \ {t}
    /\ Finish(r) /\ UNCHANGED <<users, lastId, sessions, permits, limiter>>

(* A new password is hashed in the same queue; the first administrator is   *)
(* created only while there is none, which is looked up before and again in *)
(* the insertion.                                                           *)
BeginHash(r) ==
    /\ \/ Acts(r, "create") \/ Acts(r, "reset")
       \/ step[r] = "setup" /\ ~HasAdmin
    /\ \/ Admit(r, "queue") /\ Keep(r)
       \/ Busy(r)
    /\ UNCHANGED <<rows, limiter>>

RefuseSetup(r) ==
    /\ step[r] = "setup" /\ HasAdmin /\ Finish(r) /\ UNCHANGED <<rows, permits, limiter>>

StartHashing(r) ==
    /\ TakeWorker /\ Go(r, "queue", "hash") /\ Keep(r) /\ UNCHANGED <<rows, limiter>>

StorePassword(r) ==
    /\ step[r] = "hashed" /\ call[r].op = "reset"
    /\ UpdatePassword(call[r].id, Hashed(r)) /\ Finish(r) /\ UNCHANGED <<permits, limiter>>

CreateUser(r) ==
    /\ step[r] = "hashed" /\ call[r].op = "create"
    /\ Insert(call[r].about, Hashed(r), call[r].role)
    /\ Finish(r) /\ UNCHANGED <<sessions, tokens, permits, limiter>>

NoAdminYet == ~HasAdmin
CreateInitialAdmin(r) ==
    /\ step[r] = "hashed" /\ call[r].op = "setup"
    /\ IF NoAdminYet THEN Insert(call[r].about, Hashed(r), "admin") ELSE UNCHANGED <<users, lastId>>
    /\ Finish(r) /\ UNCHANGED <<sessions, tokens, permits, limiter>>

-----------------------------------------------------------------------------
(* A command finds its user by name and changes it by id, on the database   *)
(* of the running server; "promote" is create-admin --reset-password.       *)
CliCreate(r) ==
    /\ step[r] = "find"
    /\ \/ call[r].op = "create" /\ Insert(call[r].about, Hashed(r), call[r].role)
       \/ call[r].op = "promote" /\ Insert(call[r].about, Hashed(r), "admin") /\ Named(call[r].about) = {}
    /\ Finish(r) /\ UNCHANGED <<sessions, tokens, permits, limiter>>

CliFind(r) ==
    /\ step[r] = "find" /\ call[r].op # "create"
    /\ \/ \E u \in Named(call[r].about) :
             Go(r, "find", "write") /\ call' = [call EXCEPT ![r].id = u] /\ UNCHANGED <<held, actor>>
       \/ call[r].op # "promote" /\ Named(call[r].about) = {} /\ Finish(r)
    /\ UNCHANGED <<rows, permits, limiter>>

CliWrite(r) ==
    /\ step[r] = "write"
    /\ \/ call[r].op = "reset" /\ UpdatePassword(call[r].id, Hashed(r)) /\ Finish(r)
       \/ call[r].op = "role" /\ SetRole(call[r].id, call[r].role) /\ Finish(r)
       \/ call[r].op = "delete" /\ DeleteRow(call[r].id) /\ Finish(r)
       \/ /\ call[r].op = "promote" /\ UpdatePassword(call[r].id, Hashed(r))
          /\ step' = [step EXCEPT ![r] = "promote"] /\ Keep(r)
    /\ UNCHANGED <<permits, limiter>>

CliPromote(r) ==
    /\ step[r] = "promote" /\ SetRole(call[r].id, "admin")
    /\ Finish(r) /\ UNCHANGED <<permits, limiter>>

-----------------------------------------------------------------------------
Expire ==
    /\ \/ \E s \in sessions : sessions' = sessions \ {s} /\ UNCHANGED tokens
       \/ \E t \in tokens : tokens' = tokens \ {t} /\ UNCHANGED sessions
    /\ UNCHANGED <<users, lastId, step, call, held, actor, permits, limiter>>

Tick == now < MaxTime /\ now' = now + 1 /\ UNCHANGED <<rows, step, call, held, actor, permits, entries>>

(* The server is stopped and started: commands go on. *)
Restart ==
    LET ended == {r \in Requests : step[r] \notin {"idle", "done", "find", "write", "promote"}}
    IN  /\ step' = [r \in Requests |-> IF r \in ended THEN "done" ELSE step[r]]
        /\ call' = [r \in Requests |-> IF r \in ended THEN NoCall ELSE call[r]]
        /\ held' = [r \in Requests |-> r] /\ actor' = [r \in Requests |-> Nobody]
        /\ admitted' = 0 /\ working' = 0 /\ orphans' = 0
        /\ entries' = [k \in {} |-> 0] /\ UNCHANGED <<rows, now>>

RequestStep(r) ==
    \/ Open(r) \/ RunCommand(r) \/ Unauthorized(r) \/ Present(r) \/ TurnAway(r)
    \/ WaitTimesOut(r) \/ WorkEnds(r) \/ Drop(r)
    \/ FindUser(r) \/ StartVerifying(r) \/ TurnAwayWaiting(r) \/ RecordRefusal(r)
    \/ Judge(r) \/ FindHolder(r)
    \/ Forbid(r) \/ Login(r) \/ Logout(r) \/ ChangeRole(r) \/ DeleteUser(r)
    \/ ResolveTokenUser(r) \/ CreateToken(r) \/ RevokeToken(r)
    \/ BeginHash(r) \/ RefuseSetup(r) \/ StartHashing(r)
    \/ StorePassword(r) \/ CreateUser(r) \/ CreateInitialAdmin(r)
    \/ CliCreate(r) \/ CliFind(r) \/ CliWrite(r) \/ CliPromote(r)

Next == (\E r \in Requests : RequestStep(r)) \/ OrphanEnds \/ Expire \/ Tick \/ Restart

Spec == Init /\ [][Next]_vars

-----------------------------------------------------------------------------
(* Password work is bounded: what runs and what waits, dropped requests     *)
(* included, never exceeds the workers and the queue, and every permit      *)
(* taken belongs to some work or wait (password.rs: "releasing either       *)
(* permit early could exceed the worker bound").                            *)
WorkIsBounded ==
    LET busy == Cardinality({r \in Requests : step[r] \in Working}) + orphans
        waits == Cardinality({r \in Requests : step[r] \in Waiting})
    IN  /\ working = busy /\ busy <= Workers
        /\ admitted = busy + waits /\ busy + waits <= Workers + QueueDepth

(* A session speaks only for someone who has shown the password its user    *)
(* has now: none outlives a reset, not even one whose login was verified    *)
(* before the reset and stored after it.                                    *)
SessionsFollowThePassword == \A s \in sessions : Active(s) => s.shown = users[s.user].hash.pw

(* A database that has an administrator keeps one, whatever requests and    *)
(* commands demote or delete together, and then no setup succeeds.          *)
AdministratorsRemain == [][HasAdmin => /\ HasAdmin'
                                       /\ \A r \in Requests : CreateInitialAdmin(r) => users' = users]_vars

(* A lockout is met by every request: nobody begins to verify a password of *)
(* a locked key, not even one who was waiting when it was locked; and as    *)
(* long as its window lasts, neither other keys at the limit of the table   *)
(* nor further failures end it, only the right password or a restart.       *)
LockoutsHold == [][\A k \in DOMAIN entries :
    Locked(entries[k], now) /\ ~WindowExpired(entries[k], now) =>
        /\ \A r \in Requests : Key(r) = k /\ step[r] = "wait" => step'[r] # "verify"
        /\ \/ k \in DOMAIN entries' /\ entries'[k].until >= entries[k].until
           \/ \E r \in Requests : Key(r) = k /\ step[r] \in {"verified", "lookup"} /\ step'[r] = "act"
           \/ Restart]_vars
=============================================================================
