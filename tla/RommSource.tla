----------------------------- MODULE RommSource -----------------------------
(* The connection to one RomM server: its settings and the index of its     *)
(* games in the database, and the access token the client keeps in memory.  *)
(* Administrators save and clear the settings, refresh the index, probe the *)
(* server and look at covers at the same time; each request goes on with    *)
(* the settings it loaded.                                                  *)
EXTENDS Naturals, Sequences, FiniteSets, SequencesExt, FiniteSetsExt

CONSTANTS
    Requests,          \* the ones at work at a time
    Accounts,          \* a base URL and a user name on it
    Catalogs,          \* Catalogs[a]: the lists of games the server of a may have
    PageSize,          \* MAX_BROWSE_LIMIT
    MaxRemoteGames,    \* MAX_REMOTE_GAMES
    MaxTokens          \* bounds the tokens that are granted

ASSUME RommSourceAssumption ==
    /\ IsFiniteSet(Requests) /\ PageSize \in Nat \ {0} /\ MaxRemoteGames \in Nat /\ MaxTokens \in Nat
    /\ \A a \in Accounts : \A c \in Catalogs[a] : c \in Seq(Nat) /\ IsInjective(c)

VARIABLES
    settings, index,   \* in the database
    cache,             \* the token of the client
    catalog,           \* catalog[a]: the games of the server of a
    accepted, granted, \* the tokens a server accepts; how many were granted
    at, task,          \* at[r], task[r]: where r is, and what it does
    own,               \* own[r]: the settings it has loaded, or is to save
    bearer,            \* bearer[r]: the token of its header
    games, offset,     \* games[r], offset[r]: what a refresh has read
    steady             \* steady[r]: the catalog has not changed since it began to read

client == <<cache>>
stored == <<settings, index>>
remote == <<catalog, accepted, granted>>
sourceVars == <<stored, client, remote, at, task, own, bearer, games, offset, steady>>

Modes == {"token", "basic"}
Settings == [account : Accounts, mode : Modes]
NoSettings == [account |-> "none", mode |-> "none"]
Token == [account : Accounts, n : 1..MaxTokens]
NoToken == [account |-> "none", n |-> 0]
RemoteGame == [account : Accounts, id : Nat]
NoIndex == [stored |-> FALSE, games |-> {}]
Tasks == {"refresh", "probe", "cover", "download", "save", "reset", "clear"}

SourceTypeOK ==
    /\ settings \in Settings \cup {NoSettings}
    /\ index.stored \in BOOLEAN /\ \A g \in index.games : g \in RemoteGame
    /\ cache \in Token \cup {NoToken}
    /\ (\A a \in Accounts : catalog[a] \in Catalogs[a]) /\ accepted \subseteq Token /\ granted \in 0..MaxTokens
    /\ at \in [Requests -> {"idle", "auth", "ask", "call", "refused", "replace", "store", "forget"}]
    /\ task \in [Requests -> Tasks \cup {"none"}]
    /\ own \in [Requests -> Settings \cup {NoSettings}]
    /\ bearer \in [Requests -> Token \cup {NoToken}]
    /\ \A r \in Requests : \A g \in games[r] : g \in RemoteGame
    /\ offset \in [Requests -> Nat] /\ steady \in [Requests -> BOOLEAN]
    /\ index.stored \/ index.games = {}

SourceInit ==
    /\ settings \in Settings \cup {NoSettings} /\ index = NoIndex /\ cache = NoToken
    /\ catalog \in [Accounts -> UNION {Catalogs[a] : a \in Accounts}]
    /\ \A a \in Accounts : catalog[a] \in Catalogs[a]
    /\ accepted = {} /\ granted = 0
    /\ at = [r \in Requests |-> "idle"] /\ task = [r \in Requests |-> "none"]
    /\ own = [r \in Requests |-> NoSettings] /\ bearer = [r \in Requests |-> NoToken]
    /\ games = [r \in Requests |-> {}] /\ offset = [r \in Requests |-> 0]
    /\ steady = [r \in Requests |-> FALSE]

-----------------------------------------------------------------------------
Reading == {"refresh", "probe", "cover", "download"}
Go(r, from, to) == at[r] = from /\ at' = [at EXCEPT ![r] = to]
Keep == UNCHANGED <<task, own, bearer, games, offset, steady>>

EndRequest(r) ==
    /\ at' = [at EXCEPT ![r] = "idle"] /\ task' = [task EXCEPT ![r] = "none"]
    /\ own' = [own EXCEPT ![r] = NoSettings] /\ bearer' = [bearer EXCEPT ![r] = NoToken]
    /\ games' = [games EXCEPT ![r] = {}] /\ offset' = [offset EXCEPT ![r] = 0]
    /\ steady' = [steady EXCEPT ![r] = FALSE]

(* Requests that use the server load the settings once. *)
Load(r) == \E t \in Reading :
    /\ settings # NoSettings /\ Go(r, "idle", "auth")
    /\ task' = [task EXCEPT ![r] = t] /\ own' = [own EXCEPT ![r] = settings]
    /\ steady' = [steady EXCEPT ![r] = t = "refresh"]
    /\ UNCHANGED <<stored, client, remote, bearer, games, offset>>

(* authorization: a token is looked up by its account, not by the secret. *)
MutCached(a) == cache # NoToken
Cached(a) == cache.account = a

Authorize(r) ==
    /\ IF own[r].mode = "token" /\ ~Cached(own[r].account)
       THEN Go(r, "auth", "ask") /\ UNCHANGED bearer
       ELSE /\ Go(r, "auth", "call")
            /\ bearer' = [bearer EXCEPT ![r] = IF own[r].mode = "token" THEN cache ELSE NoToken]
    /\ UNCHANGED <<stored, client, remote, task, own, games, offset, steady>>

(* request_token, whose answer is kept whatever happened since it was asked.*)
Grant(r) ==
    LET t == [account |-> own[r].account, n |-> granted + 1]
    IN  /\ granted < MaxTokens /\ granted' = granted + 1
        /\ accepted' = accepted \cup {t}
        /\ Go(r, "ask", "call") /\ cache' = t /\ bearer' = [bearer EXCEPT ![r] = t]
        /\ UNCHANGED <<stored, catalog, task, own, games, offset, steady>>

(* The server is down, slow or answers nonsense, or refuses the secret; or  *)
(* the client of the request disconnects.                                   *)
Abandon(r) ==
    /\ at[r] # "idle" /\ EndRequest(r) /\ UNCHANGED <<stored, client, remote>>

-----------------------------------------------------------------------------
(* A token that is refused is dropped by JSON requests, and by no others.   *)
Json(r) == task[r] # "download"
Refuse(r) ==
    /\ at[r] = "call"
    /\ own[r].mode = "token" => bearer[r] \notin accepted
    /\ IF Json(r) THEN Go(r, "call", "refused") /\ Keep ELSE EndRequest(r)
    /\ UNCHANGED <<stored, client, remote>>

ForgetRefused(r) ==
    /\ at[r] = "refused" /\ EndRequest(r) /\ cache' = NoToken
    /\ UNCHANGED <<stored, remote>>

Answers(r) == at[r] = "call" /\ (own[r].mode = "token" => bearer[r] \in accepted)

(* A probe is one request, and so is a download; a cover is the detail of   *)
(* its game, as JSON, and then the image.                                   *)
Answer(r) ==
    /\ Answers(r)
    /\ \/ task[r] \in {"probe", "download"} /\ EndRequest(r)
       \/ /\ task[r] = "cover" /\ at' = [at EXCEPT ![r] = "auth"]
          /\ task' = [task EXCEPT ![r] = "download"]
          /\ UNCHANGED <<own, bearer, games, offset, steady>>
    /\ UNCHANGED <<stored, client, remote>>

(* One page of the list; the platforms, read before, are left out.  A page  *)
(* that is not full is the last; a game met twice, or too many, is an error.*)
Page(a, from) == SubSeq(catalog[a], from + 1, Min({from + PageSize, Len(catalog[a])}))
MutLastPage(page) == Len(page) <= PageSize
LastPage(page) == Len(page) < PageSize

Source(r) == own[r].account

AnswerPage(r) ==
    LET page == Page(Source(r), offset[r])
        new == {[account |-> Source(r), id |-> page[i]] : i \in DOMAIN page}
    IN  /\ Answers(r) /\ task[r] = "refresh"
        /\ IF new \cap games[r] # {} \/ Len(catalog[Source(r)]) > MaxRemoteGames
           THEN EndRequest(r)
           ELSE /\ games' = [games EXCEPT ![r] = @ \cup new]
                /\ offset' = [offset EXCEPT ![r] = @ + PageSize]
                /\ at' = [at EXCEPT ![r] = IF LastPage(page) THEN "replace" ELSE "auth"]
                /\ UNCHANGED <<task, own, bearer, steady>>
        /\ UNCHANGED <<stored, client, remote>>

(* replace_index: one transaction. *)
ReplaceIndex(r) ==
    /\ at[r] = "replace" /\ EndRequest(r)
    /\ index' = [stored |-> TRUE, games |-> games[r]] /\ UNCHANGED <<settings, client, remote>>

-----------------------------------------------------------------------------
(* Saving: the index is dropped if the settings that were loaded differ in  *)
(* more than the secret; then the token is dropped.                         *)
LoadStored(r) == \E s \in Settings :
    /\ Go(r, "idle", "store") /\ own' = [own EXCEPT ![r] = s]
    /\ task' = [task EXCEPT ![r] = IF settings = s THEN "save" ELSE "reset"]
    /\ UNCHANGED <<stored, client, remote, bearer, games, offset, steady>>

Save(r) ==
    /\ task[r] \in {"save", "reset"} /\ Go(r, "store", "forget") /\ settings' = own[r]
    /\ index' = IF task[r] = "reset" THEN NoIndex ELSE index
    /\ UNCHANGED <<client, remote>> /\ Keep

Clear(r) ==
    /\ Go(r, "idle", "forget") /\ task' = [task EXCEPT ![r] = "clear"]
    /\ settings' = NoSettings /\ index' = NoIndex
    /\ UNCHANGED <<client, remote, own, bearer, games, offset, steady>>

ForgetToken(r) ==
    /\ at[r] = "forget" /\ EndRequest(r) /\ cache' = NoToken /\ UNCHANGED <<stored, remote>>

-----------------------------------------------------------------------------
(* The servers: their games change, their tokens are revoked; a token also  *)
(* expires for the client.                                                  *)
ChangeCatalog == \E a \in Accounts : \E c \in Catalogs[a] \ {catalog[a]} :
    /\ catalog' = [catalog EXCEPT ![a] = c]
    /\ steady' = [r \in Requests |-> steady[r] /\ own[r].account # a]
    /\ UNCHANGED <<stored, client, accepted, granted, at, task, own, bearer, games, offset>>

Revoke == \E t \in accepted :
    accepted' = accepted \ {t} /\ UNCHANGED <<stored, client, catalog, granted, at>> /\ Keep

Expire == cache # NoToken /\ cache' = NoToken /\ UNCHANGED <<stored, remote, at>> /\ Keep

Restart ==
    /\ at' = [r \in Requests |-> "idle"] /\ task' = [r \in Requests |-> "none"]
    /\ own' = [r \in Requests |-> NoSettings] /\ bearer' = [r \in Requests |-> NoToken]
    /\ games' = [r \in Requests |-> {}] /\ offset' = [r \in Requests |-> 0]
    /\ steady' = [r \in Requests |-> FALSE]
    /\ cache' = NoToken /\ UNCHANGED <<stored, remote>>

RequestStep(r) ==
    \/ Load(r) \/ Authorize(r) \/ Grant(r) \/ Abandon(r)
    \/ Refuse(r) \/ ForgetRefused(r) \/ Answer(r) \/ AnswerPage(r) \/ ReplaceIndex(r)
    \/ LoadStored(r) \/ Save(r) \/ Clear(r) \/ ForgetToken(r)

SourceNext == (\E r \in Requests : RequestStep(r)) \/ ChangeCatalog \/ Revoke \/ Expire \/ Restart

SourceSpec == SourceInit /\ [][SourceNext]_sourceVars

-----------------------------------------------------------------------------
(* A token is only ever sent to the server and for the user it was granted  *)
(* to, although one cache serves requests that loaded different settings.   *)
TokensStayHome == \A r \in Requests :
    at[r] = "call" /\ bearer[r] # NoToken => bearer[r].account = own[r].account

(* A refresh stores the list of one server, read page by page, and all of   *)
(* it if it did not change meanwhile.                                       *)
Listing(a) == {[account |-> a, id |-> catalog[a][i]] : i \in DOMAIN catalog[a]}
SnapshotsAreTrue == [][\A r \in Requests : ReplaceIndex(r) =>
    /\ \A g \in index'.games : g.account = own[r].account
    /\ steady[r] => index'.games = Listing(own[r].account)]_sourceVars
=============================================================================
