--------------------------- MODULE IntegrityJobs ---------------------------
(* Integrity jobs: a job hashes the files of a game or of the library one   *)
(* by one, replaces their matches with the entries of the imported DATs and *)
(* labels the games.  Jobs are rows of the database, of which one at most   *)
(* is active; every step of a request or of its task is one statement or    *)
(* transaction, and any of them may fail.  Meanwhile files change on disk,  *)
(* games are edited and deleted, DATs are imported, clients disconnect and  *)
(* the server is stopped and started.                                       *)
EXTENDS Naturals, Sequences, FiniteSets, SequencesExt

CONSTANTS
    Games, FileOrder,  \* the files of the library, in the order of a job
    Owner,             \* Owner[f]: the game of f (immutable; ids are never used again)
    Contents, Digests, \* Digests[c][k]: the hash of kind k of a content
    Dats, Entries,     \* Entries[d]: the ROM entries of d
    Declares,          \* Declares[e][k]: the checksum of kind k that e declares
    MaxJobs            \* bounds the jobs that are created

ASSUME IntegrityAssumption ==
    /\ MaxJobs \in Nat /\ IsFiniteSet(Games)
    /\ FileOrder \in Seq(DOMAIN Owner) /\ Owner \in [DOMAIN Owner -> Games]
    /\ Range(FileOrder) = DOMAIN Owner
    /\ "none" \notin Contents
    /\ Entries \in [Dats -> SUBSET DOMAIN Declares]
    /\ \A e \in DOMAIN Declares : DOMAIN Declares[e] \subseteq {"crc32", "md5", "sha1", "sha256"}

Jobs == 1..MaxJobs
Files == DOMAIN Owner

VARIABLES
    status,     \* status[j]: of the row of j
    todo,       \* todo[j]: its files that are not processed, as they were listed
    affected,   \* affected[j]: the games of its files that are not labelled
    scope,      \* scope[j]: all of its files
    step,       \* step[j]: where the request, then the task, of j is
    hand,       \* hand[j]: the hashes its task has in hand
    verdict,    \* verdict[j]: the game its task is labelling, and the label
    games,      \* the games of the library
    content,    \* content[f]: what is at its path if it can be read
    hash,       \* hash[f]: the hashes of its row
    checked,    \* checked[f]: hash_status of its row
    matches,    \* matches[f]: its matches
    imported,   \* the DATs that are imported
    label,      \* label[g]: metadata.integrity.status of g
    edit,       \* the edit in progress: its game, and the label it has read
    restored    \* the games whose label an edit has put back to an older one

work == <<todo, affected, scope, hand, verdict>>
rows == <<hash, checked, matches>>
library == <<games, content, imported>>
metadata == <<label, edit, restored>>
vars == <<status, work, step, library, rows, metadata>>

Active == {"queued", "running"}
Requesting == {"list", "total"}
Tasked == {"mark", "next", "read", "save", "clear", "match", "label", "fail"}
Labels == {"none", "unmatched", "verified"}
NoLabel == [game |-> "none", label |-> "none"]

(* Every file belongs to a game that exists, or to none that ever will.     *)
TypeOK ==
    /\ status \in [Jobs -> {"absent", "completed", "failed"} \cup Active]
    /\ step \in [Jobs -> {"none", "gone"} \cup Requesting \cup Tasked]
    /\ todo \in [Jobs -> Seq([file : Files, known : Contents \cup {"none"}])]
    /\ affected \in [Jobs -> SUBSET Games] /\ scope \in [Jobs -> SUBSET Files]
    /\ hand \in [Jobs -> Contents \cup {"none"}]
    /\ verdict \in [Jobs -> [game : Games, label : Labels] \cup {NoLabel}]
    /\ games \subseteq Games
    /\ content \in [Files -> Contents]
    /\ hash \in [Files -> Contents \cup {"none"}]
    /\ checked \in [Files -> {"pending", "hashing", "complete", "failed"}]
    /\ matches \in [Files -> SUBSET DOMAIN Declares]
    /\ imported \subseteq Dats
    /\ label \in [Games -> Labels] /\ restored \subseteq Games
    /\ edit \in [game : Games, label : Labels] \cup {NoLabel}
    \* Stored hashes are complete, and rows go with their game.
    /\ \A f \in Files : checked[f] = "complete" => hash[f] \in Contents
    /\ \A f \in Files : Owner[f] \notin games => matches[f] = {}

Init ==
    /\ status = [j \in Jobs |-> "absent"] /\ step = [j \in Jobs |-> "none"]
    /\ todo = [j \in Jobs |-> <<>>] /\ affected = [j \in Jobs |-> {}]
    /\ scope = [j \in Jobs |-> {}] /\ hand = [j \in Jobs |-> "none"]
    /\ verdict = [j \in Jobs |-> NoLabel]
    /\ games = Games /\ content \in [Files -> Contents]
    /\ hash = [f \in Files |-> "none"] /\ checked = [f \in Files |-> "pending"]
    /\ matches = [f \in Files |-> {}] /\ imported = {}
    /\ label = [g \in Games |-> "none"] /\ edit = NoLabel /\ restored = {}

-----------------------------------------------------------------------------
Exists(f) == Owner[f] \in games
Go(j, from, to) == step[j] = from /\ step' = [step EXCEPT ![j] = to]

(* A malformed checksum is as good as none, and an entry without any is     *)
(* skipped.                                                                 *)
Checksums(e) == {k \in DOMAIN Declares[e] : Declares[e][k] # "malformed"}
Supported(d) == {e \in Entries[d] : Checksums(e) # {}}

(* All that e declares agrees.  (A declared size is compared with the size  *)
(* of the row, which never changes.)                                        *)
Agrees(e, c) == \A k \in Checksums(e) : Digests[c][k] = Declares[e][k]

(* The matches of a content: of the DATs imported by now. *)
Agreeing(c) == {e \in UNION {Supported(d) : d \in imported} : Agrees(e, c)}

-----------------------------------------------------------------------------
(* The request.  While a job is active, a request returns that one instead: *)
(* INSERT OR IGNORE meets the partial unique index.                         *)
MutNoIndex == TRUE
MayInsert == \A j \in Jobs : status[j] \notin Active

CreateJob(j) ==
    /\ MayInsert
    /\ \A i \in Jobs : i < j <=> status[i] # "absent"
    /\ status' = [status EXCEPT ![j] = "queued"]
    /\ Go(j, "none", "list")
    /\ UNCHANGED <<work, library, rows, metadata>>

(* files_for_job: of one game or of all, in their order, as they are now; a *)
(* forced job rereads every file.                                           *)
Chosen(g) == {i \in DOMAIN FileOrder : Exists(FileOrder[i]) /\ g \in {"all", Owner[FileOrder[i]]}}

Known(f, force) == IF ~force /\ checked[f] = "complete" THEN hash[f] ELSE "none"

Ascending(order) == \A i, k \in DOMAIN order : i < k => order[i] < order[k]

Listed(g, force) ==
    {[i \in DOMAIN order |-> [file |-> FileOrder[order[i]], known |-> Known(FileOrder[order[i]], force)]] :
        order \in {o \in [1..Cardinality(Chosen(g)) -> Chosen(g)] : Range(o) = Chosen(g) /\ Ascending(o)}}

ListFiles(j) ==
    /\ Go(j, "list", "total")
    /\ \E g \in Games \cup {"all"}, force \in BOOLEAN :
          \E listed \in Listed(g, force) : todo' = [todo EXCEPT ![j] = listed]
    /\ scope' = [scope EXCEPT ![j] = {row.file : row \in Range(todo'[j])}]
    /\ UNCHANGED <<status, affected, hand, verdict, library, rows, metadata>>

(* set_job_total, after which the task is spawned. *)
Launch(j) ==
    /\ Go(j, "total", "mark")
    /\ UNCHANGED <<status, work, library, rows, metadata>>

(* The client is gone, or a statement fails and fail_job fails as well: the *)
(* row stays active, without a task, until a restart.                       *)
Abandon(j) ==
    /\ step[j] \in Requesting
    /\ Go(j, step[j], "gone")
    /\ UNCHANGED <<status, work, library, rows, metadata>>

-----------------------------------------------------------------------------
(* The task *)

MarkRunning(j) ==
    /\ Go(j, "mark", "next")
    /\ status' = [status EXCEPT ![j] = "running"]
    /\ UNCHANGED <<work, library, rows, metadata>>

File(j) == Head(todo[j]).file

(* A statement about a row that was deleted changes nothing. *)
Update(f, column, value) == IF Exists(f) THEN [column EXCEPT ![f] = value] ELSE column

(* The next file, whose hashes are known or are to be computed. *)
NextFile(j) ==
    /\ todo[j] # <<>>
    /\ affected' = [affected EXCEPT ![j] = @ \cup {Owner[File(j)]}]
    /\ LET known == Head(todo[j]).known IN
         \/ /\ known # "none" /\ Go(j, "next", "match")
            /\ hand' = [hand EXCEPT ![j] = known] /\ UNCHANGED checked
         \/ /\ known = "none" /\ Go(j, "next", "read")
            /\ checked' = Update(File(j), checked, "hashing") /\ UNCHANGED hand
    /\ UNCHANGED <<status, todo, scope, verdict, library, hash, matches, metadata>>

(* open_existing and hash_file, which read what is there now, if anything;  *)
(* after an error the file is marked.                                       *)
ReadFile(j) ==
    /\ \/ /\ Go(j, "read", "save")
          /\ hand' = [hand EXCEPT ![j] = content[File(j)]] /\ UNCHANGED checked
       \/ /\ Go(j, "read", "clear")
          /\ checked' = Update(File(j), checked, "failed") /\ UNCHANGED hand
    /\ UNCHANGED <<status, todo, affected, scope, verdict, library, hash, matches, metadata>>

SaveHashes(j) ==
    /\ Go(j, "save", "match")
    /\ hash' = Update(File(j), hash, hand[j])
    /\ checked' = Update(File(j), checked, "complete")
    /\ UNCHANGED <<status, work, library, matches, metadata>>

(* advance_job follows: only those who poll the job see its counters.       *)
Advance(j) ==
    /\ todo' = [todo EXCEPT ![j] = Tail(@)]
    /\ hand' = [hand EXCEPT ![j] = "none"]
    /\ UNCHANGED <<status, affected, scope, verdict, library, hash, checked, metadata>>

ClearMatches(j) ==
    /\ Go(j, "clear", "next")
    /\ matches' = [matches EXCEPT ![File(j)] = {}]
    /\ Advance(j)

(* replace_file_matches, one transaction: a match of a file that is gone    *)
(* has no parent row, which fails the job.                                  *)
ReplaceMatches(j) ==
    LET found == Agreeing(hand[j]) IN
    /\ Go(j, "match", "next")
    /\ Exists(File(j)) \/ found = {}
    /\ matches' = Update(File(j), matches, found)
    /\ Advance(j)

(* apply_authoritative_dat_metadata reads the matches and then the whole    *)
(* metadata of the game, which it writes back with the label.               *)
Verdict(g) ==
    IF \E f \in Files : Owner[f] = g /\ matches[f] # {} THEN "verified" ELSE "unmatched"

(* What the report of a game says. *)
Report(g) ==
    LET of == {f \in Files : Owner[f] = g} IN
    CASE \E f \in of : matches[f] # {} -> "verified"
      [] (\A f \in of : matches[f] = {}) /\ (\E f \in of : checked[f] = "failed") -> "failed"
      [] \A f \in of : matches[f] = {} /\ checked[f] = "complete" -> "unmatched"
      [] OTHER -> "pending"

ReadMatches(j, g) ==
    /\ todo[j] = <<>> /\ g \in affected[j] /\ g \in games
    /\ Go(j, "next", "label")
    /\ verdict' = [verdict EXCEPT ![j] = [game |-> g, label |-> Verdict(g)]]
    /\ UNCHANGED <<status, todo, affected, scope, hand, library, rows, metadata>>

LabelGame(j) ==
    LET g == verdict[j].game IN
    /\ Go(j, "label", "next") /\ g \in games
    /\ verdict' = [verdict EXCEPT ![j] = NoLabel]
    /\ label' = [label EXCEPT ![g] = verdict[j].label]
    /\ restored' = restored \ {g}
    /\ affected' = [affected EXCEPT ![j] = @ \ {g}]
    /\ UNCHANGED <<status, todo, scope, hand, library, rows, edit>>

(* The row is completed at last, or failed: by a statement, or because a    *)
(* game or a file is gone.                                                  *)
End(j, result) ==
    /\ status' = [status EXCEPT ![j] = result]
    /\ hand' = [hand EXCEPT ![j] = "none"] /\ verdict' = [verdict EXCEPT ![j] = NoLabel]
    /\ todo' = [todo EXCEPT ![j] = <<>>]
    /\ affected' = [affected EXCEPT ![j] = {}] /\ scope' = [scope EXCEPT ![j] = {}]
    /\ UNCHANGED <<library, rows, metadata>>

MutCompleteEarly(j) ==
    /\ todo[j] = <<>> /\ status[j] = "running"
    /\ Go(j, "next", IF affected[j] = {} THEN "gone" ELSE "next")
    /\ status' = [status EXCEPT ![j] = "completed"]
    /\ UNCHANGED <<work, library, rows, metadata>>
Complete(j) ==
    /\ todo[j] = <<>> /\ affected[j] = {}
    /\ Go(j, "next", "gone")
    /\ End(j, "completed")

Stumble(j) ==
    /\ step[j] \in Tasked \ {"fail"}
    /\ Go(j, step[j], "fail")
    /\ UNCHANGED <<status, work, library, rows, metadata>>

FailJob(j) ==
    /\ step[j] \in Requesting \cup {"fail"} /\ Go(j, step[j], "gone")
    /\ End(j, "failed")

(* fail_job fails too and is logged. *)
GiveUp(j) ==
    /\ Go(j, "fail", "gone")
    /\ UNCHANGED <<status, work, library, rows, metadata>>

Request(j) == CreateJob(j) \/ ListFiles(j) \/ Launch(j) \/ Abandon(j)

Task(j) ==
    \/ MarkRunning(j) \/ NextFile(j) \/ ReadFile(j) \/ SaveHashes(j)
    \/ ClearMatches(j) \/ ReplaceMatches(j)
    \/ (\E g \in Games : ReadMatches(j, g)) \/ LabelGame(j)
    \/ Complete(j) \/ Stumble(j) \/ FailJob(j) \/ GiveUp(j)

-----------------------------------------------------------------------------
(* Everyone else *)

(* Files change behind the back of the server. *)
ChangeFile(f) ==
    /\ \E c \in Contents : content' = [content EXCEPT ![f] = c]
    /\ UNCHANGED <<status, work, step, games, imported, rows, metadata>>

(* A game is deleted with its files and all the rows that refer to it.      *)
DeleteGame(g) ==
    /\ g \in games /\ games' = games \ {g}
    /\ matches' = [f \in Files |-> IF Owner[f] = g THEN {} ELSE matches[f]]
    /\ UNCHANGED <<status, work, step, content, imported, hash, checked, metadata>>

AlreadyImported(d) == d \in imported

(* import_dat: the source and its entries in one transaction, unless these  *)
(* bytes are imported already (of two imports at a time one is an error).   *)
ImportDat(d) ==
    /\ Supported(d) # {} /\ ~AlreadyImported(d)
    /\ imported' = imported \cup {d}
    /\ UNCHANGED <<status, work, step, games, content, rows, metadata>>

(* update_rom reads the whole metadata of a game and writes it back.        *)
BeginEdit(g) ==
    /\ edit = NoLabel /\ g \in games
    /\ edit' = [game |-> g, label |-> label[g]]
    /\ UNCHANGED <<status, work, step, library, rows, label, restored>>

EndEdit ==
    /\ edit # NoLabel /\ edit' = NoLabel
    /\ IF edit.game \in games
         THEN /\ label' = [label EXCEPT ![edit.game] = edit.label]
              /\ restored' = IF label[edit.game] = edit.label THEN restored
                               ELSE restored \cup {edit.game}
         ELSE UNCHANGED <<label, restored>>
    /\ UNCHANGED <<status, work, step, library, rows>>

(* The server stops anywhere; a start fails what was interrupted.           *)
Restart ==
    /\ status' = [j \in Jobs |-> IF status[j] \in Active THEN "failed" ELSE status[j]]
    /\ step' = [j \in Jobs |-> IF step[j] = "none" THEN "none" ELSE "gone"]
    /\ todo' = [j \in Jobs |-> <<>>] /\ affected' = [j \in Jobs |-> {}]
    /\ hand' = [j \in Jobs |-> "none"] /\ verdict' = [j \in Jobs |-> NoLabel]
    /\ scope' = [j \in Jobs |-> {}] /\ edit' = NoLabel
    /\ UNCHANGED <<library, rows, label, restored>>

Next ==
    \/ \E j \in Jobs : Request(j) \/ Task(j)
    \/ \E f \in Files : ChangeFile(f)
    \/ \E g \in Games : DeleteGame(g) \/ BeginEdit(g)
    \/ \E d \in Dats : ImportDat(d)
    \/ EndEdit \/ Restart

Spec == Init /\ [][Next]_vars

-----------------------------------------------------------------------------
(* Properties *)

(* At most one job works at a time, and its row is active: it is never      *)
(* completed, failed or replaced while its task still writes hashes,        *)
(* matches or labels (repositories/integrity.rs: admission control).        *)
Works(j) == step[j] \notin {"none", "gone"}

OneJobWorks ==
    /\ \A j \in Jobs : Works(j) => status[j] \in Active
    /\ \A i, j \in Jobs : Works(i) /\ Works(j) => i = j

(* When a job is completed, every file of it that is still there has been   *)
(* read or has failed; a failed one has no matches, a complete one the      *)
(* matches of its stored hashes and no others; the report of its game is    *)
(* final, and the label agrees with it unless an edit put an older one back. *)
CompletedJobsAreTrue ==
    [][\A j \in Jobs : status[j] # "completed" /\ status'[j] = "completed" =>
          \A f \in scope[j] : Exists(f) =>
             /\ checked[f] \in {"complete", "failed"}
             /\ checked[f] = "failed" => matches[f] = {}
             /\ \A e \in matches[f] : Agrees(e, hash[f])
             /\ Report(Owner[f]) # "pending"
             /\ \/ Owner[f] \in restored
                \/ label[Owner[f]] = "verified" <=> Report(Owner[f]) = "verified"]_vars
=============================================================================
