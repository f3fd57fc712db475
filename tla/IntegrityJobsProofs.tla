------------------------ MODULE IntegrityJobsProofs ------------------------
(* For any library, DATs and number of jobs: at most one job works, its row *)
(* is active, and a completed job leaves rows that agree.  The first rests  *)
(* on the partial unique index, and on the fact that a request or task      *)
(* never outlives its row; the second also on what a task at each of its    *)
(* steps knows about the rows of the file it has in hand.  The second half  *)
(* is about the scan of the managed library: for any root, planner that     *)
(* keeps its contract and users, every file gets one disposition, the files *)
(* of the catalog are there, games are added whole, and no folder that      *)
(* describes a game is left out.                                            *)
EXTENDS IntegrityJobs, LibraryScan, FiniteSetTheorems, WellFoundedInduction, TLAPS

USE IntegrityAssumption

Typed ==
    /\ status \in [Jobs -> {"absent", "completed", "failed"} \cup Active]
    /\ step \in [Jobs -> {"none", "gone"} \cup Requesting \cup Tasked]

OneActive == \A i, j \in Jobs : status[i] \in Active /\ status[j] \in Active => i = j

WorksOnActive == \A j \in Jobs : Works(j) => status[j] \in Active

Inv == Typed /\ OneActive /\ WorksOnActive

LEMMA InvImpliesOneJobWorks == Inv => OneJobWorks
BY DEF Inv, OneActive, WorksOnActive, OneJobWorks

(* A step of the request or task of j after its creation: its row stays     *)
(* active, or both end.                                                     *)
Proceeds(j) ==
    /\ Works(j)
    /\ \E to \in {"gone"} \cup Requesting \cup Tasked : step' = [step EXCEPT ![j] = to]
    /\ \/ UNCHANGED status
       \/ status' = [status EXCEPT ![j] = "running"]
       \/ /\ step' = [step EXCEPT ![j] = "gone"]
          /\ \E result \in {"completed", "failed"} : status' = [status EXCEPT ![j] = result]

LEMMA WorkKeepsInv ==
    ASSUME Inv, NEW j \in Jobs, Proceeds(j)
    PROVE  Inv'
BY DEF Inv, Proceeds, Works, Typed, OneActive, WorksOnActive, Active, Requesting, Tasked

LEMMA InitEstablishesInv == Init => Inv
BY DEF Init, Inv, Typed, OneActive, WorksOnActive, Works, Active

LEMMA CreateKeepsInv ==
    ASSUME Inv, NEW j \in Jobs, CreateJob(j)
    PROVE  Inv'
BY DEF CreateJob, MayInsert, Go, Inv, Typed, OneActive, WorksOnActive, Works, Active, Requesting,
       Tasked

LEMMA RequestAndTaskWork ==
    ASSUME NEW j \in Jobs, ~CreateJob(j), Request(j) \/ Task(j)
    PROVE  Proceeds(j)
<1> USE DEF Go, Proceeds, Works, Requesting, Tasked
<1>1. CASE ListFiles(j) \/ Launch(j) \/ Abandon(j)
  BY <1>1 DEF ListFiles, Launch, Abandon
<1>2. CASE MarkRunning(j) \/ NextFile(j) \/ ReadFile(j) \/ SaveHashes(j)
  BY <1>2 DEF MarkRunning, NextFile, ReadFile, SaveHashes
<1>3. CASE ClearMatches(j) \/ ReplaceMatches(j)
  BY <1>3 DEF ClearMatches, ReplaceMatches, Advance
<1>4. ASSUME NEW g \in Games, ReadMatches(j, g)
      PROVE  Proceeds(j)
  BY <1>4 DEF ReadMatches
<1>5. CASE LabelGame(j) \/ Stumble(j) \/ GiveUp(j)
  BY <1>5 DEF LabelGame, Stumble, GiveUp
<1>6. CASE Complete(j) \/ FailJob(j)
  BY <1>6 DEF Complete, FailJob, End
<1> QED
  BY <1>1, <1>2, <1>3, <1>4, <1>5, <1>6 DEF Request, Task

LEMMA OthersKeepInv ==
    ASSUME Inv, UNCHANGED <<status, step>> \/ Restart
    PROVE  Inv'
<1>1. CASE UNCHANGED <<status, step>>
  BY <1>1 DEF Inv, Typed, OneActive, WorksOnActive, Works
<1>2. CASE Restart
  BY <1>2 DEF Restart, Inv, Typed, OneActive, WorksOnActive, Works, Active
<1> QED
  BY <1>1, <1>2

LEMMA NextKeepsInv == Inv /\ [Next]_vars => Inv'
<1> SUFFICES ASSUME Inv, [Next]_vars
             PROVE  Inv'
  OBVIOUS
<1>1. ASSUME NEW j \in Jobs, Request(j) \/ Task(j)
      PROVE  Inv'
  BY <1>1, CreateKeepsInv, RequestAndTaskWork, WorkKeepsInv
<1>2. ASSUME NEW f \in Files, ChangeFile(f)
      PROVE  Inv'
  BY <1>2, OthersKeepInv DEF ChangeFile
<1>3. ASSUME NEW g \in Games, DeleteGame(g) \/ BeginEdit(g)
      PROVE  Inv'
  BY <1>3, OthersKeepInv DEF DeleteGame, BeginEdit
<1>4. ASSUME NEW d \in Dats, ImportDat(d)
      PROVE  Inv'
  BY <1>4, OthersKeepInv DEF ImportDat
<1>5. CASE EndEdit \/ Restart \/ UNCHANGED vars
  BY <1>5, OthersKeepInv DEF EndEdit, vars
<1> QED
  BY <1>1, <1>2, <1>3, <1>4, <1>5 DEF Next

(* No two jobs ever work at a time, and the row of the one that does is     *)
(* active.                                                                  *)
THEOREM IntegrityJobsExclude == Spec => []OneJobWorks
BY InitEstablishesInv, NextKeepsInv, InvImpliesOneJobWorks, PTL DEF Spec

-----------------------------------------------------------------------------
(* A completed job is true.  From the listing on, a file of the job that is *)
(* still there is to be processed or settled; a game of such a file has a   *)
(* file to be processed, or waits for its label, or has it; and at each     *)
(* step the task knows what the rows say of the file it has in hand.        *)

Row == [file : Files, known : Contents \cup {"none"}]

Columns ==
    /\ todo \in [Jobs -> Seq(Row)]
    /\ affected \in [Jobs -> SUBSET Games] /\ scope \in [Jobs -> SUBSET Files]
    /\ hand \in [Jobs -> Contents \cup {"none"}]
    /\ verdict \in [Jobs -> [game : Games, label : Labels] \cup {NoLabel}]
    /\ games \subseteq Games /\ content \in [Files -> Contents]
    /\ hash \in [Files -> Contents \cup {"none"}]
    /\ checked \in [Files -> {"pending", "hashing", "complete", "failed"}]
    /\ matches \in [Files -> SUBSET DOMAIN Declares]
    /\ imported \subseteq Dats /\ label \in [Games -> Labels]
    /\ edit \in [game : Games, label : Labels] \cup {NoLabel}

Busy(j) == step[j] \in {"total"} \cup (Tasked \ {"fail"})

Awaits(j, f) == \E row \in Range(todo[j]) : row.file = f

Settled(f) ==
    /\ checked[f] \in {"complete", "failed"}
    /\ checked[f] = "failed" => matches[f] = {}
    /\ \A e \in matches[f] : Agrees(e, hash[f])

Matched(g) == \E f \in Files : Owner[f] = g /\ matches[f] # {}

Labelled(g) == g \in restored \/ (label[g] = "verified" <=> Matched(g))

(* Of a game that is in the scope, every file is. *)
WholeGames(j) ==
    \A f \in scope[j], other \in Files : Exists(f) /\ Owner[other] = Owner[f] => other \in scope[j]

(* A row of the list still says what the database says, and the rows of one *)
(* file say the same.                                                       *)
RowsFresh(j) ==
    /\ \A row \in Range(todo[j]) : Exists(row.file) /\ row.known # "none" =>
          checked[row.file] = "complete" /\ hash[row.file] = row.known
    /\ \A r1, r2 \in Range(todo[j]) : r1.file = r2.file => r1 = r2

FilesSettle(j) ==
    \A f \in scope[j] : Exists(f) =>
        /\ Awaits(j, f) \/ Settled(f)
        /\ \/ Awaits(j, f) \/ Owner[f] \in affected[j]
           \/ todo[j] = <<>> /\ Labelled(Owner[f])

InHand(j) ==
    /\ step[j] \in {"read", "save", "clear", "match"} =>
          todo[j] # <<>> /\ Owner[File(j)] \in affected[j]
    /\ step[j] \in {"read", "save", "clear"} => Head(todo[j]).known = "none"
    /\ step[j] = "clear" /\ Exists(File(j)) => checked[File(j)] = "failed"
    /\ step[j] = "match" /\ Exists(File(j)) =>
          checked[File(j)] = "complete" /\ hash[File(j)] = hand[j]
    /\ step[j] = "label" =>
          /\ todo[j] = <<>> /\ verdict[j].game \in Games
          /\ verdict[j].game \in games => verdict[j].label = Verdict(verdict[j].game)

Truthful(j) == WholeGames(j) /\ RowsFresh(j) /\ FilesSettle(j) /\ InHand(j)

TruthInv == Inv /\ Columns /\ \A j \in Jobs : Busy(j) => Truthful(j)

LEMMA TailOf ==
    ASSUME NEW S, NEW s \in Seq(S), s # <<>>
    PROVE  /\ Head(s) \in S /\ Tail(s) \in Seq(S)
           /\ Head(s) \in Range(s) /\ Range(s) = {Head(s)} \cup Range(Tail(s))
<1>1. Len(s) \in Nat \ {0} /\ DOMAIN s = 1..Len(s) /\ DOMAIN Tail(s) = 1..(Len(s) - 1)
  OBVIOUS
<1>2. Head(s) = s[1] /\ Head(s) \in S /\ Tail(s) \in Seq(S) /\ \A i \in DOMAIN Tail(s) : Tail(s)[i] = s[i + 1]
  OBVIOUS
<1>3. \A i \in DOMAIN s : i = 1 \/ (i - 1 \in DOMAIN Tail(s) /\ s[i] = Tail(s)[i - 1])
  BY <1>1, <1>2
<1>4. \A i \in DOMAIN Tail(s) : i + 1 \in DOMAIN s
  BY <1>1
<1>5. 1 \in DOMAIN s
  BY <1>1
<1>6. ASSUME NEW x \in Range(s) PROVE x = Head(s) \/ x \in Range(Tail(s))
  <2>1. PICK i \in DOMAIN s : x = s[i]
    BY <1>6 DEF Range
  <2> QED BY <1>2, <1>3, <2>1 DEF Range
<1>7. ASSUME NEW x \in Range(Tail(s)) PROVE x \in Range(s)
  <2>1. PICK i \in DOMAIN Tail(s) : x = Tail(s)[i]
    BY <1>7 DEF Range
  <2> QED BY <1>2, <1>4, <2>1 DEF Range
<1>8. Head(s) \in Range(s)
  BY <1>2, <1>5 DEF Range
<1> QED BY <1>2, <1>6, <1>7, <1>8

LEMMA RowsTyped ==
    ASSUME Columns, NEW j \in Jobs
    PROVE  Range(todo[j]) \subseteq Row
BY DEF Columns, Range

(* The listing has a row for every file that was chosen, and no others.     *)
LEMMA ListedRows ==
    ASSUME Columns, NEW g, NEW force \in BOOLEAN, NEW listed \in Listed(g, force)
    PROVE  /\ listed \in Seq(Row)
           /\ Range(listed) = {[file |-> f, known |-> Known(f, force)] :
                               f \in {f \in Files : Exists(f) /\ g \in {"all", Owner[f]}}}
<1>1. PICK order \in [1..Cardinality(Chosen(g)) -> Chosen(g)] :
        /\ Range(order) = Chosen(g)
        /\ listed = [i \in DOMAIN order |->
                       [file |-> FileOrder[order[i]], known |-> Known(FileOrder[order[i]], force)]]
  BY DEF Listed
<1>2. /\ Chosen(g) \subseteq 1..Len(FileOrder) /\ Len(FileOrder) \in Nat
      /\ \A i \in Chosen(g) : FileOrder[i] \in Files
      /\ DOMAIN FileOrder = 1..Len(FileOrder)
  BY DEF Chosen, Files
<1>3. Cardinality(Chosen(g)) \in Nat
  <2>1. IsFiniteSet(1..Len(FileOrder))
    BY <1>2, FS_Interval
  <2> QED BY <1>2, <2>1, FS_Subset, FS_CardinalityType
<1>4. \A f \in Files : Known(f, force) \in Contents \cup {"none"}
  BY DEF Known, Columns
<1>5. listed \in [1..Cardinality(Chosen(g)) -> Row]
  BY <1>1, <1>2, <1>4 DEF Row
<1>6. {FileOrder[i] : i \in Chosen(g)} = {f \in Files : Exists(f) /\ g \in {"all", Owner[f]}}
  BY DEF Chosen, Range, Files
<1> DEFINE RowOf(f) == [file |-> f, known |-> Known(f, force)]
<1>7. Range(listed) = {RowOf(FileOrder[i]) : i \in Chosen(g)}
  <2>1. Range(listed) = {RowOf(FileOrder[order[i]]) : i \in DOMAIN order}
    BY <1>1 DEF Range
  <2>2. {order[i] : i \in DOMAIN order} = Chosen(g)
    BY <1>1 DEF Range
  <2> HIDE DEF RowOf
  <2>3. ASSUME NEW i \in Chosen(g) PROVE \E n \in DOMAIN order : order[n] = i
    BY <2>2
  <2>4. \A n \in DOMAIN order : order[n] \in Chosen(g)
    BY <2>2
  <2>5. ASSUME NEW x \in Range(listed) PROVE x \in {RowOf(FileOrder[i]) : i \in Chosen(g)}
    BY <2>1, <2>4, <2>5
  <2>6. ASSUME NEW i \in Chosen(g) PROVE RowOf(FileOrder[i]) \in Range(listed)
    BY <2>1, <2>3
  <2> QED BY <2>5, <2>6
<1>8. {RowOf(FileOrder[i]) : i \in Chosen(g)} = {RowOf(f) : f \in {f \in Files : Exists(f) /\ g \in {"all", Owner[f]}}}
  <2> HIDE DEF RowOf
  <2> QED BY <1>6
<1>9. listed \in Seq(Row)
  BY <1>3, <1>5
<1>10. Range(listed) = {RowOf(f) : f \in {f \in Files : Exists(f) /\ g \in {"all", Owner[f]}}}
  <2> HIDE DEF RowOf
  <2> QED BY <1>7, <1>8
<1> QED BY <1>9, <1>10

LEMMA VerdictLabels == \A g : Verdict(g) \in Labels /\ (Verdict(g) = "verified" <=> Matched(g))
BY DEF Verdict, Labels, Matched

LEMMA AgreeingEntries ==
    ASSUME Columns, NEW c
    PROVE  Agreeing(c) \subseteq DOMAIN Declares /\ \A e \in Agreeing(c) : Agrees(e, c)
<1>1. \A d \in imported \cap Dats : Supported(d) \subseteq DOMAIN Declares
  BY DEF Supported
<1>2. Agreeing(c) \subseteq UNION {Supported(d) : d \in imported}
  BY DEF Agreeing
<1> QED BY <1>1, <1>2 DEF Agreeing, Columns

LEMMA ColumnsInit == Init => Columns
<1> SUFFICES ASSUME Init PROVE Columns
  OBVIOUS
<1>1. <<>> \in Seq(Row)
  OBVIOUS
<1> QED BY <1>1 DEF Init, Columns, Labels

LEMMA ColumnsByWork ==
    ASSUME Inv, Columns, NEW j \in Jobs, Busy(j) => Truthful(j), Request(j) \/ Task(j)
    PROVE  Columns'
<1> USE DEF Columns
<1>1. CASE ListFiles(j)
  <2>0. PICK g \in Games \cup {"all"}, force \in BOOLEAN :
          \E listed \in Listed(g, force) : todo' = [todo EXCEPT ![j] = listed]
    BY <1>1 DEF ListFiles
  <2>1. PICK listed \in Listed(g, force) : todo' = [todo EXCEPT ![j] = listed]
    BY <2>0
  <2>2. listed \in Seq(Row)
    BY <2>1, ListedRows
  <2>3. Range(todo'[j]) = Range(listed) /\ \A row \in Range(listed) : row \in Row
    BY <2>1, <2>2 DEF Range
  <2>4. scope' \in [Jobs -> SUBSET Files]
    BY <1>1, <2>3 DEF ListFiles, Row
  <2> QED BY <1>1, <2>1, <2>2, <2>4 DEF ListFiles, library, rows, metadata
<1>2. CASE CreateJob(j) \/ Launch(j) \/ Abandon(j) \/ MarkRunning(j) \/ Stumble(j) \/ GiveUp(j)
  BY <1>2 DEF CreateJob, Launch, Abandon, MarkRunning, Stumble, GiveUp, work, library, rows, metadata
<1>3. CASE NextFile(j)
  <2>1. Head(todo[j]) \in Row
    BY <1>3, TailOf DEF NextFile
  <2>2. File(j) \in Files /\ Head(todo[j]).known \in Contents \cup {"none"} /\ Owner[File(j)] \in Games
    BY <2>1 DEF Row, File, Files
  <2> QED BY <1>3, <2>2 DEF NextFile, Update, library, metadata
<1>4. CASE ReadFile(j) \/ SaveHashes(j) \/ ClearMatches(j) \/ ReplaceMatches(j)
  <2>0. step[j] \in {"read", "save", "clear", "match"}
    BY <1>4 DEF ReadFile, SaveHashes, ClearMatches, ReplaceMatches, Go
  <2>1. todo[j] # <<>>
    BY <2>0 DEF Busy, Tasked, Truthful, InHand
  <2>2. Head(todo[j]) \in Row /\ Tail(todo[j]) \in Seq(Row)
    BY <2>1, TailOf
  <2>3. File(j) \in Files /\ content[File(j)] \in Contents
    BY <2>2 DEF Row, File
  <2>4. ASSUME ReadFile(j) PROVE Columns'
    BY <2>3, <2>4 DEF ReadFile, Update, library, metadata
  <2>5. ASSUME SaveHashes(j) PROVE Columns'
    BY <2>3, <2>5 DEF SaveHashes, Update, library, metadata, work
  <2>6. ASSUME ClearMatches(j) \/ ReplaceMatches(j) PROVE Columns'
    <3>1. matches' \in [Files -> SUBSET DOMAIN Declares]
      <4>1. Agreeing(hand[j]) \in SUBSET DOMAIN Declares
        BY AgreeingEntries
      <4>2. matches' = [matches EXCEPT ![File(j)] = {}] \/ matches' = Update(File(j), matches, Agreeing(hand[j]))
        BY <2>6 DEF ClearMatches, ReplaceMatches
      <4> QED BY <4>1, <4>2 DEF Update
    <3>2. Advance(j)
      BY <2>6 DEF ClearMatches, ReplaceMatches
    <3>3. todo' \in [Jobs -> Seq(Row)]
      BY <2>2, <3>2 DEF Advance
    <3>4. hand' \in [Jobs -> Contents \cup {"none"}]
      BY <3>2 DEF Advance
    <3>5. /\ affected' = affected /\ scope' = scope /\ verdict' = verdict /\ games' = games
          /\ content' = content /\ imported' = imported /\ hash' = hash /\ checked' = checked
          /\ label' = label /\ edit' = edit
      BY <3>2 DEF Advance, library, metadata
    <3> QED BY ONLY Columns, <3>1, <3>3, <3>4, <3>5 DEF Columns
  <2> QED BY <1>4, <2>4, <2>5, <2>6
<1>5. ASSUME NEW g \in Games, ReadMatches(j, g)
      PROVE  Columns'
  BY <1>5, VerdictLabels DEF ReadMatches, library, rows, metadata
<1>6. CASE LabelGame(j)
  <2>1. verdict[j] \in [game : Games, label : Labels] \cup {NoLabel} /\ verdict[j].label \in Labels
    BY DEF NoLabel, Labels
  <2>2. label' \in [Games -> Labels] /\ verdict' \in [Jobs -> [game : Games, label : Labels] \cup {NoLabel}]
    BY <1>6, <2>1 DEF LabelGame
  <2> QED BY <1>6, <2>2 DEF LabelGame, library, rows
<1>7. CASE Complete(j) \/ FailJob(j)
  <2>1. <<>> \in Seq(Row)
    OBVIOUS
  <2>2. PICK result : End(j, result)
    BY <1>7 DEF Complete, FailJob
  <2>3. todo' \in [Jobs -> Seq(Row)]
    BY <2>1, <2>2 DEF End
  <2>4. /\ hand' \in [Jobs -> Contents \cup {"none"}]
        /\ affected' \in [Jobs -> SUBSET Games] /\ scope' \in [Jobs -> SUBSET Files]
    BY <2>2 DEF End
  <2>5. verdict' \in [Jobs -> [game : Games, label : Labels] \cup {NoLabel}]
    BY <2>2 DEF End
  <2> QED BY <2>2, <2>3, <2>4, <2>5 DEF End, library, rows, metadata
<1> QED BY <1>1, <1>2, <1>3, <1>4, <1>5, <1>6, <1>7 DEF Request, Task

LEMMA ColumnsByOthers ==
    ASSUME Columns,
           \/ \E f \in Files : ChangeFile(f)
           \/ \E g \in Games : DeleteGame(g) \/ BeginEdit(g)
           \/ \E d \in Dats : ImportDat(d)
           \/ EndEdit \/ Restart \/ UNCHANGED vars
    PROVE  Columns'
<1> USE DEF Columns
<1>1. ASSUME NEW f \in Files, ChangeFile(f) PROVE Columns'
  BY <1>1 DEF ChangeFile, work, rows, metadata
<1>2. ASSUME NEW g \in Games, DeleteGame(g) PROVE Columns'
  BY <1>2 DEF DeleteGame, work, metadata
<1>3. ASSUME NEW g \in Games, BeginEdit(g) PROVE Columns'
  BY <1>3 DEF BeginEdit, work, rows, library
<1>4. ASSUME NEW d \in Dats, ImportDat(d) PROVE Columns'
  BY <1>4 DEF ImportDat, work, rows, metadata
<1>5. CASE EndEdit
  <2>1. edit \in [game : Games, label : Labels] /\ edit' = NoLabel
    BY <1>5 DEF EndEdit
  <2>2. label' \in [Games -> Labels]
    BY <1>5, <2>1 DEF EndEdit, metadata
  <2> QED BY <1>5, <2>1, <2>2 DEF EndEdit, work, rows, library
<1>6. CASE Restart
  <2>1. <<>> \in Seq(Row)
    OBVIOUS
  <2> QED BY <1>6, <2>1 DEF Restart, library, rows
<1>7. CASE UNCHANGED vars
  BY <1>7 DEF vars, work, rows, library, metadata
<1> QED BY <1>1, <1>2, <1>3, <1>4, <1>5, <1>6, <1>7

-----------------------------------------------------------------------------
(* The steps of the request and the task, one by one. *)

(* Nothing changes but where the task is. *)
LEMMA TruthfulMove ==
    ASSUME NEW j \in Jobs, Truthful(j),
           UNCHANGED <<todo, affected, scope, games, rows, label, restored>>,
           step'[j] \in {"total", "mark", "next"}
    PROVE  Truthful(j)'
<1>1. WholeGames(j)' /\ RowsFresh(j)' /\ FilesSettle(j)'
  BY DEF Truthful, WholeGames, RowsFresh, FilesSettle, Awaits, Settled, Labelled, Matched, Exists, rows
<1>2. InHand(j)'
  BY DEF InHand
<1> QED BY <1>1, <1>2 DEF Truthful

LEMMA TruthfulList ==
    ASSUME TruthInv, NEW j \in Jobs, ListFiles(j)
    PROVE  Truthful(j)'
<1> USE DEF TruthInv
<1>1. /\ step'[j] = "total" /\ UNCHANGED <<affected, games, hash, checked, matches, label, restored>>
      /\ scope' = [scope EXCEPT ![j] = {row.file : row \in Range(todo'[j])}]
  BY DEF ListFiles, Go, Inv, Typed, library, rows, metadata
<1>2. PICK g \in Games \cup {"all"}, force \in BOOLEAN :
        \E listed \in Listed(g, force) : todo' = [todo EXCEPT ![j] = listed]
  BY DEF ListFiles
<1>3. PICK listed \in Listed(g, force) : todo' = [todo EXCEPT ![j] = listed]
  BY <1>2
<1> DEFINE Taken == {f \in Files : Exists(f) /\ g \in {"all", Owner[f]}}
<1>4. /\ todo'[j] = listed
      /\ Range(listed) = {[file |-> f, known |-> Known(f, force)] : f \in Taken}
  BY <1>3, ListedRows DEF Columns
<1>5. scope'[j] = Taken
  <2>1. scope'[j] = {row.file : row \in Range(listed)}
    BY <1>1, <1>4 DEF Columns
  <2>2. ASSUME NEW f \in Taken PROVE f \in {row.file : row \in Range(listed)}
    <3>1. [file |-> f, known |-> Known(f, force)] \in Range(listed)
      BY <1>4
    <3> QED BY <3>1
  <2>3. ASSUME NEW row \in Range(listed) PROVE row.file \in Taken
    BY <1>4
  <2> QED BY <2>1, <2>2, <2>3
<1>6. WholeGames(j)'
  BY <1>1, <1>5 DEF WholeGames, Exists
<1>7. RowsFresh(j)'
  <2>1. \A f \in Taken : Known(f, force) # "none" => checked[f] = "complete" /\ hash[f] = Known(f, force)
    BY DEF Known
  <2> QED BY <1>1, <1>4, <2>1 DEF RowsFresh
<1>8. FilesSettle(j)'
  <2>1. ASSUME NEW f \in Taken PROVE Awaits(j, f)'
    <3>1. [file |-> f, known |-> Known(f, force)] \in Range(listed)
      BY <1>4
    <3> QED BY <1>4, <3>1 DEF Awaits
  <2> HIDE DEF Taken
  <2> QED BY <1>5, <2>1 DEF FilesSettle
<1>9. InHand(j)'
  BY <1>1 DEF InHand
<1> QED BY <1>6, <1>7, <1>8, <1>9 DEF Truthful

LEMMA TruthfulNext ==
    ASSUME TruthInv, NEW j \in Jobs, Busy(j), NextFile(j)
    PROVE  Truthful(j)'
<1> USE DEF TruthInv
<1> DEFINE f == File(j) known == Head(todo[j]).known
<1>1. /\ Truthful(j) /\ todo[j] # <<>> /\ step[j] = "next"
      /\ UNCHANGED <<todo, scope, games, hash, matches, label, restored>>
      /\ affected'[j] = affected[j] \cup {Owner[f]}
  BY DEF NextFile, Go, library, metadata, Columns
<1>2. /\ Head(todo[j]) \in Row /\ Head(todo[j]) \in Range(todo[j])
      /\ f \in Files /\ Awaits(j, f)
  <2>1. Head(todo[j]) \in Row /\ Head(todo[j]) \in Range(todo[j])
    BY <1>1, TailOf DEF Columns
  <2> QED BY <2>1 DEF Awaits, File, Row
<1>3. WholeGames(j)'
  BY <1>1 DEF Truthful, WholeGames, Exists
<1>4. /\ \A other \in Files \ {f} : checked'[other] = checked[other]
      /\ \/ step'[j] = "match" /\ known # "none" /\ checked' = checked /\ hand'[j] = known
         \/ step'[j] = "read" /\ known = "none"
  BY <1>2 DEF NextFile, Go, Update, Columns, Inv, Typed
<1>5. RowsFresh(j)'
  <2>1. ASSUME NEW row \in Range(todo[j]), row.known # "none", Exists(row.file)
        PROVE  checked'[row.file] = "complete" /\ hash[row.file] = row.known
    <3>1. checked[row.file] = "complete" /\ hash[row.file] = row.known
      BY <1>1, <2>1 DEF Truthful, RowsFresh
    <3>2. CASE row.file = f
      <4>1. row = Head(todo[j])
        BY <1>1, <1>2, <3>2 DEF Truthful, RowsFresh, File
      <4> QED BY <1>4, <2>1, <3>1, <4>1
    <3>3. CASE row.file # f
      <4>1. row.file \in Files
        <5>1. Range(todo[j]) \subseteq Row
          BY RowsTyped
        <5>2. row \in Row
          BY <2>1, <5>1
        <5> QED BY <5>2 DEF Row
      <4> QED BY <1>4, <3>1, <3>3, <4>1
    <3> QED BY <3>2, <3>3
  <2> QED BY <1>1, <2>1 DEF Truthful, RowsFresh, Exists
<1>6. FilesSettle(j)'
  <2>1. ASSUME NEW other \in scope[j], Exists(other), ~Awaits(j, other)
        PROVE  /\ checked'[other] = checked[other] /\ Settled(other)
               /\ Owner[other] \in affected[j]
    <3>1. other # f /\ other \in Files
      BY <1>2, <2>1 DEF Columns
    <3>2. Settled(other) /\ Owner[other] \in affected[j]
      BY <1>1, <2>1 DEF Truthful, FilesSettle
    <3> QED BY <1>4, <3>1, <3>2
  <2> QED BY <1>1, <2>1 DEF FilesSettle, Awaits, Settled, Exists
<1>7. InHand(j)'
  <2>1. File(j)' = f /\ todo'[j] # <<>> /\ Owner[f] \in affected'[j]
    BY <1>1 DEF File
  <2>2. CASE step'[j] = "match" /\ known # "none" /\ checked' = checked /\ hand'[j] = known
    BY <1>1, <1>2, <2>1, <2>2 DEF InHand, Truthful, RowsFresh, Exists, File
  <2>3. CASE step'[j] = "read" /\ known = "none"
    BY <1>1, <2>1, <2>3 DEF InHand
  <2> QED BY <1>4, <2>2, <2>3
<1> QED BY <1>3, <1>5, <1>6, <1>7 DEF Truthful

(* The file in hand is the first of the list. *)
LEMMA HeadInHand ==
    ASSUME TruthInv, NEW j \in Jobs, Busy(j), step[j] \in {"read", "save", "clear", "match"}
    PROVE  /\ Truthful(j) /\ todo[j] # <<>> /\ Tail(todo[j]) \in Seq(Row)
           /\ Head(todo[j]) \in Range(todo[j])
           /\ Range(todo[j]) = {Head(todo[j])} \cup Range(Tail(todo[j]))
           /\ File(j) \in Files /\ Owner[File(j)] \in affected[j]
           /\ \A row \in Range(todo[j]) : row.file \in Files
<1>1. Truthful(j) /\ todo[j] # <<>> /\ Owner[File(j)] \in affected[j]
  BY DEF TruthInv, Truthful, InHand
<1>2. /\ Head(todo[j]) \in Row /\ Tail(todo[j]) \in Seq(Row) /\ Head(todo[j]) \in Range(todo[j])
      /\ Range(todo[j]) = {Head(todo[j])} \cup Range(Tail(todo[j]))
  BY <1>1, TailOf DEF TruthInv, Columns
<1>3. File(j) \in Files
  BY <1>2 DEF Row, File
<1>4. ASSUME NEW row \in Range(todo[j]) PROVE row.file \in Files
  <2>1. Range(todo[j]) \subseteq Row
    BY RowsTyped DEF TruthInv
  <2>2. row \in Row
    BY <1>4, <2>1
  <2> QED BY <2>2 DEF Row
<1> QED BY <1>1, <1>2, <1>3, <1>4

(* Hashing the file in hand disturbs no other, and no row has its hash.     *)
LEMMA HashingOne ==
    ASSUME TruthInv, NEW j \in Jobs, Busy(j), step[j] \in {"read", "save"},
           UNCHANGED <<todo, affected, scope, games, matches, label, restored>>,
           \A f \in Files \ {File(j)} : checked'[f] = checked[f] /\ hash'[f] = hash[f]
    PROVE  WholeGames(j)' /\ RowsFresh(j)' /\ FilesSettle(j)'
<1> DEFINE f == File(j)
<1>1. /\ Truthful(j) /\ todo[j] # <<>> /\ Head(todo[j]) \in Range(todo[j])
      /\ Owner[f] \in affected[j] /\ Head(todo[j]).known = "none"
      /\ \A row \in Range(todo[j]) : row.file \in Files
  BY HeadInHand DEF Truthful, InHand
<1>2. WholeGames(j)'
  BY <1>1 DEF Truthful, WholeGames, Exists
<1>3. RowsFresh(j)'
  <2>1. ASSUME NEW row \in Range(todo[j]), row.known # "none", Exists(row.file)
        PROVE  checked'[row.file] = "complete" /\ hash'[row.file] = row.known
    <3>1. checked[row.file] = "complete" /\ hash[row.file] = row.known
      BY <1>1, <2>1 DEF Truthful, RowsFresh
    <3>2. row.file # f
      BY <1>1, <2>1 DEF Truthful, RowsFresh, File
    <3> QED BY <1>1, <2>1, <3>1, <3>2
  <2> QED BY <1>1, <2>1 DEF Truthful, RowsFresh, Exists
<1>4. FilesSettle(j)'
  <2>1. ASSUME NEW other \in scope[j], Exists(other), ~Awaits(j, other)
        PROVE  /\ Owner[other] \in affected[j] /\ Settled(other)
               /\ checked'[other] = checked[other] /\ hash'[other] = hash[other]
    <3>1. other # f /\ other \in Files
      BY <1>1, <2>1 DEF Awaits, File, TruthInv, Columns
    <3>2. Settled(other) /\ Owner[other] \in affected[j]
      BY <1>1, <2>1 DEF Truthful, FilesSettle
    <3> QED BY <3>1, <3>2
  <2> QED BY <1>1, <2>1 DEF FilesSettle, Awaits, Settled, Exists
<1> QED BY <1>2, <1>3, <1>4

LEMMA TruthfulHash ==
    ASSUME TruthInv, NEW j \in Jobs, Busy(j), ReadFile(j) \/ SaveHashes(j)
    PROVE  Truthful(j)'
<1> DEFINE f == File(j)
<1>1. step[j] \in {"read", "save"}
  BY DEF ReadFile, SaveHashes, Go
<1>2. /\ f \in Files /\ todo[j] # <<>> /\ Owner[f] \in affected[j] /\ Head(todo[j]).known = "none"
  BY <1>1, HeadInHand DEF Truthful, InHand
<1>3. UNCHANGED <<todo, affected, scope, games, matches, label, restored>>
  BY DEF ReadFile, SaveHashes, work, library, metadata
<1>4. \A other \in Files \ {f} : checked'[other] = checked[other] /\ hash'[other] = hash[other]
  BY <1>2 DEF ReadFile, SaveHashes, Update, TruthInv, Columns
<1>5. \/ step'[j] = "save"
      \/ step'[j] = "clear" /\ (Exists(f) => checked'[f] = "failed")
      \/ step'[j] = "match" /\ (Exists(f) => checked'[f] = "complete" /\ hash'[f] = hand[j] /\ hand' = hand)
  BY <1>2 DEF ReadFile, SaveHashes, Update, Go, TruthInv, Columns, Inv, Typed, work
<1>6. WholeGames(j)' /\ RowsFresh(j)' /\ FilesSettle(j)'
  BY <1>1, <1>3, <1>4, HashingOne
<1>7. InHand(j)'
  <2>1. /\ File(j)' = f /\ todo'[j] # <<>> /\ Owner[f] \in affected'[j]
        /\ Head(todo'[j]).known = "none" /\ (Exists(f)' <=> Exists(f))
    BY <1>2, <1>3 DEF File, Exists
  <2>2. CASE step'[j] = "save"
    BY <2>1, <2>2 DEF InHand
  <2>3. CASE step'[j] = "clear" /\ (Exists(f) => checked'[f] = "failed")
    BY <2>1, <2>3 DEF InHand
  <2>4. CASE step'[j] = "match" /\ (Exists(f) => checked'[f] = "complete" /\ hash'[f] = hand[j] /\ hand' = hand)
    <3>1. hand' = hand
      BY <2>4 DEF ReadFile, SaveHashes, Go, work, TruthInv, Inv, Typed
    <3> QED BY <2>1, <2>4, <3>1 DEF InHand
  <2> QED BY <1>5, <2>2, <2>3, <2>4
<1> QED BY <1>6, <1>7 DEF Truthful

(* The file in hand is settled and leaves the list. *)
LEMMA TruthfulAdvance ==
    ASSUME TruthInv, NEW j \in Jobs, Busy(j), step[j] \in {"clear", "match"},
           Advance(j), step'[j] = "next",
           NEW f \in Files, f = File(j), Exists(f) => Settled(f)',
           \A other \in Files \ {f} : matches'[other] = matches[other]
    PROVE  Truthful(j)'
<1>1. /\ Truthful(j) /\ todo[j] # <<>> /\ Owner[f] \in affected[j]
      /\ Range(todo[j]) = {Head(todo[j])} \cup Range(Tail(todo[j]))
  BY HeadInHand
<1>2. /\ UNCHANGED <<affected, scope, games, hash, checked, label, restored>>
      /\ todo'[j] = Tail(todo[j])
  BY DEF Advance, library, metadata, TruthInv, Columns
<1>3. \A row \in Range(todo'[j]) : row \in Range(todo[j])
  BY <1>1, <1>2
<1>4. WholeGames(j)'
  BY <1>1, <1>2 DEF Truthful, WholeGames, Exists
<1>5. RowsFresh(j)'
  BY <1>1, <1>2, <1>3 DEF Truthful, RowsFresh, Exists
<1>6. FilesSettle(j)'
  <2>1. ASSUME NEW other \in scope[j], Exists(other), other # f, ~Awaits(j, other)'
        PROVE  Settled(other)' /\ Owner[other] \in affected'[j]
    <3>1. ~Awaits(j, other)
      BY <1>1, <1>2, <2>1 DEF Awaits, File
    <3>2. Settled(other) /\ Owner[other] \in affected[j]
      BY <1>1, <2>1, <3>1 DEF Truthful, FilesSettle
    <3>3. matches'[other] = matches[other]
      BY <2>1 DEF TruthInv, Columns
    <3> QED BY <1>2, <3>2, <3>3 DEF Settled
  <2>2. Exists(f) => Settled(f)' /\ Owner[f] \in affected'[j]
    BY <1>1, <1>2
  <2>3. \A other \in scope'[j] : Exists(other)' => other \in scope[j] /\ Exists(other)
    BY <1>2 DEF Exists
  <2> QED BY <2>1, <2>2, <2>3 DEF FilesSettle
<1>7. InHand(j)'
  BY DEF InHand
<1> QED BY <1>4, <1>5, <1>6, <1>7 DEF Truthful

LEMMA TruthfulMatch ==
    ASSUME TruthInv, NEW j \in Jobs, Busy(j), ClearMatches(j) \/ ReplaceMatches(j)
    PROVE  Truthful(j)'
<1>1. /\ step[j] \in {"clear", "match"} /\ Advance(j) /\ step'[j] = "next"
      /\ UNCHANGED <<hash, checked>>
  BY DEF ClearMatches, ReplaceMatches, Go, Advance, TruthInv, Inv, Typed
<1>2. Truthful(j) /\ File(j) \in Files
  BY <1>1, HeadInHand
<1> DEFINE head == File(j)
<1>9. PICK f \in Files : f = head
  BY <1>2
<1>3. \A other \in Files \ {f} : matches'[other] = matches[other]
  BY <1>9 DEF ClearMatches, ReplaceMatches, Update, TruthInv, Columns
<1>4. ASSUME Exists(f) PROVE Settled(f)'
  <2>1. CASE ClearMatches(j)
    <3>1. matches'[f] = {} /\ checked[f] = "failed"
      BY <1>2, <1>9, <1>4, <2>1 DEF ClearMatches, Go, TruthInv, Columns, Truthful, InHand
    <3> QED BY <1>1, <3>1 DEF Settled
  <2>2. CASE ReplaceMatches(j)
    <3>1. matches'[f] = Agreeing(hand[j]) /\ checked[f] = "complete" /\ hash[f] = hand[j]
      BY <1>2, <1>9, <1>4, <2>2 DEF ReplaceMatches, Update, Go, TruthInv, Columns, Truthful, InHand
    <3>2. \A e \in Agreeing(hand[j]) : Agrees(e, hand[j])
      BY DEF Agreeing
    <3> QED BY <1>1, <3>1, <3>2 DEF Settled, Agrees, Checksums
  <2> QED BY <2>1, <2>2
<1> QED BY <1>1, <1>9, <1>3, <1>4, TruthfulAdvance

LEMMA TruthfulReadMatches ==
    ASSUME TruthInv, NEW j \in Jobs, Busy(j), NEW g \in Games, ReadMatches(j, g)
    PROVE  Truthful(j)'
<1>1. /\ Truthful(j) /\ step'[j] = "label" /\ todo[j] = <<>>
      /\ UNCHANGED <<todo, affected, scope, games, hash, checked, matches, label, restored>>
      /\ verdict'[j] = [game |-> g, label |-> Verdict(g)]
  BY DEF ReadMatches, Go, TruthInv, Inv, Typed, Columns, library, rows, metadata
<1>2. WholeGames(j)' /\ RowsFresh(j)' /\ FilesSettle(j)'
  BY <1>1 DEF Truthful, WholeGames, RowsFresh, FilesSettle, Awaits, Settled, Labelled, Matched, Exists
<1>3. InHand(j)'
  BY <1>1 DEF InHand, Verdict
<1> QED BY <1>2, <1>3 DEF Truthful

LEMMA TruthfulLabel ==
    ASSUME TruthInv, NEW j \in Jobs, Busy(j), LabelGame(j)
    PROVE  Truthful(j)'
<1>0. PICK g : g = verdict[j].game
  OBVIOUS
<1>1. /\ Truthful(j) /\ step[j] = "label" /\ step'[j] = "next"
      /\ UNCHANGED <<todo, scope, games, hash, checked, matches>>
  BY DEF LabelGame, Go, TruthInv, Inv, Typed, library, rows
<1>8. /\ affected'[j] = affected[j] \ {g} /\ restored' = restored \ {g}
      /\ label' = [label EXCEPT ![g] = verdict[j].label] /\ g \in games
  BY <1>0 DEF LabelGame, TruthInv, Columns
<1>2. g \in Games /\ verdict[j].label = Verdict(g) /\ todo[j] = <<>>
  BY <1>0, <1>1, <1>8 DEF Truthful, InHand
<1>3. Labelled(g)'
  <2>1. label'[g] = Verdict(g) /\ (Matched(g)' <=> Matched(g))
    BY <1>1, <1>2, <1>8 DEF TruthInv, Columns, Matched
  <2> QED BY <2>1, VerdictLabels DEF Labelled
<1>4. \A h \in Games \ {g} : Labelled(h) => Labelled(h)'
  BY <1>1, <1>2, <1>8 DEF Labelled, Matched, TruthInv, Columns
<1>5. FilesSettle(j)'
  <2>1. ASSUME NEW f \in scope[j], Exists(f)
        PROVE  /\ ~Awaits(j, f)' /\ Settled(f)'
               /\ Owner[f] \in affected'[j] \/ Labelled(Owner[f])'
    <3>1. ~Awaits(j, f) /\ ~Awaits(j, f)'
      BY <1>1, <1>2 DEF Awaits, Range
    <3>2. Settled(f) /\ (Owner[f] \in affected[j] \/ Labelled(Owner[f]))
      BY <1>1, <2>1, <3>1 DEF Truthful, FilesSettle
    <3>3. Settled(f)'
      BY <1>1, <3>2 DEF Settled
    <3>4. Owner[f] \in Games
      BY <2>1 DEF Exists, TruthInv, Columns
    <3> QED BY <1>8, <1>3, <1>4, <3>1, <3>2, <3>3, <3>4
  <2> QED BY <1>1, <1>2, <2>1 DEF FilesSettle, Exists
<1>6. WholeGames(j)' /\ RowsFresh(j)' /\ InHand(j)'
  BY <1>1 DEF Truthful, WholeGames, RowsFresh, InHand, Exists
<1> QED BY <1>5, <1>6 DEF Truthful

-----------------------------------------------------------------------------
(* Everyone else *)

LEMMA TruthfulElsewhere ==
    ASSUME NEW j \in Jobs, Truthful(j),
           UNCHANGED <<step, todo, affected, scope, hand, verdict, games, rows>>,
           \A g : Labelled(g) => Labelled(g)'
    PROVE  Truthful(j)'
<1>1. WholeGames(j)' /\ RowsFresh(j)'
  BY DEF Truthful, WholeGames, RowsFresh, Exists, rows
<1>2. FilesSettle(j)'
  <2>1. ASSUME NEW f PROVE (Settled(f) => Settled(f)') /\ (Awaits(j, f) <=> Awaits(j, f)')
    BY DEF Settled, Awaits, rows
  <2> QED BY <2>1 DEF Truthful, FilesSettle, Exists
<1>3. InHand(j)'
  <2>1. Verdict(verdict[j].game)' = Verdict(verdict[j].game) /\ File(j)' = File(j)
    BY DEF Verdict, rows, File
  <2>2. \A f : Exists(f)' <=> Exists(f)
    BY DEF Exists
  <2> QED BY <2>1, <2>2 DEF Truthful, InHand, rows
<1> QED BY <1>1, <1>2, <1>3 DEF Truthful

LEMMA TruthfulDelete ==
    ASSUME TruthInv, NEW j \in Jobs, Truthful(j), NEW g \in Games, DeleteGame(g)
    PROVE  Truthful(j)'
<1>1. /\ UNCHANGED <<step, todo, affected, scope, hand, verdict, hash, checked, label, restored>>
      /\ games' = games \ {g}
      /\ matches' = [f \in Files |-> IF Owner[f] = g THEN {} ELSE matches[f]]
  BY DEF DeleteGame, work, metadata
<1>2. \A f : Exists(f)' => Exists(f) /\ Owner[f] # g
  BY <1>1 DEF Exists
<1>3. \A f \in Files : Exists(f)' => matches'[f] = matches[f]
  BY <1>1, <1>2
<1>4. ASSUME NEW h, h # g
      PROVE  (Matched(h)' <=> Matched(h)) /\ (Labelled(h) => Labelled(h)') /\ Verdict(h)' = Verdict(h)
  <2>1. \A f \in Files : Owner[f] = h => matches'[f] = matches[f]
    BY <1>1, <1>4
  <2>2. Matched(h)' <=> Matched(h)
    BY <2>1 DEF Matched
  <2>3. Verdict(h)' = Verdict(h)
    BY <2>1 DEF Verdict
  <2> QED BY <1>1, <2>2, <2>3 DEF Labelled
<1>5. WholeGames(j)' /\ RowsFresh(j)'
  BY <1>1, <1>2 DEF Truthful, WholeGames, RowsFresh
<1>6. FilesSettle(j)'
  <2>1. ASSUME NEW f \in scope[j], Exists(f)'
        PROVE  /\ Awaits(j, f)' \/ Settled(f)'
               /\ Awaits(j, f)' \/ Owner[f] \in affected'[j] \/ (todo'[j] = <<>> /\ Labelled(Owner[f])')
    <3>1. f \in Files /\ Exists(f) /\ Owner[f] # g /\ matches'[f] = matches[f]
      BY <1>2, <1>3, <2>1 DEF TruthInv, Columns
    <3>2. (Settled(f) => Settled(f)') /\ (Awaits(j, f) <=> Awaits(j, f)')
      BY <1>1, <3>1 DEF Settled, Awaits
    <3> QED BY <1>1, <1>4, <3>1, <3>2 DEF Truthful, FilesSettle
  <2> QED BY <1>1, <2>1 DEF FilesSettle
<1>7. InHand(j)'
  <2>1. File(j)' = File(j)
    BY <1>1 DEF File
  <2>2. /\ step'[j] \in {"read", "save", "clear", "match"} =>
             todo'[j] # <<>> /\ Owner[File(j)'] \in affected'[j]
        /\ step'[j] \in {"read", "save", "clear"} => Head(todo'[j]).known = "none"
        /\ step'[j] = "clear" /\ Exists(File(j))' => checked'[File(j)'] = "failed"
        /\ step'[j] = "match" /\ Exists(File(j))' =>
             checked'[File(j)'] = "complete" /\ hash'[File(j)'] = hand'[j]
    BY <1>1, <1>2, <2>1 DEF Truthful, InHand, Exists
  <2>3. ASSUME step'[j] = "label", verdict[j].game \in games'
        PROVE  verdict'[j].label = Verdict(verdict[j].game)'
    <3>1. PICK h : h = verdict[j].game
      OBVIOUS
    <3>2. h # g /\ verdict[j].label = Verdict(h)
      BY <1>1, <2>3, <3>1 DEF Truthful, InHand
    <3>3. Verdict(h)' = Verdict(h)
      BY <1>4, <3>2
    <3> QED BY <1>1, <3>1, <3>2, <3>3 DEF Verdict
  <2>4. step'[j] = "label" => todo'[j] = <<>> /\ verdict'[j].game \in Games
    BY <1>1 DEF Truthful, InHand
  <2> QED BY <1>1, <2>2, <2>3, <2>4 DEF InHand
<1> QED BY <1>5, <1>6, <1>7 DEF Truthful

LEMMA EditsAreKnown ==
    ASSUME Columns, EndEdit, NEW g
    PROVE  Labelled(g) => Labelled(g)'
<1>1. UNCHANGED matches
  BY DEF EndEdit, rows
<1>2. CASE edit.game \in games /\ label[edit.game] # edit.label
  <2>1. label' = [label EXCEPT ![edit.game] = edit.label] /\ restored' = restored \cup {edit.game}
    BY <1>2 DEF EndEdit
  <2>2. g # edit.game => label'[g] = label[g]
    BY <2>1 DEF Columns
  <2> QED BY <1>1, <2>1, <2>2 DEF Labelled, Matched
<1>3. CASE ~(edit.game \in games /\ label[edit.game] # edit.label)
  <2>1. label' = label /\ restored' = restored
    BY <1>3 DEF EndEdit, Columns
  <2> QED BY <1>1, <2>1 DEF Labelled, Matched
<1> QED BY <1>2, <1>3

LEMMA TruthfulByOthers ==
    ASSUME TruthInv, NEW j \in Jobs, Busy(j)',
           \/ \E f \in Files : ChangeFile(f)
           \/ \E g \in Games : DeleteGame(g) \/ BeginEdit(g)
           \/ \E d \in Dats : ImportDat(d)
           \/ EndEdit \/ Restart \/ UNCHANGED vars
    PROVE  Truthful(j)'
<1>1. CASE Restart
  BY <1>1 DEF Restart, Busy, Tasked
<1>2. ASSUME UNCHANGED step PROVE Truthful(j)
  BY <1>2 DEF Busy, TruthInv
<1>3. ASSUME NEW f \in Files, ChangeFile(f) PROVE Truthful(j)'
  <2>1. UNCHANGED <<step, todo, affected, scope, hand, verdict, games, rows, label, restored>>
    BY <1>3 DEF ChangeFile, work, metadata
  <2>2. \A g : Labelled(g) => Labelled(g)'
    BY <2>1 DEF Labelled, Matched, rows
  <2> QED BY <1>2, <2>1, <2>2, TruthfulElsewhere
<1>4. ASSUME NEW g \in Games, DeleteGame(g) PROVE Truthful(j)'
  <2>1. UNCHANGED step
    BY <1>4 DEF DeleteGame
  <2> QED BY <1>2, <1>4, <2>1, TruthfulDelete
<1>5. ASSUME NEW g \in Games, BeginEdit(g) PROVE Truthful(j)'
  <2>1. UNCHANGED <<step, todo, affected, scope, hand, verdict, games, rows, label, restored>>
    BY <1>5 DEF BeginEdit, work, library
  <2>2. \A h : Labelled(h) => Labelled(h)'
    BY <2>1 DEF Labelled, Matched, rows
  <2> QED BY <1>2, <2>1, <2>2, TruthfulElsewhere
<1>6. ASSUME NEW d \in Dats, ImportDat(d) PROVE Truthful(j)'
  <2>1. UNCHANGED <<step, todo, affected, scope, hand, verdict, games, rows, label, restored>>
    BY <1>6 DEF ImportDat, work, metadata
  <2>2. \A g : Labelled(g) => Labelled(g)'
    BY <2>1 DEF Labelled, Matched, rows
  <2> QED BY <1>2, <2>1, <2>2, TruthfulElsewhere
<1>7. CASE EndEdit
  <2>1. UNCHANGED <<step, todo, affected, scope, hand, verdict, games, rows>>
    BY <1>7 DEF EndEdit, work, library
  <2>2. \A g : Labelled(g) => Labelled(g)'
    BY <1>7, EditsAreKnown DEF TruthInv
  <2> QED BY <1>2, <2>1, <2>2, TruthfulElsewhere
<1>8. CASE UNCHANGED vars
  <2>1. UNCHANGED <<step, todo, affected, scope, hand, verdict, games, rows, label, restored>>
    BY <1>8 DEF vars, work, library, metadata
  <2>2. \A g : Labelled(g) => Labelled(g)'
    BY <2>1 DEF Labelled, Matched, rows
  <2> QED BY <1>2, <2>1, <2>2, TruthfulElsewhere
<1> QED BY <1>1, <1>3, <1>4, <1>5, <1>6, <1>7, <1>8

(* While a job is busy no other steps, and none is created.                 *)
LEMMA OneSteps ==
    ASSUME TruthInv, NEW i \in Jobs, Request(i) \/ Task(i), NEW j \in Jobs, i # j
    PROVE  ~Busy(j)'
<1> USE DEF TruthInv
<1>1. step'[j] = step[j]
  <2>1. CASE CreateJob(i)
    BY <2>1 DEF CreateJob, Go, Inv, Typed
  <2>2. CASE ~CreateJob(i)
    BY <2>2, RequestAndTaskWork DEF Proceeds, Inv, Typed
  <2> QED BY <2>1, <2>2
<1>2. Busy(j) => Works(j) /\ status[j] \in Active
  BY DEF Busy, Works, Tasked, Inv, WorksOnActive
<1>3. CASE CreateJob(i)
  BY <1>1, <1>2, <1>3 DEF CreateJob, MayInsert, Busy
<1>4. CASE ~CreateJob(i)
  <2>1. Works(i)
    BY <1>4, RequestAndTaskWork DEF Proceeds
  <2>2. OneJobWorks
    BY InvImpliesOneJobWorks
  <2> QED BY <1>1, <1>2, <2>1, <2>2 DEF OneJobWorks, Busy
<1> QED BY <1>3, <1>4

LEMMA TruthfulByWork ==
    ASSUME TruthInv, NEW j \in Jobs, Request(j) \/ Task(j), Busy(j)'
    PROVE  Truthful(j)'
<1> USE DEF Go, TruthInv, Inv, Typed
<1>1. CASE CreateJob(j) \/ Abandon(j) \/ Stumble(j) \/ GiveUp(j) \/ Complete(j) \/ FailJob(j)
  BY <1>1 DEF CreateJob, Abandon, Stumble, GiveUp, Complete, FailJob, Busy, Tasked
<1>2. CASE Launch(j) \/ MarkRunning(j)
  <2>1. /\ step[j] \in {"total", "mark"} /\ step'[j] \in {"mark", "next"}
        /\ UNCHANGED <<todo, affected, scope, games, rows, label, restored>>
    BY <1>2 DEF Launch, MarkRunning, work, library, metadata
  <2>2. Truthful(j)
    BY <2>1 DEF Busy, Tasked
  <2> QED BY <2>1, <2>2, TruthfulMove
<1>3. ASSUME step[j] \in Tasked \ {"fail"} PROVE Busy(j)
  BY <1>3 DEF Busy
<1>4. CASE NextFile(j) \/ ReadFile(j) \/ SaveHashes(j) \/ ClearMatches(j) \/ ReplaceMatches(j) \/ LabelGame(j)
  <2>1. Busy(j)
    BY <1>3, <1>4 DEF NextFile, ReadFile, SaveHashes, ClearMatches, ReplaceMatches, LabelGame, Tasked
  <2> QED BY <1>4, <2>1, TruthfulNext, TruthfulHash, TruthfulMatch, TruthfulLabel
<1>5. ASSUME NEW g \in Games, ReadMatches(j, g) PROVE Truthful(j)'
  <2>1. Busy(j)
    BY <1>3, <1>5 DEF ReadMatches, Tasked
  <2> QED BY <1>5, <2>1, TruthfulReadMatches
<1> QED BY <1>1, <1>2, <1>4, <1>5, TruthfulList DEF Request, Task

LEMMA TruthInit == Init => TruthInv
<1> SUFFICES ASSUME Init PROVE TruthInv
  OBVIOUS
<1>1. \A j \in Jobs : ~Busy(j)
  BY DEF Init, Busy, Tasked
<1> QED BY <1>1, InitEstablishesInv, ColumnsInit DEF TruthInv

LEMMA TruthStep == TruthInv /\ [Next]_vars => TruthInv'
<1> SUFFICES ASSUME TruthInv, [Next]_vars
             PROVE  TruthInv'
  OBVIOUS
<1>1. Inv'
  BY NextKeepsInv DEF TruthInv
<1>2. ASSUME NEW i \in Jobs, Request(i) \/ Task(i)
      PROVE  Columns' /\ \A j \in Jobs : Busy(j)' => Truthful(j)'
  <2>1. Columns'
    BY <1>2, ColumnsByWork DEF TruthInv
  <2> QED BY <1>2, <2>1, OneSteps, TruthfulByWork
<1>3. CASE \/ \E f \in Files : ChangeFile(f)
           \/ \E g \in Games : DeleteGame(g) \/ BeginEdit(g)
           \/ \E d \in Dats : ImportDat(d)
           \/ EndEdit \/ Restart \/ UNCHANGED vars
  <2>1. Columns'
    BY <1>3, ColumnsByOthers DEF TruthInv
  <2>2. \A j \in Jobs : Busy(j)' => Truthful(j)'
    BY <1>3, TruthfulByOthers
  <2> QED BY <1>1, <2>1, <2>2 DEF TruthInv
<1>4. CASE \E i \in Jobs : Request(i) \/ Task(i)
  BY <1>1, <1>2, <1>4 DEF TruthInv
<1> QED BY <1>3, <1>4 DEF Next

-----------------------------------------------------------------------------
(* Only one step completes a job. *)
LEMMA OnlyComplete ==
    ASSUME TruthInv, [Next]_vars, NEW j \in Jobs, status[j] # "completed", status'[j] = "completed"
    PROVE  Complete(j)
<1> USE DEF TruthInv, Inv, Typed
<1>1. ASSUME NEW i \in Jobs, Request(i)
      PROVE  status'[j] # "completed"
  BY <1>1 DEF Request, CreateJob, ListFiles, Launch, Abandon
<1>2. ASSUME NEW i \in Jobs, Task(i), ~Complete(i)
      PROVE  status'[j] # "completed"
  <2>1. CASE MarkRunning(i) \/ FailJob(i)
    BY <2>1 DEF MarkRunning, FailJob, End
  <2>2. CASE NextFile(i) \/ ReadFile(i) \/ SaveHashes(i) \/ ClearMatches(i) \/ ReplaceMatches(i)
    BY <2>2 DEF NextFile, ReadFile, SaveHashes, ClearMatches, ReplaceMatches, Advance
  <2>3. CASE LabelGame(i) \/ Stumble(i) \/ GiveUp(i) \/ \E g \in Games : ReadMatches(i, g)
    BY <2>3 DEF LabelGame, Stumble, GiveUp, ReadMatches
  <2> QED BY <1>2, <2>1, <2>2, <2>3 DEF Task
<1>3. ASSUME NEW i \in Jobs, Complete(i) PROVE Complete(j)
  BY <1>3 DEF Complete, End
<1>4. ASSUME \/ \E f \in Files : ChangeFile(f)
             \/ \E g \in Games : DeleteGame(g) \/ BeginEdit(g)
             \/ \E d \in Dats : ImportDat(d)
             \/ EndEdit \/ Restart \/ UNCHANGED vars
      PROVE  status'[j] # "completed"
  BY <1>4 DEF ChangeFile, DeleteGame, BeginEdit, ImportDat, EndEdit, Restart, vars
<1> QED BY <1>1, <1>2, <1>3, <1>4 DEF Next

(* The report of a game of which every file is settled. *)
LEMMA SettledReport ==
    ASSUME NEW g, \A f \in Files : Owner[f] = g => Settled(f)
    PROVE  Report(g) # "pending" /\ (Report(g) = "verified" <=> Matched(g))
<1> DEFINE of == {f \in Files : Owner[f] = g}
<1>1. \A f \in of : /\ checked[f] \in {"complete", "failed"}
                    /\ checked[f] = "failed" => matches[f] = {}
  BY DEF Settled
<1>2. CASE \E f \in of : matches[f] # {}
  <2>1. Report(g) = "verified"
    BY <1>2 DEF Report
  <2> QED BY <1>2, <2>1 DEF Matched
<1>3. CASE (\A f \in of : matches[f] = {}) /\ \E f \in of : checked[f] = "failed"
  <2>1. Report(g) = "failed"
    BY <1>3 DEF Report
  <2> QED BY <1>3, <2>1 DEF Matched
<1>4. CASE (\A f \in of : matches[f] = {}) /\ ~\E f \in of : checked[f] = "failed"
  <2>1. \A f \in of : matches[f] = {} /\ checked[f] = "complete"
    BY <1>1, <1>4
  <2>2. Report(g) = "unmatched"
    BY <1>4, <2>1 DEF Report
  <2> QED BY <1>4, <2>2 DEF Matched
<1> QED BY <1>2, <1>3, <1>4

(* A job that is completed has told the truth: every file of it that is     *)
(* still there has been read or has failed, its matches are those of its    *)
(* stored hashes, and the label of its game agrees with the final report    *)
(* unless an edit put an older one back, whatever changed, was deleted,     *)
(* imported or interrupted meanwhile.                                       *)
THEOREM CompletedIntegrityJobsAreTrue == Spec => CompletedJobsAreTrue
<1> DEFINE True(f) ==
       /\ checked[f] \in {"complete", "failed"}
       /\ checked[f] = "failed" => matches[f] = {}
       /\ \A e \in matches[f] : Agrees(e, hash[f])
       /\ Report(Owner[f]) # "pending"
       /\ \/ Owner[f] \in restored
          \/ label[Owner[f]] = "verified" <=> Report(Owner[f]) = "verified"
<1>1. ASSUME TruthInv, [Next]_vars
      PROVE  \A j \in Jobs : status[j] # "completed" /\ status'[j] = "completed" =>
               \A f \in scope[j] : Exists(f) => True(f)
  <2> SUFFICES ASSUME NEW j \in Jobs, status[j] # "completed", status'[j] = "completed",
                      NEW f \in scope[j], Exists(f)
               PROVE  True(f)
    OBVIOUS
  <2>1. Complete(j)
    BY <1>1, OnlyComplete
  <2>2. todo[j] = <<>> /\ affected[j] = {} /\ Truthful(j)
    BY <1>1, <2>1 DEF Complete, Go, TruthInv, Busy, Tasked
  <2>3. \A other : ~Awaits(j, other)
    BY <2>2 DEF Awaits, Range
  <2>4. \A other \in scope[j] : Exists(other) => Settled(other) /\ Labelled(Owner[other])
    BY <2>2, <2>3 DEF Truthful, FilesSettle
  <2>5. ASSUME NEW other \in Files, Owner[other] = Owner[f] PROVE Settled(other)
    <3>1. other \in scope[j] /\ Exists(other)
      BY <2>2, <2>5 DEF Truthful, WholeGames, Exists
    <3> QED BY <2>4, <3>1
  <2>6. Report(Owner[f]) # "pending" /\ (Report(Owner[f]) = "verified" <=> Matched(Owner[f]))
    BY <2>5, SettledReport
  <2> QED BY <2>4, <2>6 DEF Settled, Labelled
<1>2. TruthInv /\ [Next]_vars => [\A j \in Jobs : status[j] # "completed" /\ status'[j] = "completed" =>
               \A f \in scope[j] : Exists(f) => True(f)]_vars
  BY <1>1
<1> QED BY <1>2, TruthInit, TruthStep, PTL DEF Spec, CompletedJobsAreTrue

HIDE IntegrityAssumption

-----------------------------------------------------------------------------
(* The scan.  A path in terms of its directory and its name. *)

LEMMA PathParts ==
    ASSUME NEW p \in Paths
    PROVE  p[1] \in Dirs /\ p[2] \in Names /\ p = <<p[1], p[2]>>
BY DEF Paths

LEMMA PathOf ==
    ASSUME NEW dir \in Dirs, NEW n \in Names
    PROVE  <<dir, n>> \in Paths /\ <<dir, n>>[1] = dir /\ <<dir, n>>[2] = n
BY DEF Paths

LEMMA InBatch ==
    ASSUME NEW b \in AnyBatch, NEW p
    PROVE  /\ p \in PathsOf(b) <=> p \in Paths /\ p[1] = b.dir /\ p[2] \in b.names
           /\ p \in SeenOf(b) <=> p \in Paths /\ p[1] = b.seen /\ p[2] \in b.names
BY DEF AnyBatch, PathsOf, SeenOf, Paths

LEMMA BatchParts ==
    ASSUME NEW b \in AnyBatch
    PROVE  b.dir \in Dirs /\ b.seen \in Dirs /\ b.names \subseteq Names
BY DEF AnyBatch

(* What discovery finds in a directory. *)
LEMMA NewBatchParts ==
    ASSUME NEW dir \in Dirs, NEW names \in SUBSET Names
    PROVE  /\ NewBatch(dir, names) \in AnyBatch /\ NewBatch(dir, names).dir = dir
           /\ NewBatch(dir, names).seen = dir /\ NewBatch(dir, names).names = names
<1> DEFINE blocked == Kind[dir] = "folder" /\ Blocked(dir)
<1>1. blocked \in BOOLEAN
  OBVIOUS
<1> HIDE DEF blocked
<1>2. NewBatch(dir, names) = [dir |-> dir, names |-> names, seen |-> dir, blocked |-> blocked]
  BY DEF NewBatch, blocked
<1> QED
  BY <1>1, <1>2 DEF AnyBatch

LEMMA Kinds ==
    ASSUME NEW dir \in Dirs, NEW b
    PROVE  /\ Kind[dir] = "alien" => b \notin BatchesOf(dir)
           /\ Kind[dir] = "folder" =>
                (b \in BatchesOf(dir) <=> b = NewBatch(dir, ToImport(dir)) /\ b # NewBatch(dir, {}))
           /\ Kind[dir] = "loose" =>
                (b \in BatchesOf(dir) <=> \E n \in ToImport(dir) : b = NewBatch(dir, {n}))
           /\ Kind[dir] \in {"alien", "folder", "loose"} /\ ToImport(dir) \in SUBSET Names
           /\ \A n \in ToImport(dir) : {n} \in SUBSET Names
<1>1. Kind[dir] \in {"alien", "folder", "loose"} /\ ToImport(dir) \subseteq Names
  BY ScanAssumption DEF ToImport
<1>2. CASE Kind[dir] = "alien"
  BY <1>1, <1>2 DEF BatchesOf
<1>3. CASE Kind[dir] = "folder"
  BY <1>1, <1>3 DEF BatchesOf
<1>4. CASE Kind[dir] = "loose"
  BY <1>1, <1>4 DEF BatchesOf
<1> QED
  BY <1>1, <1>2, <1>3, <1>4

LEMMA FoundThere ==
    ASSUME NEW dir \in Dirs, NEW b \in BatchesOf(dir)
    PROVE  /\ b \in AnyBatch /\ b.dir = dir /\ b.seen = dir /\ b.names # {}
           /\ b.names \subseteq ToImport(dir)
           /\ Kind[dir] = "folder" => b.names = ToImport(dir)
           /\ Kind[dir] \in {"folder", "loose"}
<1>1. CASE Kind[dir] = "folder"
  BY <1>1, Kinds, NewBatchParts
<1>2. CASE Kind[dir] = "loose"
  <2>1. PICK n \in ToImport(dir) : b = NewBatch(dir, {n})
    BY <1>2, Kinds
  <2> QED
    BY <1>2, <2>1, Kinds, NewBatchParts
<1> QED
  BY <1>1, <1>2, Kinds

LEMMA FoundOnce ==
    ASSUME NEW dir \in Dirs, NEW b \in BatchesOf(dir), NEW c \in BatchesOf(dir)
    PROVE  /\ b.names \cap c.names # {} => b = c
           /\ Kind[dir] = "folder" => b = c
<1>1. CASE Kind[dir] = "folder"
  BY <1>1, Kinds
<1>2. CASE Kind[dir] = "loose"
  <2>1. PICK n \in ToImport(dir) : b = NewBatch(dir, {n})
    BY <1>2, Kinds
  <2>2. PICK m \in ToImport(dir) : c = NewBatch(dir, {m})
    BY <1>2, Kinds
  <2>3. {n} \in SUBSET Names /\ {m} \in SUBSET Names
    BY Kinds
  <2>4. b.names = {n} /\ c.names = {m}
    BY <2>1, <2>2, <2>3, NewBatchParts
  <2> QED
    BY <1>2, <2>1, <2>2, <2>4
<1> QED
  BY <1>1, <1>2, Kinds

LEMMA EveryFileFound ==
    ASSUME NEW dir \in Dirs, NEW n \in ToImport(dir), Kind[dir] # "alien"
    PROVE  \E b \in BatchesOf(dir) : n \in b.names
<1>1. CASE Kind[dir] = "folder"
  BY <1>1, Kinds, NewBatchParts
<1>2. CASE Kind[dir] = "loose"
  <2>1. NewBatch(dir, {n}) \in BatchesOf(dir) /\ {n} \in SUBSET Names
    BY <1>2, Kinds
  <2> QED
    BY <2>1, NewBatchParts
<1> QED
  BY <1>1, <1>2, Kinds

(* What the planner promises of one game. *)
LEMMA GameNames ==
    ASSUME NEW names \in SUBSET Names, DescribesOneGame(names)
    PROVE  /\ \A f \in ToSet(FilesOf(names)) :
                \/ NameOf(names, f) \in names
                \/ Generates(names) /\ NameOf(names, f) = PlaylistName(names)
           /\ \A n \in names : \E f \in ToSet(FilesOf(names)) : n = NameOf(names, f)
           /\ HasPlaylist(names) => PlaylistName(names) \in Names
           /\ HasPlaylist(names) => \E n \in names : Grouped(n)
           /\ Generates(names) =>
                /\ HasPlaylist(names) /\ Sort[PlaylistName(names)] = "game"
                /\ PlaylistName(names) \notin names
                /\ \E f \in ToSet(FilesOf(names)) : NameOf(names, f) = PlaylistName(names)
<1> DEFINE files == ToSet(FilesOf(names))
           launch == CHOOSE f \in files : f.role = "launch_manifest"
<1>1. /\ {NameOf(names, f) : f \in {g \in files : g.key # 0}} = names
      /\ \A f \in files : f.key = 0 => f.role = "launch_manifest"
      /\ \A f, g \in files : f.role = "launch_manifest" /\ g.role = "launch_manifest" => f = g
      /\ HasPlaylist(names) => \E n \in names : Grouped(n)
      /\ HasPlaylist(names) => PlaylistName(names) \in Names
      /\ Generates(names) =>
           Sort[PlaylistName(names)] = "game" /\ PlaylistName(names) \notin names
  <2>1. names \in {n \in SUBSET Names : DescribesOneGame(n)}
    OBVIOUS
  <2> HIDE DEF files
  <2> QED
    BY <2>1, PlannerAssumption DEF files
<1>2. HasPlaylist(names) <=> \E f \in files : f.role = "launch_manifest"
  BY DEF HasPlaylist
<1>3. Generates(names) <=> \E f \in files : f.key = 0
  BY DEF Generates
<1>4. PlaylistName(names) = NameOf(names, launch)
  BY DEF PlaylistName
<1>5. \A f \in files : f.role = "launch_manifest" => f = launch
  BY <1>1
<1> HIDE DEF files, launch
<1>6. \A f \in files : f.key = 0 => Generates(names) /\ NameOf(names, f) = PlaylistName(names)
  BY <1>1, <1>3, <1>4, <1>5
<1>7. \A f \in files : f.key # 0 => NameOf(names, f) \in names
  BY <1>1
<1>8. \A n \in names : \E f \in files : n = NameOf(names, f)
  BY <1>1
<1> QED
  BY <1>1, <1>2, <1>3, <1>6, <1>7, <1>8 DEF files

LEMMA GamePaths ==
    ASSUME NEW b \in AnyBatch, DescribesOneGame(b.names)
    PROVE  /\ GameOf(b) \subseteq Paths
           /\ \A p \in GameOf(b) : p[1] = b.dir
           /\ \A p \in GameOf(b) : p \in PathsOf(b) \/ (Generates(b.names) /\ p = NewPath(b))
           /\ PathsOf(b) \subseteq GameOf(b)
           /\ Generates(b.names) => NewPath(b) \in GameOf(b)
           /\ HasPlaylist(b.names) => NewPath(b) \in Paths
<1>1. b.dir \in Dirs /\ b.names \in SUBSET Names
  BY BatchParts
<1> DEFINE files == ToSet(FilesOf(b.names))
<1> HIDE DEF files
<1>2. \A p : p \in GameOf(b) <=> \E f \in files : p = <<b.dir, NameOf(b.names, f)>>
  BY DEF GameOf, files
<1>3. /\ \A f \in files :
           \/ NameOf(b.names, f) \in b.names
           \/ Generates(b.names) /\ NameOf(b.names, f) = PlaylistName(b.names)
      /\ \A n \in b.names : \E f \in files : n = NameOf(b.names, f)
      /\ HasPlaylist(b.names) => PlaylistName(b.names) \in Names
      /\ Generates(b.names) =>
           /\ HasPlaylist(b.names)
           /\ \E f \in files : NameOf(b.names, f) = PlaylistName(b.names)
  BY <1>1, GameNames DEF files
<1>4. \A f \in files : NameOf(b.names, f) \in Names
  BY <1>1, <1>3
<1>5. \A p : p \in PathsOf(b) <=> \E n \in b.names : p = <<b.dir, n>>
  BY DEF PathsOf
<1>6. NewPath(b) = <<b.dir, PlaylistName(b.names)>>
  BY DEF NewPath
<1>7. \A n \in Names : <<b.dir, n>> \in Paths /\ <<b.dir, n>>[1] = b.dir
  BY <1>1, PathOf
<1>8. GameOf(b) \subseteq Paths /\ \A p \in GameOf(b) : p[1] = b.dir
  BY <1>2, <1>4, <1>7
<1>9. \A p \in GameOf(b) : p \in PathsOf(b) \/ (Generates(b.names) /\ p = NewPath(b))
  BY <1>2, <1>3, <1>5, <1>6
<1>10. PathsOf(b) \subseteq GameOf(b)
  BY <1>2, <1>3, <1>5
<1>11. Generates(b.names) => NewPath(b) \in GameOf(b)
  BY <1>2, <1>3, <1>6
<1>12. HasPlaylist(b.names) => NewPath(b) \in Paths
  BY <1>3, <1>6, <1>7
<1> QED
  BY <1>8, <1>9, <1>10, <1>11, <1>12

-----------------------------------------------------------------------------
(* One disposition for every file.  A path that discovery counted is named  *)
(* once in the result or is one of a batch that is still to be settled.     *)

Remaining == batches \cup planned \cup current

Importing == {"normalize", "reserve", "journal", "write", "save", "judge", "complete"}

Phases ==
    /\ pc \in {"idle", "discover", "done"} => Remaining = {}
    /\ pc = "plan" => current = {}
    /\ pc = "revalidate" => batches = {} /\ current = {}
    /\ pc \in Importing => batches = {} /\ current # {}
    /\ pc \in {"idle", "discover"} => outcome = Nothing /\ scanned = {}
    /\ server = "recovering" => pc = "idle"

Outstanding(p) == \E b \in Remaining : p \in SeenOf(b)

Apart ==
    /\ \A b, c \in Remaining : SeenOf(b) \cap SeenOf(c) # {} => b = c
    /\ batches \cap planned = {} /\ (batches \cup planned) \cap current = {}
    /\ \A b \in Remaining : SeenOf(b) # {} /\ SeenOf(b) \subseteq scanned

NamedOnce == outcome = [p \in Paths |-> IF p \in scanned /\ ~Outstanding(p) THEN 1 ELSE 0]

(* What the planner promised of the batches that it kept. *)
WellPlanned ==
    /\ \A b \in batches \cup planned : b.dir = b.seen /\ Kind[b.dir] \in {"folder", "loose"}
    /\ \A b \in planned \cup current :
        DescribesOneGame(b.names) /\ (HasPlaylist(b.names) => Kind[b.seen] = "folder")
    /\ pc \in {"journal", "write", "judge"} \/ op # NoOp =>
        \A b \in current : Generates(b.names)
    /\ pc \notin {"write", "save", "judge", "complete"} => op = NoOp

ReportInv == ScanTypeOK /\ Phases /\ Apart /\ NamedOnce /\ WellPlanned

LEMMA ReportInvImplies == ReportInv => OneDisposition
BY DEF ReportInv, Phases, NamedOnce, Outstanding, OneDisposition

(* A scan that leaves, and a step of anybody else. *)
LEMMA LeaveReports ==
    ASSUME Leave, NEW up \in {"up", "recovering"}, server' = up
    PROVE  (Phases /\ Apart /\ NamedOnce)'
BY DEF Leave, Phases, Apart, NamedOnce, Remaining, Outstanding, Nothing, Importing

(* The batch b is settled. *)
LEMMA SettlesOne ==
    ASSUME ReportInv, NEW b \in Remaining, outcome' = Reported(b), scanned' = scanned,
           Remaining' = Remaining \ {b}
    PROVE  NamedOnce' /\ \A c, d \in Remaining' : SeenOf(c) \cap SeenOf(d) # {} => c = d
<1>1. \A p \in Paths : Outstanding(p)' <=> Outstanding(p) /\ p \notin SeenOf(b)
  BY DEF ReportInv, Apart, Outstanding, SeenOf
<1>2. \A p \in Paths : p \in SeenOf(b) => p \in scanned /\ outcome[p] = 0
  BY DEF ReportInv, Apart, NamedOnce, Outstanding
<1>3. \A p \in Paths : p \notin SeenOf(b) =>
        outcome[p] = IF p \in scanned /\ ~Outstanding(p)' THEN 1 ELSE 0
  BY <1>1 DEF ReportInv, NamedOnce
<1>4. \A p \in Paths : (IF p \in SeenOf(b) THEN outcome[p] + 1 ELSE outcome[p])
                          = IF p \in scanned /\ ~Outstanding(p)' THEN 1 ELSE 0
  BY <1>1, <1>2, <1>3
<1>5. NamedOnce'
  BY <1>4 DEF NamedOnce, Reported
<1> QED
  BY <1>5 DEF ReportInv, Apart, SeenOf

(* The same batches are left. *)
LEMMA SettlesNone ==
    ASSUME ReportInv, outcome' = outcome, scanned' = scanned, Remaining' = Remaining
    PROVE  NamedOnce' /\ \A c, d \in Remaining' : SeenOf(c) \cap SeenOf(d) # {} => c = d
BY DEF ReportInv, Apart, NamedOnce, Outstanding, SeenOf

(* Where a step of the scan leads, as far as its result goes. *)
Moves == UNCHANGED <<batches, planned, current, scanned, outcome>>
Settles(b) == NextBatch(Reported(b))

LEMMA MoveReports ==
    ASSUME ReportInv, Moves, server' = "up" \/ (pc' = pc /\ server' = server),
           \/ pc' = pc
           \/ pc = "idle" /\ pc' = "discover"
           \/ pc = "plan" /\ batches = {} /\ pc' = "revalidate"
           \/ pc = "revalidate" /\ planned = {} /\ pc' = "done"
           \/ pc \in Importing /\ pc' \in Importing
    PROVE  (Phases /\ Apart /\ NamedOnce)'
<1>1. Remaining' = Remaining
  BY DEF Moves, Remaining
<1>2. NamedOnce' /\ Apart'
  BY <1>1, SettlesNone DEF Moves, ReportInv, Apart, SeenOf
<1>3. Phases'
  <2> USE DEF ReportInv, Phases, Remaining, Importing, Moves
  <2>1. CASE pc' = pc
    BY <2>1
  <2>2. CASE pc # pc'
    BY <2>2
  <2> QED
    BY <2>1, <2>2
<1> QED
  BY <1>2, <1>3

LEMMA SettleReports ==
    ASSUME ReportInv, pc \in Importing, NEW b \in current, Settles(b), server' = server
    PROVE  (Phases /\ Apart /\ NamedOnce)'
<1>1. current = {b}
  BY DEF ReportInv, ScanTypeOK
<1>2. batches' = batches /\ planned' = planned /\ current' = {} /\ pc' = "revalidate"
      /\ outcome' = Reported(b) /\ scanned' = scanned
  BY DEF Settles, NextBatch
<1>3. Remaining' = Remaining \ {b} /\ b \in Remaining
  BY <1>1, <1>2 DEF Remaining, ReportInv, Apart
<1>4. NamedOnce' /\ Apart'
  BY <1>2, <1>3, SettlesOne DEF ReportInv, Apart, SeenOf
<1>5. Phases'
  BY <1>2 DEF ReportInv, Phases, Importing
<1> QED
  BY <1>4, <1>5

(* A batch moves from one set to another, or is settled. *)
LEMMA PlanReports ==
    ASSUME ReportInv, PlanBatch
    PROVE  (Phases /\ Apart /\ NamedOnce)'
<1>1. pc = "plan" /\ current = {} /\ current' = {} /\ scanned' = scanned /\ server' = server
      /\ server = "up"
  BY DEF PlanBatch, At, ReportInv, Phases, world
<1>2. CASE batches = {} /\ pc' = "revalidate" /\ UNCHANGED <<batches, planned, outcome>>
  BY <1>1, <1>2, MoveReports DEF Moves
<1>3. ASSUME NEW b \in batches, batches' = batches \ {b}, pc' = pc,
             outcome' = Reported(b), planned' = planned
      PROVE  (Phases /\ Apart /\ NamedOnce)'
  <2>1. Remaining' = Remaining \ {b} /\ b \in Remaining
    BY <1>1, <1>3 DEF Remaining, ReportInv, Apart
  <2>2. NamedOnce' /\ Apart'
    BY <1>1, <1>3, <2>1, SettlesOne DEF ReportInv, Apart, SeenOf
  <2> QED
    BY <1>1, <1>3, <2>2 DEF Phases, Importing
<1>4. ASSUME NEW b \in batches, batches' = batches \ {b}, pc' = pc,
             planned' = planned \cup {b}, outcome' = outcome
      PROVE  (Phases /\ Apart /\ NamedOnce)'
  <2>1. Remaining' = Remaining
    BY <1>1, <1>4 DEF Remaining
  <2>2. NamedOnce' /\ Apart'
    BY <1>1, <1>4, <2>1, SettlesNone DEF ReportInv, Apart, SeenOf
  <2> QED
    BY <1>1, <1>4, <2>2 DEF Phases, Importing
<1> QED
  BY <1>2, <1>3, <1>4 DEF PlanBatch

LEMMA RevalidateReports ==
    ASSUME ReportInv, Revalidate
    PROVE  (Phases /\ Apart /\ NamedOnce)'
<1>1. pc = "revalidate" /\ batches = {} /\ current = {} /\ server' = server /\ server = "up"
  BY DEF Revalidate, At, ReportInv, Phases, world
<1>2. CASE planned = {} /\ Goto("done") /\ UNCHANGED outcome
  BY <1>1, <1>2, MoveReports DEF Moves, Goto
<1>3. ASSUME NEW b \in planned, planned' = planned \ {b}, UNCHANGED <<batches, scanned>>,
             pc' = "normalize", current' = {b}, UNCHANGED outcome
      PROVE  (Phases /\ Apart /\ NamedOnce)'
  <2>1. Remaining' = Remaining
    BY <1>1, <1>3 DEF Remaining
  <2>2. NamedOnce' /\ Apart'
    BY <1>1, <1>3, <2>1, SettlesNone DEF ReportInv, Apart, SeenOf
  <2> QED
    BY <1>1, <1>3, <2>2 DEF Phases, Importing
<1>4. ASSUME NEW b \in planned, planned' = planned \ {b}, UNCHANGED <<batches, scanned>>,
             outcome' = Reported(b), UNCHANGED <<pc, current>>
      PROVE  (Phases /\ Apart /\ NamedOnce)'
  <2>1. Remaining' = Remaining \ {b} /\ b \in Remaining
    BY <1>1, <1>4 DEF Remaining
  <2>2. NamedOnce' /\ Apart'
    BY <1>1, <1>4, <2>1, SettlesOne DEF ReportInv, Apart, SeenOf
  <2> QED
    BY <1>1, <1>4, <2>2 DEF Phases, Importing
<1> QED
  BY <1>2, <1>3, <1>4 DEF Revalidate

LEMMA DiscoverReports ==
    ASSUME ReportInv, Discover
    PROVE  (Phases /\ Apart /\ NamedOnce)'
<1>1. Remaining' = batches' /\ planned' = {} /\ current' = {} /\ server' = "up"
  BY DEF Discover, At, ReportInv, Phases, Remaining
<1>2. \A b : b \in batches' <=> \E dir \in Dirs : b \in BatchesOf(dir)
  BY DEF Discover
<1>3. \A dir \in Dirs : \A n \in ToImport(dir) : <<dir, n>> \in Paths /\ Considered(<<dir, n>>)
                                              /\ Counted(<<dir, n>>)
  BY DEF ToImport, Considered, Paths
<1>4. \A b \in batches' : SeenOf(b) # {} /\ SeenOf(b) \subseteq scanned'
  <2> SUFFICES ASSUME NEW b \in batches'
               PROVE  SeenOf(b) # {} /\ \A p \in SeenOf(b) : p \in scanned'
    OBVIOUS
  <2>1. PICK dir \in Dirs : b \in BatchesOf(dir)
    BY <1>2
  <2>2. b \in AnyBatch /\ b.seen = dir /\ b.names \subseteq ToImport(dir) /\ b.names # {}
    BY <2>1, FoundThere
  <2>3. ASSUME NEW p \in SeenOf(b)
        PROVE  p \in scanned'
    <3>1. p \in Paths /\ p = <<dir, p[2]>> /\ p[2] \in ToImport(dir)
      BY <2>2, <2>3, InBatch, PathParts
    <3> QED
      BY <3>1, <1>3 DEF Discover
  <2>4. PICK n \in b.names : TRUE
    BY <2>2
  <2>5. <<b.seen, n>> \in SeenOf(b)
    BY <2>4 DEF SeenOf
  <2> QED
    BY <2>3, <2>5
<1>5. \A b, c \in batches' : SeenOf(b) \cap SeenOf(c) # {} => b = c
  <2> SUFFICES ASSUME NEW b \in batches', NEW c \in batches', NEW p \in SeenOf(b),
                      p \in SeenOf(c)
               PROVE  b = c
    OBVIOUS
  <2>1. PICK dir \in Dirs : b \in BatchesOf(dir)
    BY <1>2
  <2>2. PICK other \in Dirs : c \in BatchesOf(other)
    BY <1>2
  <2>3. /\ b \in AnyBatch /\ b.seen = dir /\ c \in AnyBatch /\ c.seen = other
    BY <2>1, <2>2, FoundThere
  <2>4. dir = other /\ p[2] \in b.names \cap c.names
    BY <2>3, InBatch
  <2> QED
    BY <2>1, <2>2, <2>4, FoundOnce
<1>6. \A p \in Paths : Outstanding(p)' <=> Considered(p) /\ Kind[p[1]] # "alien"
  <2> SUFFICES ASSUME NEW p \in Paths
               PROVE  Outstanding(p)' <=> Considered(p) /\ Kind[p[1]] # "alien"
    OBVIOUS
  <2>1. Outstanding(p)' <=> \E b \in batches' : p \in SeenOf(b)
    BY <1>1 DEF Outstanding, SeenOf
  <2>2. ASSUME NEW b \in batches', p \in SeenOf(b)
        PROVE  Considered(p) /\ Kind[p[1]] # "alien"
    <3>1. PICK dir \in Dirs : b \in BatchesOf(dir)
      BY <1>2
    <3>2. b \in AnyBatch /\ b.seen = dir /\ b.names \subseteq ToImport(dir) /\ Kind[dir] # "alien"
      BY <3>1, FoundThere
    <3>3. p = <<dir, p[2]>> /\ p[1] = dir /\ p[2] \in ToImport(dir)
      BY <2>2, <3>2, InBatch, PathParts
    <3> QED
      BY <1>3, <3>2, <3>3
  <2>3. ASSUME Considered(p), Kind[p[1]] # "alien"
        PROVE  \E b \in batches' : p \in SeenOf(b)
    <3>1. p[1] \in Dirs /\ p[2] \in ToImport(p[1])
      BY <2>3, PathParts DEF ToImport
    <3>2. PICK b \in BatchesOf(p[1]) : p[2] \in b.names
      BY <2>3, <3>1, EveryFileFound
    <3>3. b \in AnyBatch /\ b.seen = p[1]
      BY <3>1, <3>2, FoundThere
    <3> QED
      BY <1>2, <3>1, <3>2, <3>3, InBatch
  <2> QED
    BY <2>1, <2>2, <2>3
<1>7. \A p \in Paths : p \in scanned' <=> Counted(p)
  BY DEF Discover
<1>8. \A p \in Paths : (IF Counted(p) /\ (Kind[p[1]] = "alien" \/ ~Considered(p)) THEN 1 ELSE 0)
                         = (IF p \in scanned' /\ ~Outstanding(p)' THEN 1 ELSE 0)
  BY <1>6, <1>7 DEF Considered
<1>9. NamedOnce'
  BY <1>8 DEF Discover, NamedOnce
<1>10. Apart'
  BY <1>1, <1>4, <1>5 DEF Apart, SeenOf
<1> QED
  BY <1>1, <1>9, <1>10 DEF Phases, Importing, Discover

(* A folder is renamed: the batch is the same, in another place. *)
LEMMA RenameReports ==
    ASSUME ReportInv, pc \in Importing, pc' \in Importing, server' = server,
           NEW b \in current, NEW dir \in Dirs, current' = {[b EXCEPT !.dir = dir]},
           UNCHANGED <<batches, planned, scanned, outcome>>
    PROVE  (Phases /\ Apart /\ NamedOnce)'
<1> DEFINE c == [b EXCEPT !.dir = dir]
<1>1. current = {b} /\ b \in AnyBatch /\ batches = {}
  BY DEF ReportInv, ScanTypeOK, Phases
<1>2. c \in AnyBatch /\ c.seen = b.seen /\ c.names = b.names
  BY <1>1 DEF AnyBatch
<1>3. SeenOf(c) = SeenOf(b)
  BY <1>2 DEF SeenOf
<1> HIDE DEF c
<1>4. Remaining' = planned \cup {c} /\ Remaining = planned \cup {b} /\ b \notin planned
  BY <1>1 DEF Remaining, ReportInv, Apart, c
<1>5. \A p \in Paths : Outstanding(p)' <=> Outstanding(p)
  BY <1>3, <1>4 DEF Outstanding, SeenOf
<1>6. NamedOnce'
  BY <1>5 DEF ReportInv, NamedOnce
<1>7. \A d \in planned : SeenOf(d) \cap SeenOf(c) = {}
  BY <1>3, <1>4 DEF ReportInv, Apart
<1>8. SeenOf(c) # {} /\ SeenOf(c) \subseteq scanned
  BY <1>3, <1>4 DEF ReportInv, Apart
<1>9. c \notin planned
  BY <1>7, <1>8
<1>10. \A d, e \in Remaining' : SeenOf(d) \cap SeenOf(e) # {} => d = e
  BY <1>4, <1>7 DEF ReportInv, Apart
<1>11. \A d \in Remaining' : SeenOf(d) # {} /\ SeenOf(d) \subseteq scanned
  BY <1>4, <1>8 DEF ReportInv, Apart
<1>12. current' = {c} /\ batches' = {}
  BY <1>1 DEF c
<1>13. Apart'
  BY <1>9, <1>10, <1>11, <1>12 DEF Apart, SeenOf
<1>14. Phases'
  BY <1>12 DEF ReportInv, Phases, Importing
<1> QED
  BY <1>6, <1>13, <1>14

-----------------------------------------------------------------------------
(* Types, and what is known of planned batches. *)

LEMMA SmallestRow ==
    ASSUME NEW free \in SUBSET Ops, free # {}
    PROVE  Min(free) \in free
<1>1. free \subseteq Nat
  BY ScanAssumption DEF Ops
<1>2. PICK s \in free : \A t \in free : ~(<<t, s>> \in OpToRel(<, Nat))
  BY <1>1, NatLessThanWellFounded, WFMin, Zenon
<1>3. \A t \in free : s <= t
  <2> TAKE t \in free
  <2>1. s \in Nat /\ t \in Nat /\ <<t, s>> \notin {p \in Nat \X Nat : p[1] < p[2]}
    BY <1>1, <1>2 DEF OpToRel
  <2>2. ~(t < s)
    BY <2>1
  <2> QED
    BY <2>1, <2>2
<1> QED
  BY <1>3 DEF Min

LEMMA RowStates ==
    ASSUME NEW j \in [Ops -> JournalStates], NEW o, NEW state \in JournalStates
    PROVE  /\ SetState(j, o, state) \in [Ops -> JournalStates]
           /\ SetStateTx(j, o, state) \in [Ops -> JournalStates]
           /\ CreateRow(j, o) \in [Ops -> JournalStates]
           /\ \A r \in Ops : SetState(j, o, state)[r] # "absent" => j[r] # "absent"
           /\ \A r \in Ops : CreateRow(j, o)[r] # "absent" => j[r] # "absent" \/ r = o
BY DEF SetState, SetStateTx, CreateRow, JournalStates

LEMMA WritesTyped ==
    ASSUME ScanTypeOK, NEW path
    PROVE  /\ path \in Paths /\ Write(path) => disk' \in [Dirs -> SUBSET Names]
           /\ Erase(path) => disk' \in [Dirs -> SUBSET Names]
<1>1. path \in Paths => path[2] \in Names
  BY PathParts
<1> QED
  BY <1>1 DEF ScanTypeOK, Write, Erase

(* ScanTypeOK in four parts. *)
LocalTyped ==
    /\ pc \in PCs
    /\ batches \subseteq AnyBatch /\ planned \subseteq AnyBatch
    /\ current \subseteq AnyBatch /\ \A b, c \in current : b = c
    /\ scanned \subseteq Paths /\ outcome \in [Paths -> Nat]
    /\ op \in Ops \cup {NoOp}
StoredTyped ==
    /\ disk \in [Dirs -> SUBSET Names] /\ catalog \subseteq SUBSET Paths
    /\ journal \in [Ops -> JournalStates] /\ claim \in [Ops -> Paths \cup {<<>>}]
WorldTyped ==
    /\ server \in {"up", "recovering"} /\ pending \subseteq Ops
    /\ changed \subseteq Paths /\ lost \subseteq Paths
CountsTyped == faults \in 0..MaxFaults /\ stops \in 0..MaxStops /\ user \in 0..MaxUser

LEMMA TypeParts == ScanTypeOK <=> LocalTyped /\ StoredTyped /\ WorldTyped /\ CountsTyped
BY DEF ScanTypeOK, LocalTyped, StoredTyped, WorldTyped, CountsTyped

LEMMA ReportsTyped ==
    ASSUME ScanTypeOK, NEW b
    PROVE  Reported(b) \in [Paths -> Nat]
BY DEF ScanTypeOK, Reported

LEMMA LeaveTyped ==
    ASSUME Leave
    PROVE  LocalTyped' /\ WellPlanned'
BY DEF Leave, LocalTyped, WellPlanned, PCs, Nothing

LEMMA SettleTyped ==
    ASSUME ReportInv, NEW b, Settles(b)
    PROVE  LocalTyped' /\ WellPlanned'
<1>1. outcome' \in [Paths -> Nat]
  BY ReportsTyped DEF ReportInv, Settles, NextBatch
<1> QED
  BY <1>1 DEF ReportInv, ScanTypeOK, Settles, NextBatch, LocalTyped, WellPlanned, PCs, NoOp

LEMMA CountsKept ==
    ASSUME CountsTyped, UNCHANGED counts \/ Fault \/ Stop \/ Meddle
    PROVE  CountsTyped'
BY ScanAssumption DEF CountsTyped, counts, Fault, Stop, Meddle

(* The part of the scan itself, and of everybody's files and rows. *)
ScanPart == (Phases /\ Apart /\ NamedOnce) /\ (LocalTyped /\ WellPlanned)
RestPart == StoredTyped /\ WorldTyped /\ CountsTyped

LEMMA Parts == ReportInv <=> ScanPart /\ RestPart
BY TypeParts DEF ReportInv, ScanPart, RestPart

LEMMA LeavePart ==
    ASSUME Leave, server' \in {"up", "recovering"}
    PROVE  ScanPart'
BY LeaveReports, LeaveTyped DEF ScanPart

LEMMA SettlePart ==
    ASSUME ReportInv, pc \in Importing, NEW b \in current, Settles(b), server' = server
    PROVE  ScanPart'
BY SettleReports, SettleTyped DEF ScanPart

LEMMA OthersPart ==
    ASSUME ReportInv, UNCHANGED local, server' = server \/ server' = "up"
    PROVE  ScanPart'
<1>1. (Phases /\ Apart /\ NamedOnce)'
  BY MoveReports DEF local, Moves
<1> QED
  BY <1>1 DEF ReportInv, ScanTypeOK, ScanPart, LocalTyped, WellPlanned, local

LEMMA UnmovedRest ==
    ASSUME ReportInv, UNCHANGED <<stored, world>>, UNCHANGED counts \/ Fault \/ Stop \/ Meddle
    PROVE  RestPart'
BY Parts, CountsKept DEF RestPart, StoredTyped, WorldTyped, stored, world

(* The steps between discovery and import. *)
LEMMA DiscoverPart ==
    ASSUME ReportInv, Discover
    PROVE  ScanPart' /\ RestPart'
<1>1. (Phases /\ Apart /\ NamedOnce)'
  BY DiscoverReports
<1>2. /\ planned = {} /\ current = {} /\ planned' = {} /\ current' = {}
      /\ op' = NoOp /\ op \in Ops \cup {NoOp} /\ pc' = "plan"
  BY DEF Discover, At, ReportInv, Phases, Remaining, WellPlanned, ScanTypeOK
<1>3. \A b \in batches' : b \in AnyBatch /\ b.dir = b.seen /\ Kind[b.dir] \in {"folder", "loose"}
  BY FoundThere DEF Discover
<1>4. scanned' \subseteq Paths /\ outcome' \in [Paths -> Nat]
  BY DEF Discover
<1>5. LocalTyped' /\ WellPlanned'
  BY <1>2, <1>3, <1>4 DEF LocalTyped, WellPlanned, PCs
<1>6. CountsTyped' /\ StoredTyped'
  BY Parts, CountsKept DEF Discover, RestPart, StoredTyped, stored
<1>7. WorldTyped'
  BY Parts DEF Discover, RestPart, WorldTyped
<1> QED
  BY <1>1, <1>5, <1>6, <1>7 DEF ScanPart, RestPart

LEMMA PlanPart ==
    ASSUME ReportInv, PlanBatch
    PROVE  ScanPart'
<1>1. (Phases /\ Apart /\ NamedOnce)'
  BY PlanReports
<1>2. pc = "plan" /\ current = {} /\ current' = {} /\ scanned' = scanned /\ op' = op
  BY DEF PlanBatch, At, ReportInv, Phases
<1>3. CASE batches = {} /\ pc' = "revalidate" /\ UNCHANGED <<batches, planned, outcome>>
  BY <1>1, <1>2, <1>3 DEF ReportInv, ScanTypeOK, ScanPart, LocalTyped, WellPlanned, PCs
<1>4. ASSUME NEW b \in batches, batches' = batches \ {b}, pc' = pc,
             outcome' = Reported(b), planned' = planned
      PROVE  ScanPart'
  <2>1. outcome' \in [Paths -> Nat]
    BY <1>4, ReportsTyped DEF ReportInv
  <2> QED
    BY <1>1, <1>2, <1>4, <2>1 DEF ReportInv, ScanTypeOK, ScanPart, LocalTyped, WellPlanned
<1>5. ASSUME NEW b \in batches, batches' = batches \ {b}, pc' = pc, Importable(b),
             planned' = planned \cup {b}, outcome' = outcome
      PROVE  ScanPart'
  <2>1. b \in AnyBatch /\ b.dir = b.seen /\ Kind[b.dir] \in {"folder", "loose"}
    BY DEF ReportInv, ScanTypeOK, WellPlanned
  <2>2. b.names \in SUBSET Names /\ DescribesOneGame(b.names)
    BY <1>5, <2>1, BatchParts DEF Importable
  <2>3. HasPlaylist(b.names) => Kind[b.seen] = "folder"
    BY <1>5, <2>1, <2>2, GameNames DEF Importable, Untried
  <2> QED
    BY <1>1, <1>2, <1>5, <2>1, <2>2, <2>3
    DEF ReportInv, ScanTypeOK, ScanPart, LocalTyped, WellPlanned
<1> QED
  BY <1>3, <1>4, <1>5 DEF PlanBatch

LEMMA RevalidatePart ==
    ASSUME ReportInv, Revalidate
    PROVE  ScanPart'
<1>1. (Phases /\ Apart /\ NamedOnce)'
  BY RevalidateReports
<1>2. pc = "revalidate" /\ batches = {} /\ current = {} /\ batches' = {} /\ scanned' = scanned
      /\ op' = op
  BY DEF Revalidate, At, ReportInv, Phases, Goto
<1>3. CASE planned = {} /\ Goto("done") /\ UNCHANGED outcome
  BY <1>1, <1>2, <1>3 DEF ReportInv, ScanTypeOK, ScanPart, LocalTyped, WellPlanned, PCs, Goto
<1>4. ASSUME NEW b \in planned, planned' = planned \ {b}, pc' = "normalize", current' = {b},
             UNCHANGED outcome
      PROVE  ScanPart'
  <2>1. op = NoOp
    BY <1>2 DEF ReportInv, WellPlanned
  <2> QED
    BY <1>1, <1>2, <1>4, <2>1 DEF ReportInv, ScanTypeOK, ScanPart, LocalTyped, WellPlanned, PCs
<1>5. ASSUME NEW b \in planned, planned' = planned \ {b}, outcome' = Reported(b),
             UNCHANGED <<pc, current>>
      PROVE  ScanPart'
  <2>1. outcome' \in [Paths -> Nat]
    BY <1>5, ReportsTyped DEF ReportInv
  <2> QED
    BY <1>1, <1>2, <1>5, <2>1 DEF ReportInv, ScanTypeOK, ScanPart, LocalTyped, WellPlanned
<1> QED
  BY <1>3, <1>4, <1>5 DEF Revalidate

(* A step of the import that keeps the batch. *)
LEMMA MovePart ==
    ASSUME ReportInv, Moves, op' = op, server' = server, server = "up",
           \/ pc = "idle" /\ pc' = "discover"
           \/ pc = "normalize" /\ pc' = "reserve"
           \/ pc = "reserve" /\ pc' = "save"
           \/ pc = "reserve" /\ pc' = "journal" /\ \A b \in current : Generates(b.names)
           \/ pc = "write" /\ pc' = "save"
           \/ pc = "save" /\ pc' \in {"judge", "complete"} /\ op # NoOp
    PROVE  ScanPart'
<1>1. (Phases /\ Apart /\ NamedOnce)'
  BY MoveReports DEF Importing
<1>2. LocalTyped'
  BY DEF ReportInv, ScanTypeOK, LocalTyped, Moves, PCs
<1>3. WellPlanned'
  BY DEF ReportInv, WellPlanned, Moves
<1> QED
  BY <1>1, <1>2, <1>3 DEF ScanPart

LEMMA InHandParts ==
    ASSUME ReportInv, NEW b \in current
    PROVE  /\ current = {b} /\ b \in AnyBatch /\ DescribesOneGame(b.names)
           /\ HasPlaylist(b.names) => Kind[b.seen] = "folder"
           /\ pc \in {"journal", "write", "judge"} \/ op # NoOp => Generates(b.names)
BY DEF ReportInv, ScanTypeOK, WellPlanned

LEMMA NormalizePart ==
    ASSUME ReportInv, Normalize
    PROVE  ScanPart' /\ RestPart'
<1>1. PICK b \in current :
        LET from == b.dir
            to == Home[PlaylistName(b.names)]
            Follow(paths) == paths \cup {<<to, p[2]>> : p \in {q \in paths : q[1] = from}}
        IN \/ /\ HasPlaylist(b.names) => to = from
              /\ Goto("reserve") /\ UNCHANGED <<outcome, op, disk, changed, lost>>
           \/ /\ HasPlaylist(b.names) /\ to # from /\ IsDir(to)
              /\ NextBatch(Reported(b)) /\ UNCHANGED <<disk, changed, lost>>
           \/ /\ HasPlaylist(b.names) /\ to # from /\ ~IsDir(to)
              /\ disk' = [disk EXCEPT ![to] = disk[from], ![from] = {}]
              /\ changed' = Follow(changed) /\ lost' = Follow(lost)
              /\ current' = {[b EXCEPT !.dir = to]} /\ pc' = "reserve"
              /\ UNCHANGED <<batches, planned, scanned, outcome, op>>
  BY DEF Normalize
<1>2. /\ pc = "normalize" /\ server = "up" /\ server' = server /\ pending' = pending
      /\ UNCHANGED <<catalog, journal, claim, counts>> /\ op = NoOp
  BY DEF Normalize, At, ReportInv, WellPlanned
<1> DEFINE from == b.dir
           to == Home[PlaylistName(b.names)]
           Follow(paths) == paths \cup {<<to, p[2]>> : p \in {q \in paths : q[1] = from}}
<1>3. CountsTyped'
  BY <1>2, Parts, CountsKept DEF RestPart
<1>4. CASE Goto("reserve") /\ UNCHANGED <<outcome, op, disk, changed, lost>>
  <2>1. ScanPart'
    BY <1>2, <1>4, MovePart DEF Goto, Moves
  <2> QED
    BY <1>2, <1>3, <1>4, <2>1 DEF ReportInv, ScanTypeOK, RestPart, StoredTyped, WorldTyped
<1>5. CASE NextBatch(Reported(b)) /\ UNCHANGED <<disk, changed, lost>>
  <2>1. ScanPart'
    BY <1>2, <1>5, SettlePart DEF Settles, Importing
  <2> QED
    BY <1>2, <1>3, <1>5, <2>1 DEF ReportInv, ScanTypeOK, RestPart, StoredTyped, WorldTyped
<1>6. ASSUME HasPlaylist(b.names),
             disk' = [disk EXCEPT ![to] = disk[from], ![from] = {}],
             changed' = Follow(changed), lost' = Follow(lost),
             current' = {[b EXCEPT !.dir = to]}, pc' = "reserve",
             UNCHANGED <<batches, planned, scanned, outcome, op>>
      PROVE  ScanPart' /\ RestPart'
  <2>1. /\ b \in AnyBatch /\ DescribesOneGame(b.names) /\ b.dir \in Dirs
        /\ HasPlaylist(b.names) => Kind[b.seen] = "folder"
    BY InHandParts, BatchParts
  <2>2. to \in Dirs
    BY <1>6, <2>1, BatchParts, GameNames, ScanAssumption
  <2> DEFINE c == [b EXCEPT !.dir = to]
  <2>3. c \in AnyBatch /\ c.names = b.names /\ c.seen = b.seen
    BY <2>1, <2>2 DEF AnyBatch
  <2>4. \A paths : paths \subseteq Paths => Follow(paths) \subseteq Paths
    <3> SUFFICES ASSUME NEW paths, paths \subseteq Paths, NEW p \in paths
                 PROVE  <<to, p[2]>> \in Paths
      OBVIOUS
    <3> HIDE DEF to
    <3> QED
      BY <2>2, PathParts, PathOf
  <2>5. changed' \subseteq Paths /\ lost' \subseteq Paths
    <3> HIDE DEF Follow
    <3> QED
      BY <1>6, <2>4 DEF ReportInv, ScanTypeOK
  <2>6. disk' \in [Dirs -> SUBSET Names]
    <3> HIDE DEF to
    <3> QED
      BY <1>6, <2>1, <2>2 DEF ReportInv, ScanTypeOK
  <2>7. RestPart'
    BY <1>2, <1>3, <2>5, <2>6 DEF ReportInv, ScanTypeOK, RestPart, StoredTyped, WorldTyped
  <2> HIDE DEF to
  <2>8. (Phases /\ Apart /\ NamedOnce)'
    BY <1>2, <1>6, <2>2, RenameReports DEF Importing
  <2> HIDE DEF c
  <2>9. current' = {c}
    BY <1>6 DEF c
  <2>10. WellPlanned'
    BY <1>2, <1>6, <2>1, <2>3, <2>9 DEF ReportInv, WellPlanned
  <2>11. LocalTyped'
    BY <1>6, <2>3, <2>9 DEF ReportInv, ScanTypeOK, LocalTyped, PCs
  <2> QED
    BY <2>7, <2>8, <2>10, <2>11 DEF ScanPart
<1> QED
  BY <1>1, <1>4, <1>5, <1>6

LEMMA ReservePart ==
    ASSUME ReportInv, Reserve
    PROVE  ScanPart'
<1>1. PICK b \in current :
         IF ~Generates(b.names)
           THEN Goto("save") /\ UNCHANGED <<outcome, op>>
           ELSE IF OnDisk(NewPath(b)) \/ NewPath(b) \in Indexed
                  THEN NextBatch(Reported(b))
                  ELSE Goto("journal") /\ UNCHANGED <<outcome, op>>
  BY DEF Reserve
<1>2. pc = "reserve" /\ server = "up" /\ server' = server /\ current = {b}
  BY InHandParts DEF Reserve, At, world
<1>3. CASE ~Generates(b.names) /\ Goto("save") /\ UNCHANGED <<outcome, op>>
  BY <1>2, <1>3, MovePart DEF Goto, Moves
<1>4. CASE NextBatch(Reported(b))
  BY <1>2, <1>4, SettlePart DEF Settles, Importing
<1>5. CASE Generates(b.names) /\ Goto("journal") /\ UNCHANGED <<outcome, op>>
  BY <1>2, <1>5, MovePart DEF Goto, Moves
<1> QED
  BY <1>1, <1>3, <1>4, <1>5

LEMMA JournalPart ==
    ASSUME ReportInv, JournalPlaylist
    PROVE  ScanPart' /\ RestPart'
<1> DEFINE free == {o \in Ops : journal[o] \in {"absent", "completed"}}
<1>1. PICK b \in current :
         /\ free # {} /\ op' = Min(free) /\ journal' = CreateRow(journal, Min(free))
         /\ claim' = [claim EXCEPT ![Min(free)] = NewPath(b)]
  BY DEF JournalPlaylist
<1>2. /\ pc = "journal" /\ pc' = "write" /\ server = "up" /\ Moves
      /\ UNCHANGED <<disk, catalog, world, counts>>
  BY DEF JournalPlaylist, At, Goto, Moves
<1>3. Min(free) \in Ops
  BY <1>1, SmallestRow
<1> HIDE DEF free
<1>4. NewPath(b) \in Paths
  BY <1>2, InHandParts, BatchParts, GameNames, GamePaths
<1>5. (Phases /\ Apart /\ NamedOnce)'
  BY <1>2, MoveReports DEF Importing, world
<1>6. LocalTyped'
  BY <1>1, <1>2, <1>3 DEF ReportInv, ScanTypeOK, LocalTyped, Moves, PCs
<1>7. WellPlanned'
  BY <1>2 DEF ReportInv, WellPlanned, Moves
<1>8. StoredTyped'
  <2>1. journal' \in [Ops -> JournalStates]
    BY <1>1, RowStates DEF ReportInv, ScanTypeOK, JournalStates
  <2> QED
    BY <1>1, <1>2, <1>4, <2>1 DEF ReportInv, ScanTypeOK, StoredTyped
<1>9. WorldTyped' /\ CountsTyped'
  BY <1>2, Parts, CountsKept DEF RestPart, WorldTyped, world
<1> QED
  BY <1>5, <1>6, <1>7, <1>8, <1>9 DEF ScanPart, RestPart

(* The files and rows after a step that writes some of them. *)
LEMMA RestKept ==
    ASSUME ReportInv, disk' \in [Dirs -> SUBSET Names], catalog' \subseteq SUBSET Paths,
           \/ journal' = journal
           \/ \E o : \E state \in JournalStates : journal' = SetState(journal, o, state)
           \/ \E o : \E state \in JournalStates : journal' = SetStateTx(journal, o, state),
           claim' = claim, WorldTyped',
           UNCHANGED counts \/ Fault \/ Stop \/ Meddle
    PROVE  RestPart'
<1>1. journal' \in [Ops -> JournalStates]
  BY RowStates DEF ReportInv, ScanTypeOK
<1> QED
  BY <1>1, Parts, CountsKept DEF RestPart, StoredTyped

LEMMA UserPart ==
    ASSUME ReportInv,
           \/ \E path \in UserPaths : UserAdds(path) \/ UserRemoves(path) \/ UserChanges(path)
           \/ \E game \in catalog : GameDeleted(game)
    PROVE  ScanPart' /\ RestPart'
<1>1. ASSUME NEW path \in UserPaths, UserAdds(path) \/ UserRemoves(path) \/ UserChanges(path)
      PROVE  ScanPart' /\ RestPart'
  <2>1. path \in Paths
    BY ScanAssumption
  <2>2. ScanPart'
    BY <1>1, OthersPart DEF UserAdds, UserRemoves, UserChanges
  <2>3. disk' \in [Dirs -> SUBSET Names]
    BY <1>1, <2>1, WritesTyped DEF UserAdds, UserRemoves, UserChanges, stored, ReportInv, ScanTypeOK
  <2>4. WorldTyped'
    BY <1>1, <2>1 DEF UserAdds, UserRemoves, UserChanges, ReportInv, ScanTypeOK, WorldTyped
  <2> QED
    BY <1>1, <2>2, <2>3, <2>4, RestKept
    DEF UserAdds, UserRemoves, UserChanges, stored, ReportInv, ScanTypeOK
<1>2. ASSUME NEW game \in catalog, GameDeleted(game)
      PROVE  ScanPart' /\ RestPart'
  <2>1. ScanPart'
    BY <1>2, OthersPart DEF GameDeleted
  <2>2. disk' \in [Dirs -> SUBSET Names]
    BY <1>2 DEF GameDeleted, ReportInv, ScanTypeOK
  <2>3. WorldTyped' /\ catalog' \subseteq SUBSET Paths
    BY <1>2 DEF GameDeleted, ReportInv, ScanTypeOK, WorldTyped
  <2> QED
    BY <1>2, <2>1, <2>2, <2>3, RestKept DEF GameDeleted
<1> QED
  BY <1>1, <1>2

LEMMA RecoveryPart ==
    ASSUME ReportInv, Recovery
    PROVE  ScanPart' /\ RestPart'
<1>1. CASE Ready
  <2>1. ScanPart'
    BY <1>1, OthersPart DEF Ready
  <2>2. WorldTyped'
    BY <1>1 DEF Ready, ReportInv, ScanTypeOK, WorldTyped
  <2> QED
    BY <1>1, <2>1, <2>2, RestKept DEF Ready, stored, ReportInv, ScanTypeOK
<1>2. ASSUME NEW o \in Ops, RecoverUndecided(o) \/ RecoverCommitted(o)
      PROVE  ScanPart' /\ RestPart'
  <2>1. PICK state \in JournalStates : Reconciled(o, state)
    BY <1>2 DEF RecoverUndecided, RecoverCommitted, JournalStates
  <2>2. ScanPart'
    BY <2>1, OthersPart DEF Reconciled
  <2>3. disk' \in [Dirs -> SUBSET Names] /\ (UNCHANGED counts \/ Fault)
    BY <1>2, WritesTyped DEF RecoverUndecided, RecoverCommitted, ReportInv, ScanTypeOK
  <2>4. WorldTyped'
    BY <2>1 DEF Reconciled, ReportInv, ScanTypeOK, WorldTyped
  <2> QED
    BY <2>1, <2>2, <2>3, <2>4, RestKept DEF Reconciled, ReportInv, ScanTypeOK
<1> QED
  BY <1>1, <1>2 DEF Recovery

LEMMA StopsPart ==
    ASSUME ReportInv, Cancel \/ Crash \/ Finish \/ StepFails \/ DiscoverFails
    PROVE  ScanPart' /\ RestPart'
<1>1. Leave /\ UNCHANGED stored /\ (UNCHANGED counts \/ Fault \/ Stop)
  BY DEF Cancel, Crash, Finish, StepFails, DiscoverFails
<1>2. pending' \subseteq Ops /\ server' \in {"up", "recovering"} /\ UNCHANGED <<changed, lost>>
  BY DEF Cancel, Crash, Finish, StepFails, DiscoverFails, PendingOps, world, ReportInv, ScanTypeOK
<1>3. ScanPart'
  BY <1>1, <1>2, LeavePart
<1>4. WorldTyped'
  BY <1>2 DEF ReportInv, ScanTypeOK, WorldTyped
<1> QED
  BY <1>1, <1>3, <1>4, RestKept DEF stored, ReportInv, ScanTypeOK

LEMMA WritesPart ==
    ASSUME ReportInv, WritePlaylist \/ WriteFails \/ Judge
    PROVE  ScanPart' /\ RestPart'
<1>1. WorldTyped' /\ server' = server /\ server = "up" /\ pc \in {"write", "judge"}
  BY DEF WritePlaylist, WriteFails, Judge, At, world, ReportInv, ScanTypeOK, WorldTyped
<1>2. \A b \in current : NewPath(b) \in Paths
  BY <1>1, InHandParts, BatchParts, GameNames, GamePaths
<1>3. disk' \in [Dirs -> SUBSET Names] /\ claim' = claim /\ catalog' \subseteq SUBSET Paths
  BY <1>2, WritesTyped DEF WritePlaylist, WriteFails, Judge, ReportInv, ScanTypeOK
<1>4. CASE WritePlaylist
  <2>1. ScanPart'
    BY <1>1, <1>4, MovePart DEF WritePlaylist, At, Goto, Moves
  <2> QED
    BY <1>1, <1>3, <1>4, <2>1, RestKept DEF WritePlaylist
<1>5. CASE WriteFails \/ Judge
  <2>1. Leave /\ journal' = SetState(journal, op, "failed") /\ (UNCHANGED counts \/ Fault)
    BY <1>5 DEF WriteFails, Judge
  <2>2. ScanPart'
    BY <1>1, <2>1, LeavePart
  <2> QED
    BY <1>1, <1>3, <2>1, <2>2, RestKept DEF JournalStates
<1> QED
  BY <1>4, <1>5

LEMMA SavesPart ==
    ASSUME ReportInv, Save \/ SaveFails \/ CompleteRow
    PROVE  ScanPart' /\ RestPart'
<1>1. /\ WorldTyped' /\ server' = server /\ server = "up" /\ pc \in {"save", "complete"}
      /\ disk' = disk /\ disk \in [Dirs -> SUBSET Names] /\ claim' = claim
  BY DEF Save, SaveFails, CompleteRow, At, world, stored, ReportInv, ScanTypeOK, WorldTyped
<1>2. catalog' \subseteq SUBSET Paths
  BY InHandParts, GamePaths DEF Save, SaveFails, CompleteRow, stored, ReportInv, ScanTypeOK
<1>3. CASE Save
  <2>1. PICK b \in current :
             IF op = NoOp
              THEN NextBatch(Reported(b)) /\ UNCHANGED journal
              ELSE /\ journal' = SetStateTx(journal, op, "db_committed")
                   /\ Goto("complete") /\ UNCHANGED <<outcome, op>>
    BY <1>3 DEF Save
  <2>2. ScanPart'
    <3>1. CASE op = NoOp
      BY <1>1, <2>1, <3>1, SettlePart DEF Settles, Importing
    <3>2. CASE op # NoOp
      BY <1>1, <1>3, <2>1, <3>2, MovePart DEF Goto, Moves, Save, At
    <3> QED
      BY <3>1, <3>2
  <2>3. \/ journal' = journal
        \/ \E o : \E state \in JournalStates : journal' = SetStateTx(journal, o, state)
    BY <2>1 DEF JournalStates
  <2>4. UNCHANGED counts
    BY <1>3 DEF Save
  <2> QED
    BY <1>1, <1>2, <2>2, <2>3, <2>4, RestKept
<1>4. CASE SaveFails
  <2>1. ScanPart'
    <3>1. CASE op = NoOp
      BY <1>1, <1>4, <3>1, LeavePart DEF SaveFails
    <3>2. CASE op # NoOp
      BY <1>1, <1>4, <3>2, MovePart DEF Goto, Moves, SaveFails, At
    <3> QED
      BY <3>1, <3>2
  <2> QED
    BY <1>1, <1>2, <1>4, <2>1, RestKept DEF SaveFails, stored
<1>5. CASE CompleteRow
  <2>1. PICK b \in current : NextBatch(Reported(b))
    BY <1>5 DEF CompleteRow
  <2>2. ScanPart'
    BY <1>1, <1>5, <2>1, SettlePart DEF Settles, Importing, CompleteRow, At
  <2> QED
    BY <1>1, <1>2, <1>5, <2>2, RestKept DEF CompleteRow, JournalStates
<1> QED
  BY <1>3, <1>4, <1>5

LEMMA ReportStep ==
    ASSUME ReportInv, [ScanNext]_scanVars
    PROVE  ReportInv'
<1> SUFFICES ScanPart' /\ RestPart'
  BY DEF ReportInv, ScanPart, RestPart, ScanTypeOK, LocalTyped, StoredTyped, WorldTyped, CountsTyped
<1>1. CASE StartScan
  <2>1. ScanPart'
    BY <1>1, MovePart DEF StartScan, At, Goto, Moves, world
  <2> QED
    BY <1>1, <2>1, UnmovedRest DEF StartScan
<1>2. CASE Discover
  BY <1>2, DiscoverPart
<1>3. CASE PlanBatch
  BY <1>3, PlanPart, UnmovedRest DEF PlanBatch
<1>4. CASE Revalidate
  BY <1>4, RevalidatePart, UnmovedRest DEF Revalidate
<1>5. CASE Normalize
  BY <1>5, NormalizePart
<1>6. CASE Reserve
  BY <1>6, ReservePart, UnmovedRest DEF Reserve
<1>7. CASE JournalPlaylist
  BY <1>7, JournalPart
<1>8. CASE WritePlaylist \/ WriteFails \/ Judge
  BY <1>8, WritesPart
<1>9. CASE Save \/ SaveFails \/ CompleteRow
  BY <1>9, SavesPart
<1>10. CASE Cancel \/ Crash \/ Finish \/ StepFails \/ DiscoverFails
  BY <1>10, StopsPart
<1>11. CASE Recovery
  BY <1>11, RecoveryPart
<1>12. CASE \/ \E path \in UserPaths : UserAdds(path) \/ UserRemoves(path) \/ UserChanges(path)
            \/ \E game \in catalog : GameDeleted(game)
  BY <1>12, UserPart
<1>13. CASE UNCHANGED scanVars
  BY <1>13, OthersPart, UnmovedRest DEF scanVars, local, stored, world, counts
<1> QED
  BY <1>1, <1>2, <1>3, <1>4, <1>5, <1>6, <1>7, <1>8, <1>9, <1>10, <1>11, <1>12, <1>13
  DEF ScanNext, Scan

LEMMA ReportInit == ScanInit => ReportInv
<1> SUFFICES ASSUME ScanInit PROVE ReportInv
  OBVIOUS
<1>1. ScanTypeOK
  BY ScanAssumption DEF ScanInit, Rest, ScanTypeOK, PCs, Nothing, JournalStates
<1>2. Phases /\ Apart /\ NamedOnce /\ WellPlanned
  BY DEF ScanInit, Rest, Phases, Apart, NamedOnce, WellPlanned, Remaining, Importing, Nothing
<1> QED
  BY <1>1, <1>2 DEF ReportInv

LEMMA ReportAlways == ScanSpec => []ReportInv
<1>1. ScanInit => ReportInv
  BY ReportInit
<1>2. ReportInv /\ [ScanNext]_scanVars => ReportInv'
  BY ReportStep
<1> QED
  BY <1>1, <1>2, PTL DEF ScanSpec

(* The variables of a scan keep their types (src/services/library/scan.rs). *)
THEOREM ScanTyping == ScanSpec => []ScanTypeOK
<1>1. ReportInv => ScanTypeOK
  BY DEF ReportInv
<1> QED
  BY <1>1, ReportAlways, PTL

(* Whatever users, errors and the phases of the import make of a batch, a   *)
(* scan that gets to its end has named every file it counted exactly once.  *)
THEOREM ScansSettleEveryFile == ScanSpec => []OneDisposition
BY ReportAlways, ReportInvImplies, PTL

-----------------------------------------------------------------------------
(* The files of the catalog.  What is known of a batch between discovery    *)
(* and import holds unless somebody changed a file of it.                   *)

Visible(n) == Sort[n] \notin {"internal", "odd"}

(* The catalog and the rows of the journal. *)
RowsClaim ==
    /\ \A o \in Ops : journal[o] # "absent" => claim[o] \in Paths
    /\ op # NoOp => claim[op] \in Paths
Stock ==
    /\ IndexedFilesExist
    /\ \A g, h \in catalog : g \cap h # {} => g = h
    /\ \A p \in Indexed : Visible(p[2])
    /\ RowsClaim

Waiting == batches \cup planned

Touched(b) == PathsOf(b) \cap changed # {}
Gone(dir) == \A p \in Indexed : p[1] = dir => p \in lost
HasAllOf(b, extra) ==
    \A n \in disk[b.dir] :
        Sort[n] = "game" => n \in b.names \/ <<b.dir, n>> \in changed \/ <<b.dir, n>> \in extra

(* A batch is as discovery saw it. *)
Fresh(b) ==
    /\ \A p \in PathsOf(b) : OnDisk(p)
    /\ Kind[b.dir] = "folder" =>
         /\ PathsOf(b) \cap Indexed = {} => Gone(b.dir)
         /\ HasAllOf(b, {})

Found ==
    /\ \A b \in Waiting \cup current : \A n \in b.names : Visible(n)
    /\ \A b, c \in Waiting : Kind[b.dir] = "folder" /\ c.dir = b.dir => b = c
    /\ \A b \in Waiting : Touched(b) \/ Fresh(b)

(* The batch in hand: its files are there, it is all of its folder, and no  *)
(* other batch of the folder can still follow.                              *)
Written(b) == IF Generates(b.names) /\ pc \in {"save", "judge", "complete"} THEN {NewPath(b)} ELSE {}
Sound(b) ==
    /\ \A p \in PathsOf(b) : OnDisk(p) \/ p \in lost
    /\ pc = "normalize" => b.dir = b.seen
    /\ Kind[b.dir] = "folder" =>
         /\ pc = "normalize" => Gone(b.dir)
         /\ HasAllOf(b, Written(b))
         /\ \A c \in planned : c.dir = b.dir => Touched(c)
    /\ Generates(b.names) =>
         /\ pc \in {"journal", "write", "save", "judge"} => NewPath(b) \notin Indexed
         /\ pc = "save" => OnDisk(NewPath(b)) \/ NewPath(b) \in lost

FileInv == Stock /\ Found /\ \A b \in current : Sound(b)

(* A row that changes state has its claim. *)
LEMMA ClaimsKept ==
    ASSUME ReportInv, RowsClaim, claim' = claim, op' = op \/ op' = NoOp,
           \/ journal' = journal
           \/ \E o : \E state \in JournalStates : journal' = SetState(journal, o, state)
           \/ journal' = SetStateTx(journal, op, "db_committed")
    PROVE  RowsClaim'
<1>1. op' # NoOp => claim'[op'] \in Paths
  BY DEF RowsClaim
<1>2. ASSUME NEW r \in Ops, journal'[r] # "absent"
      PROVE  claim'[r] \in Paths
  <2>1. journal[r] # "absent" \/ r = op
    BY <1>2, RowStates DEF ReportInv, ScanTypeOK, SetStateTx
  <2>2. r # NoOp
    BY ScanAssumption DEF Ops, NoOp
  <2> QED
    BY <2>1, <2>2 DEF RowsClaim
<1> QED
  BY <1>1, <1>2 DEF RowsClaim

LEMMA NothingInHand ==
    ASSUME Remaining' = {}, Stock'
    PROVE  FileInv'
BY DEF FileInv, Found, Waiting, Remaining

(* Files are added, and the rest stays. *)
LEMMA Indexes ==
    ASSUME NEW p
    PROVE  p \in Indexed <=> \E g \in catalog : p \in g
BY DEF Indexed

LEMMA StockKept ==
    ASSUME Stock, catalog' = catalog,
           \A p \in Indexed : OnDisk(p) => OnDisk(p)' \/ p \in lost',
           \A p \in Indexed : p \in lost => OnDisk(p)' \/ p \in lost',
           RowsClaim'
    PROVE  Stock'
<1>1. Indexed' = Indexed
  BY DEF Indexed
<1>2. IndexedFilesExist'
  BY <1>1 DEF Stock, IndexedFilesExist
<1> QED
  BY <1>1, <1>2 DEF Stock, Visible

(* What waits still is as it was, unless it is touched now. *)
LEMMA StillFound ==
    ASSUME Found, Waiting' \subseteq Waiting, catalog' = catalog, changed \subseteq changed',
           lost \subseteq lost',
           \A b \in current' : \A n \in b.names : Visible(n),
           \A c \in Waiting' : Fresh(c) => Touched(c)' \/ Fresh(c)'
    PROVE  Found'
<1>1. \A b : Touched(b) => Touched(b)'
  BY DEF Touched, PathsOf
<1>2. \A b \in Waiting' : Touched(b)' \/ Fresh(b)'
  BY <1>1 DEF Found
<1> QED
  BY <1>2 DEF Found, Visible

LEMMA FilesDiscovered ==
    ASSUME ReportInv, FileInv, Discover
    PROVE  FileInv'
<1>1. /\ planned' = {} /\ current' = {} /\ UNCHANGED stored
      /\ lost' = {p \in lost : ~OnDisk(p)}
      /\ \A b \in batches' : \E dir \in Dirs : b \in BatchesOf(dir)
  BY DEF Discover, At, ReportInv, Phases, Remaining
<1>2. \A p : OnDisk(p)' <=> OnDisk(p)
  BY <1>1 DEF OnDisk, stored
<1>3. Stock'
  <2>1. RowsClaim'
    BY ClaimsKept DEF Discover, stored, FileInv, Stock
  <2> QED
    BY <1>1, <1>2, <2>1, StockKept DEF stored, FileInv, Stock
<1>4. Indexed' = Indexed
  BY <1>1 DEF Indexed, stored
<1>5. ASSUME NEW dir \in Dirs, NEW n \in Names
      PROVE  /\ n \in ToImport(dir) => OnDisk(<<dir, n>>) /\ Visible(n)
             /\ OnDisk(<<dir, n>>) /\ Sort[n] = "game" => n \in ToImport(dir)
             /\ OnDisk(<<dir, n>>) /\ <<dir, n>> \in Indexed /\ Visible(n) => n \in ToImport(dir)
  BY DEF ToImport, Considered, Counted, Internal, Odd, IgnoredSidecar, Visible
<1>6. ASSUME NEW b \in batches'
      PROVE  Fresh(b)' /\ (\A n \in b.names : Visible(n)) /\ b.dir \in Dirs /\ b \in BatchesOf(b.dir)
  <2>1. PICK dir \in Dirs : b \in BatchesOf(dir)
    BY <1>1
  <2>2. /\ b \in AnyBatch /\ b.dir = dir /\ b.names \subseteq ToImport(dir)
        /\ Kind[dir] = "folder" => b.names = ToImport(dir)
    BY <2>1, FoundThere
  <2>3. b.names \subseteq Names /\ \A n \in b.names : OnDisk(<<dir, n>>) /\ Visible(n)
    BY <1>5, <2>2, BatchParts
  <2>4. \A p \in PathsOf(b) : OnDisk(p)'
    BY <1>2, <2>2, <2>3 DEF PathsOf
  <2>5. ASSUME Kind[dir] = "folder", PathsOf(b) \cap Indexed = {}, NEW p \in Indexed, p[1] = dir
        PROVE  p \in lost'
    <3>1. p \in Paths /\ p = <<dir, p[2]>> /\ p[2] \in Names
      BY <2>5, PathParts DEF Indexed, ReportInv, ScanTypeOK
    <3>2. Visible(p[2]) /\ (OnDisk(p) \/ p \in lost)
      BY <2>5 DEF FileInv, Stock, IndexedFilesExist
    <3>3. ~OnDisk(p)
      <4>1. SUFFICES ASSUME OnDisk(p) PROVE FALSE
        OBVIOUS
      <4>2. p[2] \in b.names
        BY <1>5, <2>2, <2>5, <3>1, <3>2, <4>1
      <4> QED
        BY <2>2, <2>5, <3>1, <4>2, InBatch
    <3> QED
      BY <1>1, <3>2, <3>3
  <2>6. Kind[dir] = "folder" => HasAllOf(b, {})'
    <3> SUFFICES ASSUME Kind[dir] = "folder", NEW n \in disk[dir], Sort[n] = "game"
                 PROVE  n \in b.names
      BY <1>1, <2>2 DEF HasAllOf, stored
    <3>1. n \in Names /\ OnDisk(<<dir, n>>)
      BY DEF OnDisk, ReportInv, ScanTypeOK
    <3> QED
      BY <1>5, <2>2, <3>1
  <2> QED
    BY <1>4, <2>1, <2>2, <2>3, <2>4, <2>5, <2>6 DEF Fresh, Gone, PathsOf
<1>7. \A b, c \in batches' : Kind[b.dir] = "folder" /\ c.dir = b.dir => b = c
  BY <1>6, FoundOnce
<1>8. Found'
  BY <1>1, <1>6, <1>7 DEF Found, Waiting, Visible
<1> QED
  BY <1>1, <1>3, <1>8 DEF FileInv

LEMMA FilesPlanned ==
    ASSUME ReportInv, FileInv, PlanBatch
    PROVE  FileInv'
<1>1. /\ UNCHANGED <<stored, changed, lost>> /\ current = {} /\ current' = {}
      /\ Waiting' \subseteq Waiting
  BY DEF PlanBatch, At, ReportInv, Phases, Waiting, world
<1>2. Stock'
  <2>1. RowsClaim'
    BY ClaimsKept DEF PlanBatch, stored, FileInv, Stock
  <2> QED
    BY <1>1, <2>1, StockKept DEF stored, FileInv, Stock, OnDisk, IndexedFilesExist
<1>3. \A c : Fresh(c) => Fresh(c)'
  BY <1>1 DEF Fresh, PathsOf, OnDisk, Gone, HasAllOf, Indexed, stored
<1>4. Found'
  BY <1>1, <1>3, StillFound DEF FileInv, stored
<1> QED
  BY <1>1, <1>2, <1>4 DEF FileInv

LEMMA FilesRevalidated ==
    ASSUME ReportInv, FileInv, Revalidate
    PROVE  FileInv'
<1>1. /\ UNCHANGED <<stored, changed, lost>> /\ current = {} /\ pc = "revalidate"
      /\ batches = {} /\ batches' = {}
  BY DEF Revalidate, At, ReportInv, Phases, world, Goto
<1>2. Stock'
  <2>1. RowsClaim'
    BY ClaimsKept DEF Revalidate, stored, FileInv, Stock
  <2> QED
    BY <1>1, <2>1, StockKept DEF stored, FileInv, Stock, OnDisk, IndexedFilesExist
<1>3. \A c : Fresh(c) => Fresh(c)'
  BY <1>1 DEF Fresh, PathsOf, OnDisk, Gone, HasAllOf, Indexed, stored
<1>4. CASE current' = {} /\ planned' \subseteq planned
  <2>1. Waiting' \subseteq Waiting
    BY <1>1, <1>4 DEF Waiting
  <2>2. Found'
    BY <1>1, <1>3, <1>4, <2>1, StillFound DEF FileInv, stored
  <2> QED
    BY <1>2, <1>4, <2>2 DEF FileInv
<1>5. ASSUME NEW b \in planned, planned' = planned \ {b}, Unchanged(b),
             pc' = "normalize", current' = {b}
      PROVE  FileInv'
  <2>1. Waiting' \subseteq Waiting /\ b \in Waiting /\ planned' \subseteq Waiting
    BY <1>1, <1>5 DEF Waiting
  <2>2. Found'
    BY <1>1, <1>3, <1>5, <2>1, StillFound DEF FileInv, Found, stored
  <2>3. b \in AnyBatch /\ b.dir = b.seen
    BY DEF ReportInv, ScanTypeOK, WellPlanned
  <2>4. PathsOf(b) \cap changed = {} /\ PathsOf(b) \cap Indexed = {}
    BY <1>5 DEF Unchanged
  <2>5. Fresh(b)
    BY <2>1, <2>4 DEF FileInv, Found, Touched
  <2>6. \A c \in planned' : Kind[b.dir] = "folder" => c.dir # b.dir
    BY <1>5, <2>1 DEF FileInv, Found
  <2>7. Written(b)' = {}
    BY <1>5 DEF Written
  <2>8. /\ \A p \in PathsOf(b)' : OnDisk(p)'
        /\ Kind[b.dir] = "folder" => Gone(b.dir)' /\ HasAllOf(b, {})'
    BY <1>1, <2>4, <2>5 DEF Fresh, PathsOf, OnDisk, Gone, HasAllOf, Indexed, stored
  <2>9. Sound(b)'
    BY <1>5, <2>3, <2>6, <2>7, <2>8 DEF Sound
  <2> QED
    BY <1>2, <1>5, <2>2, <2>9 DEF FileInv
<1>6. \/ current' = {} /\ planned' \subseteq planned
      \/ \E b \in planned : /\ planned' = planned \ {b} /\ Unchanged(b)
                            /\ pc' = "normalize" /\ current' = {b}
  BY <1>1 DEF Revalidate, Goto
<1> QED
  BY <1>4, <1>5, <1>6

(* The folder of the batch b takes another name, which is free. *)
LEMMA FilesRenamed ==
    ASSUME ReportInv, FileInv, NEW b \in current, NEW to \in Dirs, disk[to] = {}, to # b.dir,
           pc = "normalize", pc' = "reserve", Kind[b.dir] = "folder",
           disk' = [disk EXCEPT ![to] = disk[b.dir], ![b.dir] = {}],
           changed' = changed \cup {<<to, p[2]>> : p \in {q \in changed : q[1] = b.dir}},
           lost' = lost \cup {<<to, p[2]>> : p \in {q \in lost : q[1] = b.dir}},
           current' = {[b EXCEPT !.dir = to]},
           UNCHANGED <<batches, planned, catalog, journal, claim, op>>
    PROVE  FileInv'
<1> DEFINE from == b.dir
           c == [b EXCEPT !.dir = to]
<1>1. /\ b \in AnyBatch /\ from \in Dirs /\ b.names \subseteq Names /\ batches = {} /\ batches' = {}
      /\ disk \in [Dirs -> SUBSET Names] /\ planned \subseteq AnyBatch
      /\ \A d \in planned : SeenOf(d) # {} /\ d.dir = d.seen
      /\ catalog \subseteq SUBSET Paths
  BY InHandParts, BatchParts DEF ReportInv, ScanTypeOK, Phases, Apart, WellPlanned, Remaining, Importing
<1>2. c \in AnyBatch /\ c.dir = to /\ c.names = b.names
  BY <1>1 DEF AnyBatch
<1>3. Sound(b) /\ Gone(from) /\ HasAllOf(b, {}) /\ \A d \in planned : d.dir = from => Touched(d)
  BY DEF FileInv, Sound, Written
<1>4. Indexed' = Indexed /\ Indexed \subseteq Paths /\ changed \subseteq changed' /\ lost \subseteq lost'
  BY <1>1 DEF Indexed
<1>5. \A dir \in Dirs : disk'[dir] = IF dir = from THEN {} ELSE IF dir = to THEN disk[from] ELSE disk[dir]
  BY <1>1
<1>6. \A p \in Paths : p[1] # from /\ OnDisk(p) => OnDisk(p)'
  BY <1>1, <1>5, PathParts DEF OnDisk
<1>7. \A p \in Paths : p[1] = to => ~OnDisk(p)
  BY DEF OnDisk
<1>8. Stock'
  <2>1. RowsClaim'
    BY ClaimsKept DEF FileInv, Stock
  <2> QED
    BY <1>3, <1>4, <1>6, <2>1, StockKept DEF FileInv, Stock, Gone
<1>9. \A d \in planned : Fresh(d) => Touched(d)' \/ Fresh(d)'
  <2> SUFFICES ASSUME NEW d \in planned, Fresh(d)
               PROVE  Touched(d)' \/ Fresh(d)'
    OBVIOUS
  <2>1. d \in AnyBatch /\ d.dir \in Dirs /\ d.names \subseteq Names /\ SeenOf(d) = PathsOf(d)
    BY <1>1, BatchParts DEF SeenOf, PathsOf
  <2>2. CASE d.dir = from
    BY <1>3, <1>4, <2>2 DEF Touched, PathsOf
  <2>3. d.dir # to
    <3>1. PICK p \in PathsOf(d) : p \in Paths /\ p[1] = d.dir
      BY <1>1, <2>1, InBatch
    <3> QED
      BY <1>7, <3>1 DEF Fresh
  <2>4. CASE d.dir # from
    <3>1. disk'[d.dir] = disk[d.dir]
      BY <1>5, <2>1, <2>3, <2>4
    <3>2. \A p \in PathsOf(d)' : OnDisk(p)'
      BY <1>6, <2>1, <2>4, InBatch DEF Fresh, PathsOf
    <3>3. Kind[d.dir] = "folder" => ((PathsOf(d) \cap Indexed = {})' => Gone(d.dir)')
      BY <1>4 DEF Fresh, PathsOf, Gone
    <3>4. Kind[d.dir] = "folder" => HasAllOf(d, {})'
      BY <1>4, <3>1 DEF Fresh, HasAllOf
    <3> QED
      BY <3>2, <3>3, <3>4 DEF Fresh, PathsOf
  <2> QED
    BY <2>2, <2>4
<1>10. \A d \in planned : d.dir = to => Touched(d)'
  <2> SUFFICES ASSUME NEW d \in planned, d.dir = to
               PROVE  Touched(d)'
    OBVIOUS
  <2>1. SeenOf(d) = PathsOf(d)
    BY <1>1 DEF SeenOf, PathsOf
  <2>2. PICK p \in PathsOf(d) : p \in Paths /\ p[1] = to
    BY <1>1, <2>1, InBatch
  <2>3. ~Fresh(d)
    BY <1>7, <2>2 DEF Fresh
  <2>4. Touched(d)
    BY <2>3 DEF FileInv, Found, Waiting
  <2> QED
    BY <1>4, <2>4 DEF Touched, PathsOf
<1>11. \A p \in PathsOf(c) : OnDisk(p)' \/ p \in lost'
  <2> SUFFICES ASSUME NEW p \in PathsOf(c)
               PROVE  OnDisk(p)' \/ p \in lost'
    OBVIOUS
  <2>1. p \in Paths /\ p = <<to, p[2]>> /\ p[2] \in b.names
    BY <1>2, InBatch, PathParts
  <2>2. <<from, p[2]>> \in PathsOf(b)
    BY <2>1 DEF PathsOf
  <2>3. OnDisk(<<from, p[2]>>) \/ <<from, p[2]>> \in lost
    BY <1>3, <2>2 DEF Sound
  <2>4. OnDisk(<<from, p[2]>>) => p[2] \in disk'[to]
    BY <1>5 DEF OnDisk
  <2>5. p[1] = to
    BY <2>1
  <2>6. OnDisk(<<from, p[2]>>) => OnDisk(p)'
    BY <2>4, <2>5 DEF OnDisk
  <2>7. <<from, p[2]>> \in lost => p \in lost'
    BY <2>1
  <2> QED
    BY <2>3, <2>6, <2>7
<1>12. \A n \in disk'[to] : Sort[n] = "game" => n \in b.names \/ <<to, n>> \in changed'
  <2> SUFFICES ASSUME NEW n \in disk[from], Sort[n] = "game", n \notin b.names
               PROVE  <<to, n>> \in changed'
    BY <1>1, <1>5
  <2>1. <<from, n>> \in changed
    BY <1>3 DEF HasAllOf
  <2> DEFINE p == <<from, n>>
  <2>2. p[1] = from /\ p[2] = n /\ p \in changed
    BY <2>1
  <2> HIDE DEF p
  <2> QED
    BY <2>2
<1> HIDE DEF c
<1>13. Written(c)' = {}
  BY DEF Written
<1>14. HasAllOf(c, {})'
  BY <1>2, <1>12 DEF HasAllOf
<1>15. Sound(c)'
  BY <1>2, <1>10, <1>11, <1>13, <1>14 DEF Sound, PathsOf
<1>16. Waiting' \subseteq Waiting /\ Waiting' \subseteq planned
  BY <1>1 DEF Waiting
<1>17. current' = {c} /\ \A n \in c.names : Visible(n)
  BY <1>2 DEF c, FileInv, Found
<1>18. Found'
  BY <1>4, <1>9, <1>16, <1>17, StillFound DEF FileInv
<1> QED
  BY <1>8, <1>15, <1>17, <1>18 DEF FileInv

(* The files and the catalog stay, and so does the batch in hand. *)
LEMMA FilesKept ==
    ASSUME FileInv, UNCHANGED <<disk, catalog, changed, lost, planned>>, batches' \subseteq batches,
           current' = {} \/ (current' = current /\ \A b \in current : Sound(b)'),
           RowsClaim'
    PROVE  FileInv'
<1>1. Stock'
  BY StockKept DEF FileInv, Stock, OnDisk, IndexedFilesExist
<1>2. \A c : Fresh(c) => Fresh(c)'
  BY DEF Fresh, PathsOf, OnDisk, Gone, HasAllOf, Indexed
<1>3. Waiting' \subseteq Waiting
  BY DEF Waiting
<1>4. Found'
  BY <1>2, <1>3, StillFound DEF FileInv, Found
<1> QED
  BY <1>1, <1>4 DEF FileInv

(* What Sound says besides the phase. *)
LEMMA SoundKept ==
    ASSUME UNCHANGED <<disk, catalog, changed, lost, planned>>, NEW b, Sound(b),
           Written(b)' = Written(b), pc' # "normalize",
           Generates(b.names) =>
              /\ pc' \in {"journal", "write", "save", "judge"} => NewPath(b) \notin Indexed
              /\ pc' = "save" => OnDisk(NewPath(b)) \/ NewPath(b) \in lost
    PROVE  Sound(b)'
BY DEF Sound, PathsOf, OnDisk, HasAllOf, Indexed, NewPath, Touched

LEMMA FilesNormalized ==
    ASSUME ReportInv, FileInv, Normalize
    PROVE  FileInv'
<1>1. PICK b \in current :
        LET from == b.dir
            to == Home[PlaylistName(b.names)]
            Follow(paths) == paths \cup {<<to, p[2]>> : p \in {q \in paths : q[1] = from}}
        IN \/ /\ HasPlaylist(b.names) => to = from
              /\ Goto("reserve") /\ UNCHANGED <<outcome, op, disk, changed, lost>>
           \/ /\ HasPlaylist(b.names) /\ to # from /\ IsDir(to)
              /\ NextBatch(Reported(b)) /\ UNCHANGED <<disk, changed, lost>>
           \/ /\ HasPlaylist(b.names) /\ to # from /\ ~IsDir(to)
              /\ disk' = [disk EXCEPT ![to] = disk[from], ![from] = {}]
              /\ changed' = Follow(changed) /\ lost' = Follow(lost)
              /\ current' = {[b EXCEPT !.dir = to]} /\ pc' = "reserve"
              /\ UNCHANGED <<batches, planned, scanned, outcome, op>>
  BY DEF Normalize
<1>2. pc = "normalize" /\ UNCHANGED <<catalog, journal, claim>> /\ RowsClaim'
  <2>1. op' \in {op, NoOp} /\ pc = "normalize" /\ UNCHANGED <<catalog, journal, claim>>
    BY <1>1 DEF Normalize, At, NextBatch
  <2> QED
    BY <2>1, ClaimsKept DEF FileInv, Stock
<1>3. current = {b} /\ b \in AnyBatch /\ DescribesOneGame(b.names) /\ Sound(b)
      /\ (HasPlaylist(b.names) => Kind[b.seen] = "folder")
  BY InHandParts DEF FileInv
<1> DEFINE to == Home[PlaylistName(b.names)]
<1>4. CASE Goto("reserve") /\ UNCHANGED <<outcome, op, disk, changed, lost>>
  <2>1. Sound(b)'
    BY <1>2, <1>3, <1>4, SoundKept DEF Goto, Written
  <2> QED
    BY <1>2, <1>3, <1>4, <2>1, FilesKept DEF Goto
<1>5. CASE NextBatch(Reported(b)) /\ UNCHANGED <<disk, changed, lost>>
  BY <1>2, <1>5, FilesKept DEF NextBatch
<1>6. ASSUME HasPlaylist(b.names), to # b.dir, ~IsDir(to),
             disk' = [disk EXCEPT ![to] = disk[b.dir], ![b.dir] = {}],
             changed' = changed \cup {<<to, p[2]>> : p \in {q \in changed : q[1] = b.dir}},
             lost' = lost \cup {<<to, p[2]>> : p \in {q \in lost : q[1] = b.dir}},
             current' = {[b EXCEPT !.dir = to]}, pc' = "reserve", UNCHANGED <<batches, planned, op>>
      PROVE  FileInv'
  <2>1. to \in Dirs
    BY <1>3, <1>6, BatchParts, GameNames, ScanAssumption
  <2>2. disk[to] = {} /\ Kind[b.dir] = "folder"
    BY <1>2, <1>3, <1>6 DEF IsDir, Sound
  <2> HIDE DEF to
  <2> QED
    BY <1>2, <1>6, <2>1, <2>2, FilesRenamed
<1> QED
  BY <1>1, <1>4, <1>5, <1>6

LEMMA FilesReserved ==
    ASSUME ReportInv, FileInv, Reserve
    PROVE  FileInv'
<1>1. PICK b \in current :
         IF ~Generates(b.names)
           THEN Goto("save") /\ UNCHANGED <<outcome, op>>
           ELSE IF OnDisk(NewPath(b)) \/ NewPath(b) \in Indexed
                  THEN NextBatch(Reported(b))
                  ELSE Goto("journal") /\ UNCHANGED <<outcome, op>>
  BY DEF Reserve
<1>2. pc = "reserve" /\ UNCHANGED <<disk, catalog, changed, lost, journal, claim>> /\ RowsClaim'
  <2>1. op' \in {op, NoOp} /\ pc = "reserve" /\ UNCHANGED <<stored, world>>
    BY <1>1 DEF Reserve, At, NextBatch
  <2> QED
    BY <2>1, ClaimsKept DEF FileInv, Stock, stored, world
<1>3. current = {b} /\ Sound(b) /\ Written(b) = {}
  BY <1>2, InHandParts DEF FileInv, Written
<1>4. CASE ~Generates(b.names) /\ Goto("save")
  <2>1. Sound(b)'
    BY <1>2, <1>3, <1>4, SoundKept DEF Goto, Written
  <2> QED
    BY <1>2, <1>3, <1>4, <2>1, FilesKept DEF Goto
<1>5. CASE NextBatch(Reported(b))
  BY <1>2, <1>5, FilesKept DEF NextBatch
<1>6. CASE NewPath(b) \notin Indexed /\ Goto("journal")
  <2>1. Sound(b)'
    BY <1>2, <1>3, <1>6, SoundKept DEF Goto, Written
  <2> QED
    BY <1>2, <1>3, <1>6, <2>1, FilesKept DEF Goto
<1> QED
  BY <1>1, <1>4, <1>5, <1>6

LEMMA FilesJournaled ==
    ASSUME ReportInv, FileInv, JournalPlaylist
    PROVE  FileInv'
<1> DEFINE free == {o \in Ops : journal[o] \in {"absent", "completed"}}
           row == Min(free)
<1>1. PICK b \in current :
         /\ journal' = CreateRow(journal, row) /\ claim' = [claim EXCEPT ![row] = NewPath(b)]
         /\ free # {} /\ op' = row
  BY DEF JournalPlaylist
<1> HIDE DEF free
<1> HIDE DEF row
<1>2. /\ pc = "journal" /\ pc' = "write" /\ UNCHANGED <<disk, catalog, changed, lost>>
      /\ UNCHANGED <<batches, planned, current>>
  BY DEF JournalPlaylist, At, Goto, world
<1>3. current = {b} /\ Sound(b) /\ NewPath(b) \in Paths /\ Generates(b.names)
  BY <1>2, InHandParts, BatchParts, GameNames, GamePaths DEF FileInv
<1>4. Sound(b)'
  BY <1>2, <1>3, SoundKept DEF Written, Sound
<1>5. RowsClaim'
  <2>1. row \in Ops /\ op' = row
    <3>1. free \in SUBSET Ops
      BY DEF free
    <3> QED
      BY <1>1, <3>1, SmallestRow DEF row
  <2>2. claim'[row] \in Paths
    BY <1>1, <1>3, <2>1 DEF ReportInv, ScanTypeOK
  <2>3. ASSUME NEW o \in Ops, journal'[o] # "absent"
        PROVE  claim'[o] \in Paths
    <3>1. journal[o] # "absent" \/ o = row
      BY <1>1, <2>3, RowStates DEF JournalStates, ReportInv, ScanTypeOK
    <3> QED
      BY <1>1, <2>2, <3>1 DEF FileInv, Stock, RowsClaim, ReportInv, ScanTypeOK
  <2> QED
    BY <2>1, <2>2, <2>3 DEF RowsClaim
<1> QED
  BY <1>2, <1>3, <1>4, <1>5, FilesKept

(* A playlist is written in the folder of the batch. *)
LEMMA FilesWritten ==
    ASSUME ReportInv, FileInv, WritePlaylist
    PROVE  FileInv'
<1>1. PICK b \in current : Write(NewPath(b))
  BY DEF WritePlaylist
<1>2. /\ pc = "write" /\ pc' = "save" /\ UNCHANGED <<catalog, journal, claim, changed, lost, op>>
      /\ UNCHANGED <<batches, planned, current>>
  BY DEF WritePlaylist, At, Goto, world
<1>3. /\ current = {b} /\ b \in AnyBatch /\ Sound(b) /\ Generates(b.names)
      /\ NewPath(b) \in Paths /\ NewPath(b)[1] = b.dir /\ b.dir \in Dirs
  BY <1>2, InHandParts, BatchParts, GameNames, GamePaths DEF FileInv, NewPath
<1>4. disk' = [disk EXCEPT ![b.dir] = @ \cup {NewPath(b)[2]}] /\ disk \in [Dirs -> SUBSET Names]
  BY <1>1, <1>3 DEF Write, ReportInv, ScanTypeOK
<1>5. /\ \A p \in Paths : OnDisk(p) => OnDisk(p)'
      /\ disk'[b.dir] = disk[b.dir] \cup {NewPath(b)[2]}
      /\ \A dir \in Dirs : dir # b.dir => disk'[dir] = disk[dir]
  BY <1>3, <1>4, PathParts DEF OnDisk
<1>6. OnDisk(NewPath(b))'
  BY <1>3, <1>5 DEF OnDisk, NewPath
<1>7. Indexed \subseteq Paths /\ Indexed' = Indexed
  BY <1>2 DEF Indexed, ReportInv, ScanTypeOK
<1>8. Stock'
  <2>1. RowsClaim'
    BY <1>2, ClaimsKept DEF FileInv, Stock
  <2> QED
    BY <1>2, <1>5, <1>7, <2>1, StockKept DEF FileInv, Stock
<1>9. \A c \in Waiting' : Fresh(c) => Touched(c)' \/ Fresh(c)'
  <2> SUFFICES ASSUME NEW c \in planned, Fresh(c), ~Touched(c)
               PROVE  Fresh(c)'
    BY <1>2 DEF Waiting, Touched, PathsOf, ReportInv, Phases, Importing
  <2>1. c \in AnyBatch /\ c.dir \in Dirs
    BY BatchParts DEF ReportInv, ScanTypeOK
  <2>2. Kind[c.dir] = "folder" => c.dir # b.dir
    BY <1>3 DEF Sound
  <2>3. \A p \in PathsOf(c)' : OnDisk(p)'
    BY <1>5, <2>1, InBatch DEF Fresh, PathsOf
  <2>4. Kind[c.dir] = "folder" => ((PathsOf(c) \cap Indexed = {})' => Gone(c.dir)')
    BY <1>2, <1>7 DEF Fresh, PathsOf, Gone
  <2>5. Kind[c.dir] = "folder" => HasAllOf(c, {})'
    BY <1>2, <1>5, <2>1, <2>2 DEF Fresh, HasAllOf
  <2> QED
    BY <2>3, <2>4, <2>5 DEF Fresh, PathsOf
<1>10. Found'
  BY <1>2, <1>9, StillFound DEF FileInv, Found, Waiting
<1>11. Written(b)' = {NewPath(b)} /\ Written(b) = {}
  BY <1>2, <1>3 DEF Written, Generates, NewPath
<1>12. Kind[b.dir] = "folder" => HasAllOf(b, {NewPath(b)})'
  BY <1>2, <1>3, <1>5, <1>11 DEF Sound, HasAllOf, NewPath
<1>13. \A p \in PathsOf(b)' : OnDisk(p)' \/ p \in lost'
  BY <1>2, <1>3, <1>5, InBatch DEF Sound, PathsOf
<1>14. NewPath(b) \notin Indexed'
  BY <1>2, <1>3, <1>7 DEF Sound
<1>15. Sound(b)'
  BY <1>2, <1>3, <1>6, <1>11, <1>12, <1>13, <1>14 DEF Sound, Touched, PathsOf, NewPath
<1> QED
  BY <1>2, <1>3, <1>8, <1>10, <1>15 DEF FileInv

(* A game is added. *)
LEMMA FilesSaved ==
    ASSUME ReportInv, FileInv, Save
    PROVE  FileInv'
<1>1. PICK b \in current :
        /\ Storable(b) /\ catalog' = catalog \cup {GameOf(b)}
        /\ IF op = NoOp
              THEN NextBatch(Reported(b)) /\ UNCHANGED journal
              ELSE /\ journal' = SetStateTx(journal, op, "db_committed")
                   /\ Goto("complete") /\ UNCHANGED <<outcome, op>>
  BY DEF Save
<1>2. /\ pc = "save" /\ UNCHANGED <<disk, claim, changed, lost>>
      /\ UNCHANGED <<batches, planned>>
  BY <1>1 DEF Save, At, Goto, NextBatch, world
<1>3. /\ current = {b} /\ b \in AnyBatch /\ Sound(b) /\ DescribesOneGame(b.names)
      /\ \A n \in b.names : Visible(n)
  BY InHandParts DEF FileInv, Found
<1>4. /\ \A p \in GameOf(b) : p \in Paths /\ p[1] = b.dir
      /\ \A p \in GameOf(b) : p \in PathsOf(b) \/ (Generates(b.names) /\ p = NewPath(b))
  BY <1>3, GamePaths
<1>5. \A p \in GameOf(b) : (OnDisk(p) \/ p \in lost) /\ Visible(p[2])
  <2> SUFFICES ASSUME NEW p \in GameOf(b)
               PROVE  (OnDisk(p) \/ p \in lost) /\ Visible(p[2])
    OBVIOUS
  <2>1. CASE p \in PathsOf(b)
    BY <1>3, <2>1, InBatch DEF Sound
  <2>2. CASE Generates(b.names) /\ p = NewPath(b)
    <3>1. p[2] = PlaylistName(b.names) /\ Sort[PlaylistName(b.names)] = "game"
      BY <1>3, <2>2, BatchParts, GameNames DEF NewPath
    <3> QED
      BY <1>2, <1>3, <2>2, <3>1 DEF Sound, Visible
  <2> QED
    BY <1>4, <2>1, <2>2
<1>6. \A p : p \in Indexed' <=> p \in Indexed \/ p \in GameOf(b)
  BY <1>1 DEF Indexed
<1>7. GameOf(b) \cap Indexed = {}
  BY <1>1 DEF Storable
<1>8. Stock'
  <2>1. RowsClaim'
    <3>1. op' \in {op, NoOp} /\ (journal' = journal \/ journal' = SetStateTx(journal, op, "db_committed"))
      BY <1>1 DEF NextBatch
    <3> QED
      BY <1>2, <3>1, ClaimsKept DEF FileInv, Stock
  <2>2. IndexedFilesExist'
    BY <1>2, <1>5, <1>6 DEF IndexedFilesExist, OnDisk, FileInv, Stock
  <2>3. \A g, h \in catalog' : g \cap h # {} => g = h
    BY <1>1, <1>7 DEF Indexed, FileInv, Stock
  <2>4. \A p \in Indexed' : Visible(p[2])
    BY <1>5, <1>6 DEF FileInv, Stock
  <2> QED
    BY <2>1, <2>2, <2>3, <2>4 DEF Stock, Visible
<1>9. \A c \in planned : Touched(c) \/ Fresh(c)'
  <2> SUFFICES ASSUME NEW c \in planned, Fresh(c), ~Touched(c)
               PROVE  Fresh(c)'
    BY DEF FileInv, Found, Waiting
  <2>1. Kind[c.dir] = "folder" => c.dir # b.dir
    BY <1>3 DEF Sound
  <2>2. Kind[c.dir] = "folder" => ((PathsOf(c) \cap Indexed = {})' => Gone(c.dir)')
    BY <1>2, <1>4, <1>6, <2>1 DEF Fresh, PathsOf, Gone
  <2>3. /\ \A p \in PathsOf(c)' : OnDisk(p)'
        /\ Kind[c.dir] = "folder" => HasAllOf(c, {})'
    BY <1>2 DEF Fresh, PathsOf, OnDisk, HasAllOf
  <2> QED
    BY <2>2, <2>3 DEF Fresh, PathsOf
<1>10. batches = {} /\ current' \subseteq current
  BY <1>1, <1>2 DEF ReportInv, Phases, Importing, NextBatch, Goto
<1>11. Found'
  BY <1>2, <1>9, <1>10 DEF FileInv, Found, Waiting, Touched, PathsOf, Visible
<1>12. CASE op = NoOp
  BY <1>1, <1>8, <1>11, <1>12 DEF FileInv, NextBatch
<1>13. CASE op # NoOp
  <2>1. pc' = "complete" /\ current' = {b}
    BY <1>1, <1>3, <1>13 DEF Goto
  <2>2. Written(b)' = Written(b)
    BY <1>2, <2>1 DEF Written, Generates, NewPath
  <2>3. Sound(b)'
    BY <1>2, <1>3, <2>1, <2>2 DEF Sound, PathsOf, OnDisk, HasAllOf, Touched
  <2> QED
    BY <1>8, <1>11, <2>1, <2>3 DEF FileInv
<1> QED
  BY <1>12, <1>13

LEMMA FilesSettled ==
    ASSUME ReportInv, FileInv, SaveFails \/ CompleteRow
    PROVE  FileInv'
<1>1. /\ pc \in {"save", "complete"} /\ UNCHANGED <<disk, catalog, claim, changed, lost>>
      /\ \/ Leave
         \/ pc = "save" /\ op # NoOp /\ Goto("judge") /\ UNCHANGED op
         \/ \E b \in current : NextBatch(Reported(b))
      /\ journal' \in {journal, SetState(journal, op, "completed")}
  BY DEF SaveFails, CompleteRow, At, stored, world
<1>2. op' \in {op, NoOp} /\ batches' \subseteq batches
  BY <1>1 DEF Leave, Goto, NextBatch
<1>3. RowsClaim'
  BY <1>1, <1>2, ClaimsKept DEF FileInv, Stock, JournalStates
<1>4. CASE Leave
  <2>1. Remaining' = {}
    BY <1>4 DEF Leave, Remaining
  <2>2. Stock'
    BY <1>1, <1>3, StockKept DEF FileInv, Stock, OnDisk, IndexedFilesExist
  <2> QED
    BY <2>1, <2>2, NothingInHand
<1>5. CASE pc = "save" /\ op # NoOp /\ Goto("judge")
  <2>1. \A b \in current : Sound(b)'
    <3> SUFFICES ASSUME NEW b \in current
                 PROVE  Sound(b)'
      OBVIOUS
    <3>1. Sound(b) /\ UNCHANGED planned /\ pc' = "judge"
      BY <1>5 DEF FileInv, Goto
    <3>2. Written(b)' = Written(b)
      BY <1>5, <3>1 DEF Written, Generates, NewPath
    <3> QED
      BY <1>1, <1>5, <3>1, <3>2, SoundKept DEF Sound
  <2> QED
    BY <1>1, <1>2, <1>3, <1>5, <2>1, FilesKept DEF Goto
<1>6. CASE \E b \in current : NextBatch(Reported(b))
  BY <1>1, <1>2, <1>3, <1>6, FilesKept DEF NextBatch
<1> QED
  BY <1>1, <1>4, <1>5, <1>6

(* The scan ends here; its playlist may be left behind or be taken back. *)
LEMMA FilesLeft ==
    ASSUME ReportInv, FileInv,
           WriteFails \/ Judge \/ Cancel \/ Crash \/ Finish \/ StepFails \/ DiscoverFails
    PROVE  FileInv'
<1>1. Leave /\ UNCHANGED <<catalog, claim, lost>> /\ op' = NoOp
      /\ journal' \in {journal, SetState(journal, op, "failed")}
  BY DEF WriteFails, Judge, Cancel, Crash, Finish, StepFails, DiscoverFails, Leave, stored, world
<1>2. Remaining' = {}
  BY <1>1 DEF Leave, Remaining
<1>3. \/ disk' = disk
      \/ \E b \in current : Write(NewPath(b))
      \/ pc = "judge" /\ \E b \in current : Erase(NewPath(b))
  BY DEF WriteFails, Judge, At, Cancel, Crash, Finish, StepFails, DiscoverFails, stored
<1>4. RowsClaim'
  BY <1>1, ClaimsKept DEF FileInv, Stock, JournalStates
<1>5. ASSUME NEW p \in Indexed, OnDisk(p)
      PROVE  OnDisk(p)'
  <2>1. p \in Paths /\ p = <<p[1], p[2]>> /\ p[1] \in Dirs /\ disk \in [Dirs -> SUBSET Names]
    BY PathParts DEF Indexed, ReportInv, ScanTypeOK
  <2>2. CASE disk' = disk
    BY <1>5, <2>2 DEF OnDisk
  <2>3. ASSUME NEW b \in current, Write(NewPath(b))
        PROVE  OnDisk(p)'
    BY <1>5, <2>1, <2>3 DEF OnDisk, Write
  <2>4. ASSUME pc = "judge", NEW b \in current, Erase(NewPath(b))
        PROVE  OnDisk(p)'
    <3>1. NewPath(b) \notin Indexed
      BY <2>4, InHandParts DEF FileInv, Sound
    <3>2. p[1] # NewPath(b)[1] \/ p[2] # NewPath(b)[2]
      BY <2>1, <3>1 DEF NewPath
    <3> QED
      BY <1>5, <2>1, <2>4, <3>2 DEF OnDisk, Erase
  <2> QED
    BY <1>3, <2>2, <2>3, <2>4
<1>6. Stock'
  BY <1>1, <1>4, <1>5, StockKept DEF FileInv, Stock
<1> QED
  BY <1>2, <1>6, NothingInHand

LEMMA FilesRecovered ==
    ASSUME ReportInv, FileInv, NEW o \in Ops, RecoverUndecided(o) \/ RecoverCommitted(o)
    PROVE  FileInv'
<1>1. server = "recovering" /\ journal[o] # "absent"
  BY DEF RecoverUndecided, RecoverCommitted, Undecided, Committed
<1>2. PICK state \in JournalStates : Reconciled(o, state)
  BY DEF RecoverUndecided, RecoverCommitted, JournalStates
<1>3. /\ journal' = SetState(journal, o, state) /\ UNCHANGED local
      /\ UNCHANGED <<catalog, claim, changed, lost>>
  BY <1>2 DEF Reconciled
<1>4. disk' = disk \/ (claim[o] \notin Indexed /\ Erase(claim[o]))
  BY DEF RecoverUndecided, RecoverCommitted, Persisted
<1>5. RowsClaim'
  BY <1>3, ClaimsKept DEF FileInv, Stock, local
<1>6. ASSUME NEW p \in Indexed, OnDisk(p)
      PROVE  OnDisk(p)'
  <2>1. p \in Paths /\ p = <<p[1], p[2]>> /\ p[1] \in Dirs /\ disk \in [Dirs -> SUBSET Names]
    BY PathParts DEF Indexed, ReportInv, ScanTypeOK
  <2>2. CASE disk' = disk
    BY <1>6, <2>2 DEF OnDisk
  <2>3. CASE claim[o] \notin Indexed /\ Erase(claim[o])
    <3>1. claim[o] \in Paths
      BY <1>1 DEF FileInv, Stock, RowsClaim
    <3>2. claim[o] = <<claim[o][1], claim[o][2]>>
      BY <3>1, PathParts
    <3>3. p[1] # claim[o][1] \/ p[2] # claim[o][2]
      BY <2>1, <2>3, <3>2
    <3> QED
      BY <1>6, <2>1, <2>3, <3>3 DEF OnDisk, Erase
  <2> QED
    BY <1>4, <2>2, <2>3
<1>7. Stock'
  BY <1>3, <1>5, <1>6, StockKept DEF FileInv, Stock
<1>8. Remaining' = {}
  BY <1>1, <1>3 DEF ReportInv, Phases, Remaining, local
<1> QED
  BY <1>7, <1>8, NothingInHand

(* A user works on a file, whatever the scan does. *)
LEMMA FilesMeddled ==
    ASSUME ReportInv, FileInv, NEW path \in UserPaths,
           UserAdds(path) \/ UserRemoves(path) \/ UserChanges(path)
    PROVE  FileInv'
<1>1. /\ UNCHANGED local /\ UNCHANGED <<catalog, journal, claim>>
      /\ changed' = changed \cup {path} /\ path \in Paths
  BY ScanAssumption DEF UserAdds, UserRemoves, UserChanges, stored
<1>2. disk \in [Dirs -> SUBSET Names] /\ path = <<path[1], path[2]>> /\ path[1] \in Dirs
  BY <1>1, PathParts DEF ReportInv, ScanTypeOK
<1>3. \/ lost' = lost /\ disk' = disk
      \/ lost' = lost /\ disk' = [disk EXCEPT ![path[1]] = @ \cup {path[2]}]
      \/ lost' = lost \cup {path} /\ disk' = [disk EXCEPT ![path[1]] = @ \ {path[2]}]
  BY DEF UserAdds, UserRemoves, UserChanges, Write, Erase, stored
<1>4. \A p \in Paths : OnDisk(p) => OnDisk(p)' \/ (p = path /\ p \in lost')
  <2> SUFFICES ASSUME NEW p \in Paths, OnDisk(p)
               PROVE  OnDisk(p)' \/ (p = path /\ p \in lost')
    OBVIOUS
  <2>1. p[1] \in Dirs /\ p = <<p[1], p[2]>>
    BY PathParts
  <2>2. p = path <=> p[1] = path[1] /\ p[2] = path[2]
    BY <1>2, <2>1
  <2> HIDE DEF Paths
  <2> QED
    BY <1>2, <1>3, <2>1, <2>2 DEF OnDisk
<1>5. \A dir \in Dirs : \A n \in disk'[dir] : n \in disk[dir] \/ <<dir, n>> \in changed'
  <2> SUFFICES ASSUME NEW dir \in Dirs, NEW n \in disk'[dir], n \notin disk[dir]
               PROVE  <<dir, n>> = path
    BY <1>1
  <2>1. dir = path[1] /\ n = path[2]
    BY <1>2, <1>3
  <2> QED
    BY <1>2, <2>1
<1>6. lost \subseteq lost' /\ Indexed' = Indexed /\ Indexed \subseteq Paths
  BY <1>1, <1>3 DEF Indexed, ReportInv, ScanTypeOK
<1>7. Stock'
  <2>1. RowsClaim'
    BY <1>1, ClaimsKept DEF local, FileInv, Stock
  <2> QED
    BY <1>1, <1>4, <1>6, <2>1, StockKept DEF FileInv, Stock
<1>8. ASSUME NEW b, b.dir \in Dirs, NEW extra, HasAllOf(b, extra)
      PROVE  HasAllOf(b, extra)'
  BY <1>1, <1>5, <1>8 DEF HasAllOf
<1>9. ASSUME NEW c \in Waiting, Fresh(c)
      PROVE  Touched(c)' \/ Fresh(c)'
  <2>1. c \in AnyBatch /\ c.dir \in Dirs
    BY BatchParts DEF Waiting, ReportInv, ScanTypeOK
  <2>2. CASE path \in PathsOf(c)
    BY <1>1, <2>2 DEF Touched, PathsOf
  <2>3. CASE path \notin PathsOf(c)
    <3>1. \A p \in PathsOf(c)' : OnDisk(p)'
      BY <1>4, <1>9, <2>1, <2>3, InBatch DEF Fresh, PathsOf
    <3>2. Kind[c.dir] = "folder" => ((PathsOf(c) \cap Indexed = {})' => Gone(c.dir)')
      BY <1>6, <1>9 DEF Fresh, PathsOf, Gone
    <3>3. Kind[c.dir] = "folder" => HasAllOf(c, {})'
      BY <1>8, <1>9, <2>1 DEF Fresh
    <3> QED
      BY <3>1, <3>2, <3>3 DEF Fresh, PathsOf
  <2> QED
    BY <2>2, <2>3
<1>10. Found'
  BY <1>1, <1>6, <1>9, StillFound DEF FileInv, Found, Waiting, local
<1>11. ASSUME NEW b \in current
       PROVE  Sound(b)'
  <2>1. b \in AnyBatch /\ b.dir \in Dirs /\ Sound(b) /\ DescribesOneGame(b.names)
    BY InHandParts, BatchParts DEF FileInv
  <2>2. Written(b)' = Written(b)
    BY <1>1 DEF Written, Generates, NewPath, local
  <2>3. \A p \in PathsOf(b)' : OnDisk(p)' \/ p \in lost'
    BY <1>4, <1>6, <2>1, InBatch DEF Sound, PathsOf
  <2>4. Generates(b.names) => NewPath(b) \in Paths
    BY <2>1, BatchParts, GameNames, GamePaths
  <2>5. Kind[b.dir] = "folder" => HasAllOf(b, Written(b))'
    BY <1>8, <2>1, <2>2 DEF Sound
  <2>6. \A c : Touched(c) => Touched(c)'
    BY <1>1 DEF Touched, PathsOf
  <2>7. pc = "normalize" => (Gone(b.dir) => Gone(b.dir)')
    BY <1>6 DEF Gone
  <2>8. Generates(b.names) =>
           /\ pc \in {"journal", "write", "save", "judge"} => NewPath(b) \notin Indexed'
           /\ pc = "save" => OnDisk(NewPath(b))' \/ NewPath(b) \in lost'
    BY <1>4, <1>6, <2>1, <2>4 DEF Sound
  <2>9. UNCHANGED <<pc, planned>>
    BY <1>1 DEF local
  <2> QED
    BY <2>1, <2>2, <2>3, <2>5, <2>6, <2>7, <2>8, <2>9 DEF Sound, PathsOf, NewPath
<1> QED
  BY <1>1, <1>7, <1>10, <1>11 DEF FileInv, local

(* A deletion takes the files of its game and no other game's. *)
LEMMA FilesDeleted ==
    ASSUME ReportInv, FileInv, NEW game \in catalog, GameDeleted(game)
    PROVE  FileInv'
<1>1. /\ pc \in {"idle", "done"} /\ catalog' = catalog \ {game}
      /\ disk' = [dir \in Dirs |-> IF dir \in PackageFolders(game) THEN {}
                                    ELSE {n \in disk[dir] : <<dir, n>> \notin game}]
      /\ UNCHANGED <<journal, claim, lost>> /\ UNCHANGED local
  BY DEF GameDeleted
<1>2. \A p \in Indexed' : p \in Indexed \ game /\ p \in Paths
  BY <1>1 DEF Indexed, FileInv, Stock, ReportInv, ScanTypeOK
<1>3. ASSUME NEW p \in Indexed'
      PROVE  OnDisk(p)' \/ p \in lost'
  <2>1. p[1] \in Dirs /\ p = <<p[1], p[2]>> /\ p \in Indexed \ game
    BY <1>2, <1>3, PathParts
  <2>2. p[1] \notin PackageFolders(game)
    BY <2>1 DEF PackageFolders
  <2> QED
    BY <1>1, <2>1, <2>2 DEF OnDisk, FileInv, Stock, IndexedFilesExist
<1>4. Stock'
  <2>1. RowsClaim'
    BY <1>1, ClaimsKept DEF local, FileInv, Stock
  <2>2. IndexedFilesExist'
    BY <1>3 DEF IndexedFilesExist
  <2>3. \A p \in Indexed' : Visible(p[2])
    BY <1>2 DEF FileInv, Stock
  <2> QED
    BY <1>1, <2>1, <2>2, <2>3 DEF FileInv, Stock, Visible
<1>5. Remaining' = {}
  BY <1>1 DEF ReportInv, Phases, Remaining, local
<1> QED
  BY <1>4, <1>5, NothingInHand

LEMMA FileStep ==
    ASSUME ReportInv, FileInv, [ScanNext]_scanVars
    PROVE  FileInv'
<1>1. CASE StartScan \/ Ready \/ UNCHANGED scanVars
  <2>1. UNCHANGED <<disk, catalog, changed, lost, planned, batches, current, op, journal, claim>>
    BY <1>1 DEF StartScan, Ready, scanVars, local, stored, world, Goto
  <2>2. RowsClaim'
    BY <2>1, ClaimsKept DEF FileInv, Stock
  <2>3. \A b \in current : Sound(b)'
    <3>1. pc = "idle" => current = {}
      BY DEF ReportInv, Phases, Remaining
    <3>2. CASE pc = "idle"
      BY <3>1, <3>2
    <3>3. CASE pc' = pc
      BY <2>1, <3>3 DEF FileInv, Sound, PathsOf, OnDisk, HasAllOf, Indexed, NewPath, Touched,
         Written, Generates, Gone
    <3> QED
      BY <1>1, <3>2, <3>3 DEF StartScan, At, Ready, scanVars, local
  <2> QED
    BY <2>1, <2>2, <2>3, FilesKept
<1>2. CASE Discover
  BY <1>2, FilesDiscovered
<1>3. CASE PlanBatch
  BY <1>3, FilesPlanned
<1>4. CASE Revalidate
  BY <1>4, FilesRevalidated
<1>5. CASE Normalize
  BY <1>5, FilesNormalized
<1>6. CASE Reserve
  BY <1>6, FilesReserved
<1>7. CASE JournalPlaylist
  BY <1>7, FilesJournaled
<1>8. CASE WritePlaylist
  BY <1>8, FilesWritten
<1>9. CASE Save
  BY <1>9, FilesSaved
<1>10. CASE SaveFails \/ CompleteRow
  BY <1>10, FilesSettled
<1>11. CASE WriteFails \/ Judge \/ Cancel \/ Crash \/ Finish \/ StepFails \/ DiscoverFails
  BY <1>11, FilesLeft
<1>12. CASE \E o \in Ops : RecoverUndecided(o) \/ RecoverCommitted(o)
  BY <1>12, FilesRecovered
<1>13. CASE \E path \in UserPaths : UserAdds(path) \/ UserRemoves(path) \/ UserChanges(path)
  BY <1>13, FilesMeddled
<1>14. CASE \E game \in catalog : GameDeleted(game)
  BY <1>14, FilesDeleted
<1> QED
  BY <1>1, <1>2, <1>3, <1>4, <1>5, <1>6, <1>7, <1>8, <1>9, <1>10, <1>11, <1>12, <1>13, <1>14
  DEF ScanNext, Scan, Recovery

LEMMA FileInit == ScanInit => FileInv
BY DEF ScanInit, Rest, FileInv, Stock, RowsClaim, Found, Waiting, IndexedFilesExist, Indexed

LEMMA FileAlways == ScanSpec => [](ReportInv /\ FileInv)
<1>1. ScanInit => ReportInv /\ FileInv
  BY ReportInit, FileInit
<1>2. ReportInv /\ FileInv /\ [ScanNext]_scanVars => (ReportInv /\ FileInv)'
  BY ReportStep, FileStep
<1> QED
  BY <1>1, <1>2, PTL DEF ScanSpec

(* No row of a game comes from a stale discovery, from a folder renamed     *)
(* under a game, or loses its file to the recovery of a scan that stopped   *)
(* half-way: its file is there unless a user took it away.                  *)
THEOREM ScansKeepFiles == ScanSpec => []IndexedFilesExist
<1>1. ReportInv /\ FileInv => IndexedFilesExist
  BY DEF FileInv, Stock
<1> QED
  BY <1>1, FileAlways, PTL

(* Only Save adds a game, and it adds the folder that Sound describes. *)
LEMMA SavesOnly ==
    ASSUME [ScanNext]_scanVars, NEW g \in catalog' \ catalog
    PROVE  Save
<1>1. CASE catalog' = catalog \/ \E game \in catalog : catalog' = catalog \ {game}
  BY <1>1
<1> QED
  BY <1>1
  DEF ScanNext, Scan, Recovery, StartScan, Discover, DiscoverFails, PlanBatch, Revalidate,
      Normalize, Reserve, JournalPlaylist, WritePlaylist, WriteFails, SaveFails, Judge, CompleteRow,
      StepFails, Finish, Ready, RecoverUndecided, RecoverCommitted, Reconciled, Cancel, Crash,
      UserAdds, UserRemoves, UserChanges, GameDeleted, stored, scanVars

Whole(g) ==
    \A p \in g :
      /\ \A q \in g : q[1] = p[1]
      /\ Kind[p[1]] = "folder" =>
           \A n \in disk[p[1]] : Sort[n] = "game" /\ <<p[1], n>> \notin changed => <<p[1], n>> \in g

LEMMA SavedWhole ==
    ASSUME ReportInv, FileInv, [ScanNext]_scanVars, NEW g \in catalog' \ catalog
    PROVE  Whole(g)
<1>1. Save
  BY SavesOnly
<1>2. PICK b \in current : catalog' = catalog \cup {GameOf(b)}
  BY <1>1 DEF Save
<1>3. /\ g = GameOf(b) /\ pc = "save" /\ b \in AnyBatch /\ DescribesOneGame(b.names) /\ Sound(b)
  BY <1>1, <1>2, InHandParts DEF Save, At, FileInv
<1>4. /\ \A p \in g : p[1] = b.dir
      /\ PathsOf(b) \subseteq g
      /\ Generates(b.names) => NewPath(b) \in g
  BY <1>3, GamePaths
<1>5. ASSUME Kind[b.dir] = "folder", NEW n \in disk[b.dir], Sort[n] = "game",
             <<b.dir, n>> \notin changed
      PROVE  <<b.dir, n>> \in g
  <2>1. n \in b.names \/ <<b.dir, n>> \in Written(b)
    BY <1>3, <1>5 DEF Sound, HasAllOf
  <2>2. n \in b.names => <<b.dir, n>> \in PathsOf(b)
    BY DEF PathsOf
  <2>3. <<b.dir, n>> \in Written(b) => Generates(b.names) /\ <<b.dir, n>> = NewPath(b)
    BY DEF Written
  <2> QED
    BY <1>4, <2>1, <2>2, <2>3
<1> QED
  BY <1>4, <1>5 DEF Whole

(* A scan adds a game folder whole: every file of it that discovery saw and *)
(* nobody changed, and none of another folder, although users work on the   *)
(* root and the folder may be renamed on the way.                           *)
THEOREM ScansTakeWholeFolders == ScanSpec => GamesAreWhole
<1>1. ReportInv /\ FileInv /\ [ScanNext]_scanVars
        => [\A g \in catalog' \ catalog : Whole(g)]_scanVars
  BY SavedWhole
<1>2. ScanSpec => [][\A g \in catalog' \ catalog : Whole(g)]_scanVars
  BY <1>1, FileAlways, PTL DEF ScanSpec
<1>3. [][\A g \in catalog' \ catalog : Whole(g)]_scanVars => GamesAreWhole
  <2>1. [\A g \in catalog' \ catalog : Whole(g)]_scanVars =>
        [\A g \in catalog' \ catalog : \A p \in g :
         /\ \A q \in g : q[1] = p[1]
         /\ Kind[p[1]] = "folder" =>
              \A n \in disk[p[1]] : Sort[n] = "game" /\ <<p[1], n>> \notin changed
                                      => <<p[1], n>> \in g]_scanVars
    BY DEF Whole
  <2> QED
    BY <2>1, PTL DEF GamesAreWhole
<1> QED
  BY <1>2, <1>3

-----------------------------------------------------------------------------
(* Nothing left out.  While nobody has changed a file since discovery, the  *)
(* batches still in hand cover what discovery would find again, except for  *)
(* what the scan could not import.                                          *)

Left(x) == ~(Importable(x) /\ Unobstructed(x))

Covers(b, x) == b.dir = x.dir /\ (Kind[x.dir] = "folder" \/ b.names \cap x.names # {})

Covered ==
    pc \notin {"idle", "discover"} =>
      \A dir \in Dirs : \A x \in BatchesOf(dir) : Left(x) \/ \E b \in Remaining : Covers(b, x)

StillThere == \A b \in Waiting : b \in BatchesOf(b.dir)

(* The batch in hand: its files are on the disk and discovery would find    *)
(* them, wherever the folder is now.                                        *)
Handled(b) ==
    /\ \A p \in PathsOf(b) : OnDisk(p)
    /\ \A n \in b.names : Sort[n] # "sidecar"
    /\ pc = "normalize" => b \in BatchesOf(b.dir)
    /\ pc # "normalize" /\ HasPlaylist(b.names) =>
         Kind[b.dir] = "folder" /\ Home[PlaylistName(b.names)] = b.dir
    /\ pc = "reserve" /\ Kind[b.dir] = "folder" =>
         \A x \in BatchesOf(b.dir) : x.names = b.names \/ PathsOf(x) \cap Indexed # {}
    /\ pc = "complete" => PathsOf(b) \subseteq Indexed

Kept == Covered /\ StillThere /\ \A b \in current : Handled(b)

LeftInv == {} \notin catalog /\ (changed = {} => Kept)

(* What a step leaves of all this.  The batches of a directory depend on    *)
(* its files and on the sidecars in the catalog.                            *)
LEMMA SameBatches ==
    ASSUME NEW dir \in Dirs, disk'[dir] = disk[dir],
           \A n \in Names : Sort[n] = "sidecar" => (<<dir, n>> \in Indexed' <=> <<dir, n>> \in Indexed)
    PROVE  BatchesOf(dir)' = BatchesOf(dir)
<1>1. \A n \in Names : Considered(<<dir, n>>)' <=> Considered(<<dir, n>>)
  BY DEF Considered, Counted, OnDisk, Internal, Odd, IgnoredSidecar
<1>2. ToImport(dir)' = ToImport(dir)
  BY <1>1 DEF ToImport
<1>3. \A names : NewBatch(dir, names)' = NewBatch(dir, names)
  BY DEF NewBatch, Blocked, Odd
<1> QED
  BY <1>2, <1>3 DEF BatchesOf

LEMMA FoundNext ==
    ASSUME NEW dir \in Dirs, NEW x \in BatchesOf(dir)'
    PROVE  x \in AnyBatch /\ x.dir = dir /\ (Kind[dir] = "folder" => x.names = ToImport(dir)')
<1> DEFINE Seen(d, b) == b \in AnyBatch /\ b.dir = d /\ (Kind[d] = "folder" => b.names = ToImport(d))
<1>1. \A d \in Dirs : \A b \in BatchesOf(d) : Seen(d, b)
  BY FoundThere
<1>2. (\A d \in Dirs : \A b \in BatchesOf(d) : Seen(d, b))'
  BY <1>1, PTL
<1> QED
  BY <1>2

LEMMA StillLeft ==
    ASSUME NEW x \in AnyBatch, Left(x), Indexed \subseteq Indexed', scanned \subseteq scanned',
           \A dir \in Dirs : IsDir(dir) => IsDir(dir)' \/ \E p \in scanned : p[1] = dir
    PROVE  Left(x)'
<1> SUFFICES ASSUME Importable(x)', Unobstructed(x)'
             PROVE  FALSE
  BY DEF Left
<1>1. Importable(x) /\ DescribesOneGame(x.names)
  BY DEF Importable, Untried, PathsOf
<1>2. ~Unobstructed(x)
  BY <1>1 DEF Left
<1> DEFINE home == Home[PlaylistName(x.names)]
<1>3. ~Repeats(x.names)
  BY DEF Unobstructed
<1>4. HasPlaylist(x.names)
  BY <1>2, <1>3 DEF Unobstructed
<1>5. /\ home = x.dir \/ (~IsDir(home)' /\ \A p \in scanned' : p[1] # home)
      /\ <<home, PlaylistName(x.names)>> \notin Indexed'
  BY <1>4 DEF Unobstructed
<1>6. ~(home = x.dir \/ (~IsDir(home) /\ \A p \in scanned : p[1] # home))
  BY <1>2, <1>3, <1>5 DEF Unobstructed
<1>7. home \in Dirs
  BY <1>1, <1>4, BatchParts, GameNames, ScanAssumption
<1> HIDE DEF home
<1> QED
  BY <1>5, <1>6, <1>7

LEMMA IndexedLeft ==
    ASSUME NEW x, PathsOf(x) \cap Indexed # {}
    PROVE  Left(x)
BY DEF Left, Importable, Untried

(* What a batch covers in its own directory.                                *)
LEMMA CoversItself ==
    ASSUME NEW dir \in Dirs, NEW b \in BatchesOf(dir), NEW x \in BatchesOf(dir)
    PROVE  Covers(b, x) <=> x = b
BY FoundThere, FoundOnce DEF Covers

LEMMA CoversMeet ==
    ASSUME NEW b \in AnyBatch, \A p \in PathsOf(b) : OnDisk(p), b.names # {},
           \A n \in b.names : Sort[n] # "sidecar" /\ Visible(n),
           NEW x \in BatchesOf(b.dir), Covers(b, x)
    PROVE  PathsOf(b) \cap PathsOf(x) # {}
<1>1. b.dir \in Dirs /\ b.names \subseteq Names
  BY BatchParts
<1>2. x \in AnyBatch /\ x.dir = b.dir
  BY <1>1, FoundThere
<1>3. b.names \cap x.names # {}
  <2>1. CASE Kind[x.dir] = "folder"
    <3>1. x.names = ToImport(b.dir)
      BY <1>1, <1>2, <2>1, FoundThere
    <3>2. \A n \in b.names : Considered(<<b.dir, n>>)
      BY <1>1 DEF Considered, Counted, Internal, Odd, IgnoredSidecar, Visible, PathsOf
    <3>3. b.names \subseteq ToImport(b.dir)
      BY <1>1, <3>2 DEF ToImport
    <3> QED
      BY <3>1, <3>3
  <2> QED
    BY <2>1 DEF Covers
<1>4. PICK n \in b.names : n \in x.names
  BY <1>3
<1>5. <<b.dir, n>> \in PathsOf(b) /\ <<b.dir, n>> \in PathsOf(x)
  BY <1>2, <1>4 DEF PathsOf
<1> QED
  BY <1>5

(* How a step keeps the cover: every batch that discovery would find now    *)
(* was there before or is covered by one in hand, and a batch that is       *)
(* settled is indexed or could not be imported.                             *)
LEMMA CoverKept ==
    ASSUME ReportInv, Covered, pc \notin {"idle", "discover"},
           Indexed \subseteq Indexed', scanned' = scanned,
           \A dir \in Dirs : IsDir(dir) => IsDir(dir)' \/ \E p \in scanned : p[1] = dir,
           \A dir \in Dirs : \A x \in BatchesOf(dir)' :
              x \in BatchesOf(dir) \/ \E b \in Remaining' : Covers(b, x),
           \A b \in Remaining \ Remaining' : \A x \in BatchesOf(b.dir)' :
              x \in BatchesOf(b.dir) /\ Covers(b, x) => Left(x)'
    PROVE  Covered'
<1> SUFFICES ASSUME NEW dir \in Dirs, NEW x \in BatchesOf(dir)',
                    ~\E b \in Remaining' : Covers(b, x)
             PROVE  Left(x)'
  BY DEF Covered, Covers
<1>1. x \in AnyBatch /\ x.dir = dir /\ x \in BatchesOf(dir)
  BY FoundNext
<1>2. CASE Left(x)
  BY <1>1, <1>2, StillLeft
<1>3. CASE ~Left(x)
  <2>1. PICK b \in Remaining : Covers(b, x)
    BY <1>1, <1>3 DEF Covered
  <2>2. b.dir = dir /\ b \in Remaining \ Remaining'
    BY <1>1, <2>1 DEF Covers
  <2> QED
    BY <1>1, <2>1, <2>2
<1> QED
  BY <1>2, <1>3

(* A step that leaves the files, the catalog and the count as they are.     *)
LEMMA KeptQuietly ==
    ASSUME ReportInv, Kept, pc \notin {"idle", "discover"}, UNCHANGED <<disk, catalog, scanned>>,
           Waiting' \subseteq Waiting,
           \A b \in Remaining \ Remaining' : \A x \in BatchesOf(b.dir) : Covers(b, x) => Left(x),
           \A b \in current' : Handled(b)'
    PROVE  Kept'
<1>1. Indexed' = Indexed /\ \A dir : IsDir(dir)' <=> IsDir(dir)
  BY DEF Indexed, IsDir
<1>2. \A dir \in Dirs : BatchesOf(dir)' = BatchesOf(dir)
  BY <1>1, SameBatches
<1>3. \A b \in Remaining : b \in AnyBatch /\ b.dir \in Dirs
  BY BatchParts DEF ReportInv, ScanTypeOK, Remaining
<1>4. \A b \in Remaining \ Remaining' : \A x \in BatchesOf(b.dir)' :
        x \in BatchesOf(b.dir) /\ Covers(b, x) => Left(x)'
  <2> SUFFICES ASSUME NEW b \in Remaining \ Remaining', NEW x \in BatchesOf(b.dir), Covers(b, x)
               PROVE  Left(x)'
    OBVIOUS
  <2>1. x \in AnyBatch /\ Left(x)
    BY <1>3, FoundThere
  <2> QED
    BY <1>1, <2>1, StillLeft
<1>5. Covered'
  BY <1>1, <1>2, <1>4, CoverKept DEF Kept
<1>6. StillThere'
  BY <1>2, <1>3 DEF Kept, StillThere, Waiting, Remaining
<1> QED
  BY <1>5, <1>6 DEF Kept

LEMMA KeptAway ==
    ASSUME pc' = "idle" \/ pc' = "discover", Remaining' = {}
    PROVE  Kept'
BY DEF Kept, Covered, StillThere, Waiting, Remaining

(* The batch in hand is not empty, and a Teatro playlist is not one of it.  *)
LEMMA InHandNames ==
    ASSUME ReportInv, FileInv, NEW b \in current
    PROVE  /\ b.dir \in Dirs /\ b.names \in SUBSET Names /\ b.names # {}
           /\ \A n \in b.names : Visible(n)
           /\ HasPlaylist(b.names) => PlaylistName(b.names) \in Names
           /\ Generates(b.names) =>
                /\ HasPlaylist(b.names) /\ NewPath(b) \in Paths
                /\ Sort[PlaylistName(b.names)] = "game" /\ PlaylistName(b.names) \notin b.names
<1>1. b \in AnyBatch /\ DescribesOneGame(b.names)
  BY InHandParts
<1>2. b.dir \in Dirs /\ b.names \in SUBSET Names
  BY <1>1, BatchParts
<1>3. b.names # {}
  BY DEF ReportInv, Apart, Remaining, SeenOf
<1>4. \A n \in b.names : Visible(n)
  BY DEF FileInv, Found
<1> QED
  BY <1>1, <1>2, <1>3, <1>4, GameNames, GamePaths

(* Discovery covers everything.                                             *)
LEMMA KeptDiscovered ==
    ASSUME ReportInv, Discover
    PROVE  Kept'
<1>1. /\ batches' = UNION {BatchesOf(dir) : dir \in Dirs}
      /\ planned' = planned /\ current' = current
      /\ UNCHANGED <<disk, catalog>> /\ pc = "discover" /\ pc' = "plan"
  BY DEF Discover, At, stored
<1>2. planned = {} /\ current = {}
  BY <1>1 DEF ReportInv, Phases, Remaining
<1>3. Remaining' = batches' /\ Waiting' = batches' /\ current' = {}
  BY <1>1, <1>2 DEF Remaining, Waiting
<1>4. \A dir \in Dirs : BatchesOf(dir)' = BatchesOf(dir)
  BY <1>1, SameBatches DEF Indexed
<1>5. Covered'
  <2> SUFFICES ASSUME NEW dir \in Dirs, NEW x \in BatchesOf(dir)
               PROVE  \E b \in Remaining' : Covers(b, x)
    BY <1>4 DEF Covered, Covers
  <2>1. x \in Remaining' /\ x.names # {}
    BY <1>1, <1>3, FoundThere
  <2> QED
    BY <2>1 DEF Covers
<1>6. StillThere'
  <2> SUFFICES ASSUME NEW b \in batches'
               PROVE  b \in BatchesOf(b.dir)'
    BY <1>3 DEF StillThere
  <2>1. PICK dir \in Dirs : b \in BatchesOf(dir)
    BY <1>1
  <2> QED
    BY <1>4, <2>1, FoundThere
<1> QED
  BY <1>3, <1>5, <1>6 DEF Kept

(* A batch that discovery found is the only one it covers.                  *)
LEMMA SettledAlone ==
    ASSUME NEW b \in AnyBatch, b \in BatchesOf(b.dir), Left(b)
    PROVE  \A x \in BatchesOf(b.dir) : Covers(b, x) => Left(x)
BY BatchParts, CoversItself

LEMMA KeptPlanned ==
    ASSUME ReportInv, Kept, PlanBatch
    PROVE  Kept'
<1>1. /\ pc = "plan" /\ UNCHANGED <<disk, catalog, scanned>> /\ current' = current
      /\ current = {}
  BY DEF PlanBatch, At, stored, ReportInv, Phases
<1>2. CASE batches = {} /\ UNCHANGED <<batches, planned>>
  BY <1>1, <1>2, KeptQuietly DEF Remaining, Waiting
<1>3. ASSUME NEW b \in batches, batches' = batches \ {b},
             \/ Importable(b) /\ Readable(b) /\ planned' = planned \cup {b}
             \/ ~(Importable(b) /\ Readable(b)) /\ planned' = planned
      PROVE  Kept'
  <2>1. b \in AnyBatch /\ b.dir \in Dirs /\ b \in BatchesOf(b.dir)
    BY BatchParts DEF ReportInv, ScanTypeOK, Kept, StillThere, Waiting
  <2>2. Readable(b)
    <3>1. b.names \subseteq ToImport(b.dir)
      BY <2>1, FoundThere
    <3> QED
      BY <3>1 DEF Readable, ToImport, Considered, Counted
  <2>3. Waiting' \subseteq Waiting
    BY <1>3 DEF Waiting
  <2>4. ASSUME NEW c \in Remaining \ Remaining'
        PROVE  \A x \in BatchesOf(c.dir) : Covers(c, x) => Left(x)
    <3>1. c = b /\ ~Importable(b)
      BY <1>1, <1>3, <2>2, <2>4 DEF Remaining
    <3> QED
      BY <2>1, <3>1, SettledAlone DEF Left
  <2> QED
    BY <1>1, <2>3, <2>4, KeptQuietly
<1> QED
  BY <1>2, <1>3 DEF PlanBatch

LEMMA KeptRevalidated ==
    ASSUME ReportInv, Kept, changed = {}, Revalidate
    PROVE  Kept'
<1>1. /\ pc = "revalidate" /\ UNCHANGED <<disk, catalog, changed>> /\ scanned' = scanned
      /\ batches = {} /\ current = {}
  BY DEF Revalidate, At, stored, world, ReportInv, Phases, Goto
<1>2. CASE planned = {} /\ Goto("done")
  BY <1>1, <1>2, KeptQuietly DEF Remaining, Waiting, Goto
<1>3. ASSUME NEW b \in planned, planned' = planned \ {b}, batches' = batches,
             \/ Unchanged(b) /\ pc' = "normalize" /\ current' = {b}
             \/ ~Unchanged(b) /\ current' = current
      PROVE  Kept'
  <2>1. b \in AnyBatch /\ b.dir \in Dirs /\ b \in BatchesOf(b.dir)
    BY BatchParts DEF ReportInv, ScanTypeOK, Kept, StillThere, Waiting
  <2>2. \A p \in PathsOf(b) : Considered(p)
    <3>1. b.names \subseteq ToImport(b.dir)
      BY <2>1, FoundThere
    <3> QED
      BY <3>1 DEF ToImport, PathsOf
  <2>3. Waiting' \subseteq Waiting
    BY <1>3 DEF Waiting
  <2>4. CASE Unchanged(b) /\ pc' = "normalize" /\ current' = {b}
    <3>1. Remaining' = Remaining
      BY <1>1, <1>3, <2>4 DEF Remaining
    <3>2. BatchesOf(b.dir)' = BatchesOf(b.dir)
      BY <1>1, <2>1, SameBatches DEF Indexed
    <3>3. \A p \in PathsOf(b) : OnDisk(p)' /\ Sort[p[2]] # "sidecar"
      <4> SUFFICES ASSUME NEW p \in PathsOf(b)
                   PROVE  OnDisk(p)' /\ Sort[p[2]] # "sidecar"
        OBVIOUS
      <4>1. OnDisk(p) /\ p \notin Indexed /\ ~IgnoredSidecar(p)
        BY <2>2, <2>4 DEF Unchanged, Considered
      <4> QED
        BY <1>1, <4>1 DEF IgnoredSidecar, OnDisk
    <3>4. \A n \in b.names : Sort[n] # "sidecar"
      <4> SUFFICES ASSUME NEW n \in b.names
                   PROVE  Sort[n] # "sidecar"
        OBVIOUS
      <4>1. <<b.dir, n>> \in PathsOf(b) /\ <<b.dir, n>>[2] = n
        BY DEF PathsOf
      <4> QED
        BY <3>3, <4>1
    <3>5. Handled(b)'
      BY <2>1, <2>4, <3>2, <3>3, <3>4 DEF Handled, PathsOf
    <3> QED
      BY <1>1, <2>3, <2>4, <3>1, <3>5, KeptQuietly
  <2>5. CASE ~Unchanged(b) /\ current' = current
    <3>1. PathsOf(b) \cap Indexed # {}
      BY <1>1, <2>2, <2>5 DEF Unchanged, Considered, Counted
    <3>2. Left(b)
      BY <3>1, IndexedLeft
    <3>3. \A c \in Remaining \ Remaining' : c = b
      BY <1>3, <2>5 DEF Remaining
    <3> QED
      BY <1>1, <2>1, <2>3, <2>5, <3>2, <3>3, SettledAlone, KeptQuietly
  <2> QED
    BY <1>3, <2>4, <2>5
<1> QED
  BY <1>2, <1>3 DEF Revalidate

(* What the batch in hand keeps while the disk and the catalog stay.        *)
LEMMA HandledKept ==
    ASSUME ReportInv, NEW b \in current, Handled(b), UNCHANGED <<disk, catalog>>,
           pc # "normalize", pc' \notin {"normalize", "reserve", "complete"}
    PROVE  Handled(b)'
BY DEF Handled, OnDisk, PathsOf

LEMMA KeptReserved ==
    ASSUME ReportInv, FileInv, Kept, changed = {}, Reserve
    PROVE  Kept'
<1>1. PICK b \in current :
         IF ~Generates(b.names)
           THEN Goto("save") /\ UNCHANGED <<outcome, op>>
           ELSE IF OnDisk(NewPath(b)) \/ NewPath(b) \in Indexed
                  THEN NextBatch(Reported(b))
                  ELSE Goto("journal") /\ UNCHANGED <<outcome, op>>
  BY DEF Reserve
<1>2. pc = "reserve" /\ UNCHANGED <<disk, catalog>> /\ scanned' = scanned
  BY <1>1 DEF Reserve, At, stored, Goto, NextBatch
<1>3. current = {b} /\ b \in AnyBatch /\ Handled(b) /\ Sound(b)
  BY InHandParts DEF Kept, FileInv
<1>4. CASE Goto("save") \/ Goto("journal")
  <2>1. Handled(b)'
    BY <1>2, <1>3, <1>4, HandledKept DEF Goto
  <2> QED
    BY <1>2, <1>3, <1>4, <2>1, KeptQuietly DEF Goto, Remaining, Waiting
<1>5. CASE /\ Generates(b.names) /\ (OnDisk(NewPath(b)) \/ NewPath(b) \in Indexed)
           /\ NextBatch(Reported(b))
  <2>1. /\ b.dir \in Dirs /\ HasPlaylist(b.names) /\ PlaylistName(b.names) \in Names
        /\ Sort[PlaylistName(b.names)] = "game" /\ PlaylistName(b.names) \notin b.names
    BY <1>3, <1>5, InHandNames
  <2>2. Kind[b.dir] = "folder" /\ Home[PlaylistName(b.names)] = b.dir
    BY <1>2, <1>3, <2>1 DEF Handled
  <2>3. ~OnDisk(NewPath(b))
    <3>1. HasAllOf(b, {})
      BY <1>2, <1>3, <2>2 DEF Sound, Written
    <3> QED
      BY <2>1, <3>1 DEF HasAllOf, OnDisk, NewPath
  <2>4. ASSUME NEW x \in BatchesOf(b.dir)
        PROVE  Left(x)
    <3>1. CASE PathsOf(x) \cap Indexed # {}
      BY <3>1, IndexedLeft
    <3>2. CASE x.names = b.names
      BY <1>5, <2>1, <2>2, <2>3, <3>2 DEF Left, Unobstructed, NewPath
    <3> QED
      BY <1>2, <1>3, <2>2, <3>1, <3>2 DEF Handled
  <2>5. Waiting' = Waiting /\ current' = {} /\ \A c \in Remaining \ Remaining' : c = b
    BY <1>3, <1>5 DEF NextBatch, Waiting, Remaining
  <2> QED
    BY <1>2, <2>4, <2>5, KeptQuietly
<1> QED
  BY <1>1, <1>4, <1>5

LEMMA KeptJournaled ==
    ASSUME ReportInv, Kept, JournalPlaylist
    PROVE  Kept'
<1>1. /\ pc = "journal" /\ pc' = "write" /\ UNCHANGED <<disk, catalog>>
      /\ UNCHANGED <<batches, planned, current, scanned>>
  BY DEF JournalPlaylist, At, Goto
<1>2. \A b \in current' : Handled(b)'
  BY <1>1, HandledKept DEF Kept
<1> QED
  BY <1>1, <1>2, KeptQuietly DEF Remaining, Waiting

(* The playlist is a new file in the folder in hand.                        *)
LEMMA KeptWritten ==
    ASSUME ReportInv, FileInv, Kept, changed = {}, WritePlaylist
    PROVE  Kept'
<1>1. PICK b \in current : ~OnDisk(NewPath(b)) /\ Write(NewPath(b))
  BY DEF WritePlaylist
<1>2. /\ pc = "write" /\ pc' = "save" /\ catalog' = catalog
      /\ UNCHANGED <<batches, planned, current, scanned>>
  BY DEF WritePlaylist, At, Goto
<1>3. current = {b} /\ b \in AnyBatch /\ Handled(b) /\ Sound(b) /\ Generates(b.names)
  BY <1>2, InHandParts DEF Kept, FileInv
<1>4. b.dir \in Dirs /\ HasPlaylist(b.names) /\ PlaylistName(b.names) \in Names
  BY <1>3, InHandNames
<1>5. Kind[b.dir] = "folder"
  BY <1>2, <1>3, <1>4 DEF Handled
<1>6. disk' = [disk EXCEPT ![b.dir] = @ \cup {PlaylistName(b.names)}]
  BY <1>1 DEF Write, NewPath
<1>7. disk \in [Dirs -> SUBSET Names] /\ Indexed' = Indexed
  BY <1>2 DEF ReportInv, ScanTypeOK, Indexed
<1>8. \A dir \in Dirs : dir # b.dir => BatchesOf(dir)' = BatchesOf(dir)
  BY <1>6, <1>7, SameBatches
<1>9. Remaining' = Remaining /\ b \in Remaining
  BY <1>2, <1>3 DEF Remaining
<1>10. Covered'
  <2>1. \A dir \in Dirs : IsDir(dir) => IsDir(dir)'
    BY <1>6, <1>7 DEF IsDir
  <2>2. ASSUME NEW dir \in Dirs, NEW x \in BatchesOf(dir)'
        PROVE  x \in BatchesOf(dir) \/ \E c \in Remaining' : Covers(c, x)
    <3>1. x.dir = dir
      BY FoundNext
    <3>2. CASE dir = b.dir
      BY <1>5, <1>9, <3>1, <3>2 DEF Covers
    <3> QED
      BY <1>8, <3>2
  <2> QED
    BY <1>2, <1>7, <1>9, <2>1, <2>2, CoverKept DEF Kept
<1>11. StillThere'
  <2>1. batches = {}
    BY <1>2 DEF ReportInv, Phases, Importing
  <2>2. \A c \in planned : c.dir # b.dir /\ c.dir \in Dirs
    BY <1>3, <1>5, BatchParts DEF Sound, Touched, ReportInv, ScanTypeOK
  <2> QED
    BY <1>2, <1>8, <2>1, <2>2 DEF Kept, StillThere, Waiting
<1>12. Handled(b)'
  <2>1. \A p \in PathsOf(b) : OnDisk(p)'
    BY <1>3, <1>6, <1>7, InBatch DEF Handled, OnDisk
  <2> QED
    BY <1>2, <1>3, <2>1 DEF Handled, PathsOf
<1> QED
  BY <1>2, <1>3, <1>10, <1>11, <1>12 DEF Kept

(* The folder in hand is renamed: its batch covers the new place.           *)
LEMMA KeptRenamed ==
    ASSUME ReportInv, FileInv, Kept, changed = {}, pc = "normalize", pc' = "reserve",
           NEW b \in current, NEW to \in Dirs, HasPlaylist(b.names),
           to = Home[PlaylistName(b.names)], to # b.dir, ~IsDir(to),
           disk' = [disk EXCEPT ![to] = disk[b.dir], ![b.dir] = {}],
           current' = {[b EXCEPT !.dir = to]},
           UNCHANGED <<catalog, batches, planned, scanned>>
    PROVE  Kept'
<1> DEFINE moved == [b EXCEPT !.dir = to]
<1>1. /\ current = {b} /\ b \in AnyBatch /\ DescribesOneGame(b.names) /\ Handled(b) /\ Sound(b)
      /\ Kind[b.seen] = "folder"
  BY InHandParts DEF Kept, FileInv
<1>2. moved \in AnyBatch /\ moved.dir = to /\ moved.names = b.names
  BY <1>1 DEF AnyBatch
<1>3. b.seen = b.dir /\ Kind[b.dir] = "folder" /\ b \in BatchesOf(b.dir)
  BY <1>1 DEF Sound, Handled
<1>4. b.dir \in Dirs /\ b.names \in SUBSET Names /\ b.names # {} /\ Kind[to] = "folder"
  <2>1. PlaylistName(b.names) \in Names
    BY InHandNames
  <2> QED
    BY <2>1, InHandNames, ScanAssumption
<1>5. disk \in [Dirs -> SUBSET Names] /\ Indexed' = Indexed /\ disk[to] = {}
  BY DEF ReportInv, ScanTypeOK, Indexed, IsDir
<1> HIDE DEF moved
<1>6. disk'[to] = disk[b.dir] /\ disk'[b.dir] = {}
      /\ \A dir \in Dirs : dir \notin {to, b.dir} => disk'[dir] = disk[dir]
  BY <1>4, <1>5
<1>7. \A dir \in Dirs : dir \notin {to, b.dir} => BatchesOf(dir)' = BatchesOf(dir)
  BY <1>5, <1>6, SameBatches
<1>8. BatchesOf(b.dir)' = {}
  <2>1. ToImport(b.dir)' = {}
    BY <1>6 DEF ToImport, Considered, Counted, OnDisk
  <2> QED
    BY <1>3, <2>1 DEF BatchesOf
<1>9. current' = {moved} /\ moved \in Remaining'
  BY DEF moved, Remaining
<1>10. Covered'
  <2>1. \A dir \in Dirs : IsDir(dir) => IsDir(dir)' \/ \E p \in scanned : p[1] = dir
    <3>1. \E p \in scanned : p[1] = b.dir
      <4>1. PICK n \in b.names : TRUE
        BY <1>4
      <4>2. <<b.seen, n>> \in SeenOf(b)
        BY <4>1 DEF SeenOf
      <4>3. <<b.dir, n>> \in scanned
        BY <1>3, <4>2 DEF ReportInv, Apart, Remaining
      <4> QED
        BY <4>3
    <3> QED
      BY <1>5, <1>6, <3>1 DEF IsDir
  <2>2. ASSUME NEW dir \in Dirs, NEW x \in BatchesOf(dir)'
        PROVE  x \in BatchesOf(dir) \/ \E c \in Remaining' : Covers(c, x)
    <3>1. x.dir = dir
      BY FoundNext
    <3>2. CASE dir = to
      BY <1>2, <1>4, <1>9, <3>1, <3>2 DEF Covers
    <3> QED
      BY <1>7, <1>8, <3>2
  <2>3. \A c \in Remaining \ Remaining' : c = b
    BY <1>1 DEF Remaining
  <2> QED
    BY <1>5, <1>8, <2>1, <2>2, <2>3, CoverKept DEF Kept
<1>11. StillThere'
  <2>1. batches = {}
    BY DEF ReportInv, Phases, Importing
  <2>2. ASSUME NEW c \in planned
        PROVE  c.dir \in Dirs /\ c.dir # b.dir /\ c.dir # to
    <3>1. c \in AnyBatch /\ c.dir \in Dirs /\ c \in BatchesOf(c.dir)
      BY BatchParts DEF ReportInv, ScanTypeOK, Kept, StillThere, Waiting
    <3>2. c.dir # b.dir
      BY <1>1, <1>3 DEF Sound, Touched
    <3>3. c.names # {} /\ c.names \subseteq ToImport(c.dir)
      BY <3>1, FoundThere
    <3>4. disk[c.dir] # {}
      BY <3>3 DEF ToImport, Considered, Counted, OnDisk
    <3> QED
      BY <1>5, <3>1, <3>2, <3>4
  <2> QED
    BY <1>7, <2>1, <2>2 DEF Kept, StillThere, Waiting
<1>12. Handled(moved)'
  <2>1. \A p \in PathsOf(moved) : OnDisk(p)'
    <3> SUFFICES ASSUME NEW n \in b.names
                 PROVE  OnDisk(<<to, n>>)'
      BY <1>2 DEF PathsOf
    <3>1. OnDisk(<<b.dir, n>>)
      BY <1>1 DEF Handled, PathsOf
    <3> QED
      BY <1>6, <3>1 DEF OnDisk
  <2>2. ASSUME NEW x \in BatchesOf(to)', x.names # b.names
        PROVE  PathsOf(x) \cap Indexed' # {}
    <3>1. x.dir = to /\ x.names = ToImport(to)'
      BY <1>4, FoundNext
    <3>2. b.names = ToImport(b.dir)
      BY <1>3, <1>4, FoundThere
    <3>3. b.names \subseteq x.names
      <4> SUFFICES ASSUME NEW n \in b.names
                   PROVE  n \in ToImport(to)'
        BY <3>1
      <4>1. Considered(<<b.dir, n>>) /\ Sort[n] # "sidecar" /\ n \in Names
        BY <1>1, <3>2 DEF ToImport, Handled
      <4> QED
        BY <1>6, <4>1 DEF ToImport, Considered, Counted, OnDisk, Internal, Odd, IgnoredSidecar
    <3>4. PICK n \in x.names : n \notin b.names
      BY <2>2, <3>3
    <3>5. <<to, n>> \in Indexed'
      <4>1. Considered(<<to, n>>)' /\ n \in Names
        BY <3>1, <3>4 DEF ToImport
      <4>2. ~Considered(<<b.dir, n>>)
        BY <3>2, <3>4, <4>1 DEF ToImport
      <4> QED
        BY <1>6, <4>1, <4>2 DEF Considered, Counted, OnDisk, Internal, Odd, IgnoredSidecar
    <3>6. <<to, n>> \in PathsOf(x)
      BY <3>1, <3>4 DEF PathsOf
    <3> QED
      BY <3>5, <3>6
  <2> QED
    BY <1>1, <1>2, <1>4, <2>1, <2>2 DEF Handled, PathsOf
<1> QED
  BY <1>9, <1>10, <1>11, <1>12 DEF Kept

LEMMA KeptNormalized ==
    ASSUME ReportInv, FileInv, Kept, changed = {}, Normalize
    PROVE  Kept'
<1>1. PICK b \in current :
        LET to == Home[PlaylistName(b.names)]
        IN \/ /\ HasPlaylist(b.names) => to = b.dir
              /\ Goto("reserve") /\ UNCHANGED disk
           \/ /\ HasPlaylist(b.names) /\ to # b.dir /\ IsDir(to)
              /\ NextBatch(Reported(b)) /\ UNCHANGED disk
           \/ /\ HasPlaylist(b.names) /\ to # b.dir /\ ~IsDir(to)
              /\ disk' = [disk EXCEPT ![to] = disk[b.dir], ![b.dir] = {}]
              /\ current' = {[b EXCEPT !.dir = to]} /\ pc' = "reserve"
              /\ UNCHANGED <<batches, planned, scanned>>
  BY DEF Normalize
<1>2. pc = "normalize" /\ catalog' = catalog
  BY DEF Normalize, At
<1>3. current = {b} /\ b \in AnyBatch /\ Handled(b) /\ Sound(b)
      /\ (HasPlaylist(b.names) => Kind[b.seen] = "folder")
  BY InHandParts DEF Kept, FileInv
<1>4. b.dir \in Dirs /\ b \in BatchesOf(b.dir) /\ b.seen = b.dir
  BY <1>2, <1>3, BatchParts DEF Handled, Sound
<1> DEFINE to == Home[PlaylistName(b.names)]
<1>5. CASE (HasPlaylist(b.names) => to = b.dir) /\ Goto("reserve") /\ UNCHANGED disk
  <2>1. BatchesOf(b.dir)' = BatchesOf(b.dir)
    BY <1>2, <1>4, <1>5, SameBatches DEF Indexed
  <2>2. Kind[b.dir] = "folder" => \A x \in BatchesOf(b.dir) : x.names = b.names
    BY <1>4, FoundOnce
  <2>3. Handled(b)'
    BY <1>2, <1>3, <1>4, <1>5, <2>1, <2>2 DEF Handled, Goto, OnDisk, PathsOf
  <2> QED
    BY <1>2, <1>3, <1>5, <2>3, KeptQuietly DEF Goto, Remaining, Waiting
<1>6. CASE HasPlaylist(b.names) /\ to # b.dir /\ IsDir(to) /\ NextBatch(Reported(b)) /\ UNCHANGED disk
  <2>1. Left(b)
    BY <1>6 DEF Left, Unobstructed
  <2>2. \A x \in BatchesOf(b.dir) : Covers(b, x) => Left(x)
    BY <1>3, <1>4, <2>1, SettledAlone
  <2>3. Waiting' = Waiting /\ current' = {} /\ scanned' = scanned
        /\ \A c \in Remaining \ Remaining' : c = b
    BY <1>3, <1>6 DEF NextBatch, Waiting, Remaining
  <2> QED
    BY <1>2, <1>6, <2>2, <2>3, KeptQuietly
<1>7. CASE /\ HasPlaylist(b.names) /\ to # b.dir /\ ~IsDir(to)
           /\ disk' = [disk EXCEPT ![to] = disk[b.dir], ![b.dir] = {}]
           /\ current' = {[b EXCEPT !.dir = to]} /\ pc' = "reserve"
           /\ UNCHANGED <<batches, planned, scanned>>
  <2>1. to \in Dirs
    <3>1. PlaylistName(b.names) \in Names
      BY <1>7, InHandNames
    <3> QED
      BY <3>1, ScanAssumption
  <2> QED
    BY <1>2, <1>7, <2>1, KeptRenamed
<1> QED
  BY <1>1, <1>5, <1>6, <1>7

(* The game is in the catalog, and no sidecar with it.                      *)
LEMMA KeptSaved ==
    ASSUME ReportInv, FileInv, Kept, Save
    PROVE  Kept'
<1>1. PICK b \in current :
         /\ catalog' = catalog \cup {GameOf(b)}
         /\ IF op = NoOp THEN NextBatch(Reported(b)) ELSE Goto("complete")
  BY DEF Save
<1>2. pc = "save" /\ disk' = disk /\ UNCHANGED <<batches, planned, scanned>>
  BY <1>1 DEF Save, At, NextBatch, Goto
<1>3. current = {b} /\ b \in AnyBatch /\ DescribesOneGame(b.names) /\ Handled(b)
  BY InHandParts DEF Kept
<1>4. Indexed' = Indexed \cup GameOf(b) /\ PathsOf(b) \subseteq Indexed'
  BY <1>1, <1>3, GamePaths DEF Indexed
<1>5. \A p \in GameOf(b) : Sort[p[2]] # "sidecar"
  <2> SUFFICES ASSUME NEW p \in GameOf(b)
               PROVE  Sort[p[2]] # "sidecar"
    OBVIOUS
  <2>1. CASE p \in PathsOf(b)
    BY <1>3, <2>1, InBatch DEF Handled
  <2>2. CASE Generates(b.names) /\ p = NewPath(b)
    BY <2>2, InHandNames DEF NewPath
  <2> QED
    BY <1>3, <2>1, <2>2, GamePaths
<1>6. \A dir \in Dirs : BatchesOf(dir)' = BatchesOf(dir)
  <2> SUFFICES ASSUME NEW dir \in Dirs, NEW n \in Names, Sort[n] = "sidecar"
               PROVE  <<dir, n>> \in Indexed' <=> <<dir, n>> \in Indexed
    BY <1>2, SameBatches
  <2>1. <<dir, n>>[2] = n
    OBVIOUS
  <2>2. <<dir, n>> \notin GameOf(b)
    BY <1>5, <2>1
  <2> QED
    BY <1>4, <2>2
<1>7. Covered'
  <2>1. ASSUME NEW c \in Remaining \ Remaining', NEW x \in BatchesOf(c.dir), Covers(c, x)
        PROVE  Left(x)'
    <3>1. c = b
      BY <1>1, <1>2, <1>3, <2>1 DEF Remaining, Goto
    <3>2. b.names # {} /\ \A n \in b.names : Sort[n] # "sidecar" /\ Visible(n)
      BY <1>3, InHandNames DEF Handled
    <3>3. PathsOf(b) \cap PathsOf(x) # {}
      BY <1>3, <2>1, <3>1, <3>2, CoversMeet DEF Handled
    <3>4. PathsOf(x) \cap Indexed' # {}
      BY <1>4, <3>3
    <3> QED
      BY <3>4 DEF Left, Importable, Untried, PathsOf
  <2>2. \A dir \in Dirs : IsDir(dir) => IsDir(dir)'
    BY <1>2 DEF IsDir
  <2>3. \A c \in Remaining : c.dir \in Dirs
    BY BatchParts DEF ReportInv, ScanTypeOK, Remaining
  <2> QED
    BY <1>2, <1>4, <1>6, <2>1, <2>2, <2>3, CoverKept DEF Kept
<1>8. StillThere'
  BY <1>2, <1>6, BatchParts DEF Kept, StillThere, Waiting, ReportInv, ScanTypeOK
<1>9. \A c \in current' : Handled(c)'
  <2>1. CASE NextBatch(Reported(b))
    BY <2>1 DEF NextBatch
  <2>2. CASE Goto("complete")
    BY <1>2, <1>3, <1>4, <2>2 DEF Goto, Handled, OnDisk, PathsOf
  <2> QED
    BY <1>1, <2>1, <2>2
<1> QED
  BY <1>7, <1>8, <1>9 DEF Kept

LEMMA KeptSettled ==
    ASSUME ReportInv, FileInv, Kept, SaveFails \/ CompleteRow
    PROVE  Kept'
<1>1. pc \in {"save", "complete"} /\ UNCHANGED <<disk, catalog>>
  BY DEF SaveFails, CompleteRow, At, stored
<1>2. CASE Leave
  BY <1>2, KeptAway DEF Leave, Remaining
<1>3. CASE Goto("judge")
  <2>1. \A b \in current' : Handled(b)'
    BY <1>1, <1>3, HandledKept DEF Goto, Kept
  <2> QED
    BY <1>1, <1>3, <2>1, KeptQuietly DEF Goto, Remaining, Waiting
<1>4. CASE CompleteRow
  <2>1. PICK b \in current : NextBatch(Reported(b))
    BY <1>4 DEF CompleteRow
  <2>2. current = {b} /\ b \in AnyBatch /\ Handled(b) /\ pc = "complete"
    BY <1>4, InHandParts DEF Kept, CompleteRow, At
  <2>3. b.names # {} /\ \A n \in b.names : Sort[n] # "sidecar" /\ Visible(n)
    BY <2>2, InHandNames DEF Handled
  <2>4. ASSUME NEW x \in BatchesOf(b.dir), Covers(b, x)
        PROVE  Left(x)
    <3>1. PathsOf(b) \cap PathsOf(x) # {}
      BY <2>2, <2>3, <2>4, CoversMeet DEF Handled
    <3> QED
      BY <2>2, <3>1, IndexedLeft DEF Handled
  <2>5. Waiting' = Waiting /\ current' = {} /\ scanned' = scanned
        /\ \A c \in Remaining \ Remaining' : c = b
    BY <2>1, <2>2 DEF NextBatch, Waiting, Remaining
  <2> QED
    BY <1>1, <2>4, <2>5, KeptQuietly
<1> QED
  BY <1>2, <1>3, <1>4 DEF SaveFails

(* Every game in the catalog has a file.                                    *)
LEMMA GamesHaveFiles ==
    ASSUME ReportInv, FileInv, {} \notin catalog, [ScanNext]_scanVars
    PROVE  {} \notin catalog'
<1> SUFFICES ASSUME {} \in catalog' \ catalog
             PROVE  FALSE
  OBVIOUS
<1>1. Save
  BY SavesOnly
<1>2. PICK b \in current : catalog' = catalog \cup {GameOf(b)}
  BY <1>1 DEF Save
<1>3. b \in AnyBatch /\ DescribesOneGame(b.names) /\ b.names # {}
  BY <1>2, InHandParts, InHandNames
<1>4. PICK n \in b.names : TRUE
  BY <1>3
<1>5. PathsOf(b) \subseteq GameOf(b) /\ <<b.dir, n>> \in PathsOf(b)
  BY <1>3, GamePaths DEF PathsOf
<1> QED
  BY <1>2, <1>5

LEMMA LeftStep ==
    ASSUME ReportInv, FileInv, LeftInv, [ScanNext]_scanVars
    PROVE  LeftInv'
<1> SUFFICES ASSUME changed' = {}
             PROVE  Kept'
  BY GamesHaveFiles DEF LeftInv
<1>1. CASE Discover
  BY <1>1, KeptDiscovered
<1>2. CASE ~Discover
  <2>1. changed = {}
    BY <1>2
    DEF ScanNext, Scan, Recovery, StartScan, DiscoverFails, PlanBatch, Revalidate,
        Normalize, Reserve, JournalPlaylist, WritePlaylist, WriteFails, Save, SaveFails, Judge,
        CompleteRow, StepFails, Finish, Ready, RecoverUndecided, RecoverCommitted, Reconciled,
        Cancel, Crash, UserAdds, UserRemoves, UserChanges, GameDeleted, world, scanVars
  <2>2. Kept
    BY <2>1 DEF LeftInv
  <2>3. CASE UNCHANGED scanVars
    <3>1. UNCHANGED <<pc, batches, planned, current, scanned, disk, catalog>>
      BY <2>3 DEF scanVars, local, stored
    <3>2. Remaining' = Remaining /\ Waiting' = Waiting
      BY <3>1 DEF Remaining, Waiting
    <3>3. CASE pc \in {"idle", "discover"}
      BY <3>1, <3>2, <3>3, KeptAway DEF ReportInv, Phases
    <3>4. CASE pc \notin {"idle", "discover"}
      <4>1. ASSUME NEW b \in current
            PROVE  Handled(b)'
        <5>1. BatchesOf(b.dir)' = BatchesOf(b.dir)
          BY <3>1, InHandNames, SameBatches DEF Indexed
        <5> QED
          BY <2>2, <3>1, <5>1 DEF Kept, Handled, OnDisk, PathsOf, Indexed
      <4> QED
        BY <2>2, <3>1, <3>2, <3>4, <4>1, KeptQuietly
    <3> QED
      BY <3>3, <3>4
  <2>4. CASE StartScan \/ Ready
    <3>1. pc = "idle" /\ (pc' = "idle" \/ pc' = "discover") /\ UNCHANGED <<batches, planned, current>>
      BY <2>4 DEF StartScan, Ready, At, Goto, local, ReportInv, Phases
    <3> QED
      BY <3>1, KeptAway DEF ReportInv, Phases, Remaining
  <2>5. CASE PlanBatch
    BY <2>2, <2>5, KeptPlanned
  <2>6. CASE Revalidate
    BY <2>1, <2>2, <2>6, KeptRevalidated
  <2>7. CASE Normalize
    BY <2>1, <2>2, <2>7, KeptNormalized
  <2>8. CASE Reserve
    BY <2>1, <2>2, <2>8, KeptReserved
  <2>9. CASE JournalPlaylist
    BY <2>2, <2>9, KeptJournaled
  <2>10. CASE WritePlaylist
    BY <2>1, <2>2, <2>10, KeptWritten
  <2>11. CASE Save
    BY <2>2, <2>11, KeptSaved
  <2>12. CASE SaveFails \/ CompleteRow
    BY <2>2, <2>12, KeptSettled
  <2>13. CASE WriteFails \/ Judge \/ Cancel \/ Crash \/ Finish \/ StepFails \/ DiscoverFails
    <3>1. Leave
      BY <2>13 DEF WriteFails, Judge, Cancel, Crash, Finish, StepFails, DiscoverFails
    <3> QED
      BY <3>1, KeptAway DEF Leave, Remaining
  <2>14. CASE \E o \in Ops : RecoverUndecided(o) \/ RecoverCommitted(o)
    <3>1. server = "recovering" /\ UNCHANGED local
      BY <2>14 DEF RecoverUndecided, RecoverCommitted, Reconciled
    <3> QED
      BY <3>1, KeptAway DEF local, ReportInv, Phases, Remaining
  <2>15. CASE \E path \in UserPaths : UserAdds(path) \/ UserRemoves(path) \/ UserChanges(path)
    BY <2>15 DEF UserAdds, UserRemoves, UserChanges
  <2>16. CASE \E game \in catalog : GameDeleted(game)
    BY <2>16 DEF GameDeleted, LeftInv
  <2> QED
    BY <1>2, <2>3, <2>4, <2>5, <2>6, <2>7, <2>8, <2>9, <2>10, <2>11, <2>12, <2>13, <2>14, <2>15, <2>16
    DEF ScanNext, Scan, Recovery
<1> QED
  BY <1>1, <1>2

LEMMA LeftInit == ScanInit => LeftInv
<1> SUFFICES ASSUME ScanInit
             PROVE  LeftInv
  OBVIOUS
<1>1. catalog = {} /\ pc = "idle" /\ Remaining = {}
  BY DEF ScanInit, Rest, Remaining
<1> QED
  BY <1>1 DEF LeftInv, Kept, Covered, StillThere, Waiting, Remaining

(* A scan that nobody disturbs imports every folder it can: what refuses a  *)
(* batch at its planning, its second look, its renaming or its reservation  *)
(* still stands when the scan ends, and no batch is lost on the way.        *)
THEOREM ScansLeaveNothingOut == ScanSpec => []NothingLeftOut
<1>1. ReportInv /\ FileInv /\ LeftInv => NothingLeftOut
  <2> SUFFICES ASSUME ReportInv, LeftInv, pc = "done", changed = {},
                      NEW dir \in Dirs, NEW x \in BatchesOf(dir)
               PROVE  Left(x)
    BY DEF NothingLeftOut, Importables, Left
  <2> QED
    BY DEF LeftInv, Kept, Covered, ReportInv, Phases
<1>2. ScanInit => LeftInv
  BY LeftInit
<1>3. ReportInv /\ FileInv /\ LeftInv /\ [ScanNext]_scanVars => LeftInv'
  BY LeftStep
<1> QED
  BY <1>1, <1>2, <1>3, FileAlways, PTL DEF ScanSpec
=============================================================================
