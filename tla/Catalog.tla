------------------------------ MODULE Catalog ------------------------------
(* What the library promises to its readers, without saying how: a catalog  *)
(* of paths, each showing one complete file.  While its request is open the *)
(* files of an upload appear as a whole or not at all; a path in use is     *)
(* never given another file; files of users, and what a request that ended  *)
(* without publishing left behind, can be adopted one by one.               *)
CONSTANTS
    Paths,      \* relative paths inside the library root
    Uploads,    \* upload requests
    Foreign,    \* files that Teatro did not write
    Bundle,     \* Bundle[u]: the set of files upload u brings
    NoFile

VARIABLES
    catalog,    \* catalog[p]: the file that readers get at p, or NoFile
    open        \* the uploads that may still be published

Files == Foreign \cup UNION {Bundle[u] : u \in Uploads}

TypeOK == catalog \in [Paths -> Files \cup {NoFile}] /\ open \subseteq Uploads

Init == catalog = [p \in Paths |-> NoFile] /\ open = Uploads

(* All files of u appear in one step, each at a path of its own that nothing *)
(* occupied.                                                                 *)
Publish(u) ==
    /\ u \in open /\ open' = open \ {u}
    /\ \E place \in [Bundle[u] -> Paths] :
         /\ \A f, g \in Bundle[u] : place[f] = place[g] => f = g
         /\ \A f \in Bundle[u] : catalog[place[f]] = NoFile
         /\ catalog' = [p \in Paths |->
              IF \E f \in Bundle[u] : place[f] = p
                THEN CHOOSE f \in Bundle[u] : place[f] = p
                ELSE catalog[p]]

(* Requests end without publishing: refused, failed, dropped or crashed. *)
Close == open' \subseteq open /\ UNCHANGED catalog

Adopt(p) ==
    /\ catalog[p] = NoFile
    /\ \E f \in Files \ UNION {Bundle[u] : u \in open} :
         catalog' = [catalog EXCEPT ![p] = f]
    /\ UNCHANGED open

Withdraw(p) ==
    /\ catalog[p] # NoFile
    /\ catalog' = [catalog EXCEPT ![p] = NoFile]
    /\ UNCHANGED open

Next == \/ Close \/ \E u \in Uploads : Publish(u)
        \/ \E p \in Paths : Adopt(p) \/ Withdraw(p)

Spec == Init /\ [][Next]_<<catalog, open>>
=============================================================================
