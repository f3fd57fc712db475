------------------------ MODULE BackgroundTransfers ------------------------
(* Replay protection of batch uploads and pre-admission GOG transfers: a    *)
(* request claims its key, the owner of the key runs the handler, and what  *)
(* became of it is kept for the requests that repeat the key.  A key is     *)
(* cancelled while its owner runs, clients disconnect, and terminal entries *)
(* are evicted.                                                             *)
EXTENDS Naturals, FiniteSets

CONSTANTS
    Keys,          \* TransferKey: user, method, endpoint and id
    Requests,      \* requests that carry a transfer id
    TerminalCapacity,      \* TERMINAL_CAPACITY
    NoKey,         \* of a request that was not sent yet
    NoRequest      \* the owner of a key that was never claimed

ASSUME TransfersAssumption ==
    TerminalCapacity \in Nat /\ NoKey \notin Keys /\ NoRequest \notin Requests

VARIABLES
    entry,      \* entry[k]: the registry's entry of k, or "none"
    owner,      \* owner[k]: whose token (or answer) the entry of k carries
    key,        \* key[r]: of request r
    at,         \* at[r]: where request r is
    signals,    \* the owners whose key is marked cancelled and whose token is not yet
    fired,      \* the owners whose token is cancelled
    evicted,    \* ghost: the keys whose terminal entry was evicted
    worked      \* ghost: the requests whose handler succeeded

transferVars == <<entry, owner, key, at, signals, fired, evicted, worked>>

EntryStates == {"none", "running", "complete", "cancelled"}
Live == {"running", "answered"}
Answers == {"succeeded", "failed", "stopped", "in_progress", "replayed", "refused", "lost"}

(* The entries and the requests are in one of their states, and only a      *)
(* request that claimed a key is anywhere.                                  *)
TransfersTypeOK ==
    /\ entry \in [Keys -> EntryStates]
    /\ owner \in [Keys -> Requests \cup {NoRequest}]
    /\ key \in [Requests -> Keys \cup {NoKey}]
    /\ at \in [Requests -> {"new"} \cup Live \cup Answers]
    /\ signals \subseteq Requests /\ fired \subseteq Requests
    /\ evicted \subseteq Keys /\ worked \subseteq Requests
    /\ \A r \in Requests : at[r] # "new" => key[r] \in Keys

TransfersInit ==
    /\ entry = [k \in Keys |-> "none"]
    /\ owner = [k \in Keys |-> NoRequest]
    /\ key = [r \in Requests |-> NoKey]
    /\ at = [r \in Requests |-> "new"]
    /\ signals = {} /\ fired = {} /\ evicted = {} /\ worked = {}

-----------------------------------------------------------------------------
(* The registry: each operation is one critical section *)

TerminalIn(entries) == {k \in Keys : entries[k] \in {"complete", "cancelled"}}

(* prune: an entry goes when its hour is over, and the oldest go beyond the *)
(* capacity.  The times are those of a wall clock that can be set, so any   *)
(* terminal entry may be the oldest and any may be past its hour.           *)
Prunable(entries, gone) ==
    /\ gone \subseteq TerminalIn(entries)
    /\ Cardinality(TerminalIn(entries) \ gone) <= TerminalCapacity

Without(entries, gone) == [k \in Keys |-> IF k \in gone THEN "none" ELSE entries[k]]

(* claim by request r, when the entries gone were pruned.                   *)
Free(state) == state = "none"

Answer(state) == CASE state = "running" -> "in_progress"
                   [] state = "complete" -> "replayed"
                   [] state = "cancelled" -> "refused"

Claim(r, k) ==
    /\ at[r] = "new"
    /\ key' = [key EXCEPT ![r] = k]
    /\ \E gone \in SUBSET Keys :
         /\ Prunable(entry, gone)
         /\ evicted' = evicted \cup gone
         /\ LET kept == Without(entry, gone) IN
            IF Free(kept[k])
              THEN /\ entry' = [kept EXCEPT ![k] = "running"]
                   /\ owner' = [owner EXCEPT ![k] = r]
                   /\ at' = [at EXCEPT ![r] = "running"]
              ELSE /\ entry' = kept
                   /\ at' = [at EXCEPT ![r] = Answer(kept[k])]
                   /\ UNCHANGED owner
    /\ UNCHANGED <<signals, fired, worked>>

(* release, by the Drop of a lease that was not completed: it removes a     *)
(* running entry of the key, whoever's it is.                               *)
MutReleaseAny(state) == state # "none"
MutLeaseLeaks(state) == FALSE
Releasable(state) == state = "running"

Release(k) == entry' = [entry EXCEPT ![k] = IF Releasable(@) THEN "none" ELSE @]

(* complete: only a running entry of the key takes the answer.              *)
MutCompleteAny(state) == TRUE
Completable(state) == state = "running"

CompleteEntry(r) ==
    LET k == key[r] IN
    IF Completable(entry[k])
      THEN LET done == [entry EXCEPT ![k] = "complete"] IN
           /\ owner' = [owner EXCEPT ![k] = r]
           /\ \E gone \in SUBSET Keys :
                /\ Prunable(done, gone)
                /\ entry' = Without(done, gone)
                /\ evicted' = evicted \cup gone
      ELSE UNCHANGED <<entry, owner, evicted>>

(* cancel: an entry that runs is marked; its token is cancelled after the   *)
(* lock is released.                                                        *)
Cancellable(state) == state = "running"

CancelKey(k) ==
    /\ \E gone \in SUBSET Keys :
         /\ Prunable(entry, gone)
         /\ evicted' = evicted \cup gone
         /\ LET kept == Without(entry, gone) IN
            IF Cancellable(kept[k])
              THEN /\ entry' = [kept EXCEPT ![k] = "cancelled"]
                   /\ signals' = signals \cup {owner[k]}
              ELSE entry' = kept /\ UNCHANGED signals
    /\ UNCHANGED <<owner, key, at, fired, worked>>

MutSignalLost(r) ==
    /\ r \in signals
    /\ signals' = signals \ {r}
    /\ UNCHANGED <<entry, owner, key, at, fired, evicted, worked>>
Signal(r) ==
    /\ r \in signals
    /\ signals' = signals \ {r}
    /\ fired' = fired \cup {r}
    /\ UNCHANGED <<entry, owner, key, at, evicted, worked>>

-----------------------------------------------------------------------------
(* The owner of a key *)

(* The handler answers with success, also when the token is cancelled at    *)
(* the same time: select takes either branch.                               *)
Succeed(r) ==
    /\ at[r] = "running"
    /\ at' = [at EXCEPT ![r] = "answered"]
    /\ worked' = worked \cup {r}
    /\ UNCHANGED <<entry, owner, key, signals, fired, evicted>>

(* The answer has been read and is kept for the requests that repeat it.    *)
Complete(r) ==
    /\ at[r] = "answered"
    /\ CompleteEntry(r)
    /\ at' = [at EXCEPT ![r] = "succeeded"]
    /\ UNCHANGED <<key, signals, fired, worked>>

(* The owner leaves without an answer to keep: the handler or the reading   *)
(* of its answer failed, the token was cancelled, the client disconnected.  *)
(* Its key is free again, also when the handler had succeeded.              *)
DropLease(r, as) ==
    /\ Release(key[r])
    /\ at' = [at EXCEPT ![r] = as]
    /\ UNCHANGED <<owner, key, signals, fired, evicted, worked>>

LeaseFails(r) == at[r] \in Live /\ DropLease(r, "failed")
StopOwner(r) == at[r] = "running" /\ r \in fired /\ DropLease(r, "stopped")
Disconnect(r) == at[r] \in Live /\ DropLease(r, "lost")

-----------------------------------------------------------------------------
Serve(r) == Signal(r) \/ StopOwner(r) \/ Complete(r)

TransfersNext ==
    \/ \E k \in Keys : CancelKey(k)
    \/ \E r \in Requests :
         \/ \E k \in Keys : Claim(r, k)
         \/ Serve(r) \/ Succeed(r) \/ LeaseFails(r) \/ Disconnect(r)

TransfersSpec == TransfersInit /\ [][TransfersNext]_transferVars

(* A cancelled token is noticed and an answer is read; a handler may run    *)
(* for ever.                                                                *)
FairTransfers ==
    /\ TransfersSpec
    /\ \A r \in Requests :
         /\ WF_transferVars(Signal(r)) /\ WF_transferVars(StopOwner(r))
         /\ WF_transferVars(Complete(r))

-----------------------------------------------------------------------------
(* Properties *)

Owners(k) == {r \in Requests : key[r] = k /\ at[r] \in Live}
Winners(k) == {r \in Requests : key[r] = k /\ at[r] = "succeeded"}

Workers(k) == {r \in worked : key[r] = k}

(* The request did its work and then left before its answer was kept.       *)
AnswerLost(r) == r \in worked /\ at[r] \in {"failed", "lost"}

(* A repeated request does the work of its key again, or begins to, only    *)
(* after every request that did it before was disconnected, or failed to    *)
(* read its answer, between the success of its handler and the moment the   *)
(* answer was kept: until the entry is evicted, whatever cancels, repeats   *)
(* and disconnects come between (docs/api.md:278).                          *)
WorkRepeatsOnlyIfLost ==
    \A k \in Keys \ evicted : \A r \in Workers(k), q \in Workers(k) \cup Owners(k) :
        r = q \/ AnswerLost(r) \/ AnswerLost(q)

Agrees(k) ==
    /\ entry[k] = "none" => Owners(k) = {} /\ Winners(k) = {}
    /\ entry[k] = "running" => Owners(k) = {owner[k]} /\ Winners(k) = {}
    /\ entry[k] = "complete" => Owners(k) = {} /\ Winners(k) = {owner[k]}
    /\ entry[k] = "cancelled" => Owners(k) \cup Winners(k) \subseteq {owner[k]}

(* The entry of a key that was never evicted tells what became of it: it is *)
(* free exactly when no owner runs (a failed request may be repeated, a     *)
(* running one is never taken for free), and a repeated request is answered *)
(* with the answer of the one that succeeded.                               *)
EntryTellsTheOwner == \A k \in Keys \ evicted : Agrees(k)

(* The outcome of a key is final until it is evicted, whichever of the      *)
(* cancellation, the answer and the drop of the lease comes last.           *)
OutcomeIsFinal ==
    [][\A k \in Keys :
          entry[k] \in {"complete", "cancelled"} =>
              \/ entry'[k] = entry[k] /\ owner'[k] = owner[k]
              \/ k \in evicted']_transferVars

(* An owner whose key was cancelled does not run on.                        *)
CancelStopsTheOwner ==
    \A k \in Keys, r \in Requests :
        (entry[k] = "cancelled" /\ owner[k] = r) ~> at[r] \notin Live
=============================================================================
