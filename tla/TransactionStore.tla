-------------------------- MODULE TransactionStore --------------------------
(***************************************************************************)
(* What an Editor and its ChangeSets promise to their callers, without the *)
(* overlays that implement it: a store that transactions change atomically,*)
(* each transaction finishing at most once.                                *)
(*                                                                         *)
(* The promise is deliberately weak where the program is: there is no      *)
(* conflict detection, so a commit may replace what another commit wrote.  *)
(***************************************************************************)
CONSTANTS
  Key,      \* what the store maps: file paths
  Txn,      \* transactions: change sets
  Value,    \* what a key may hold, the marker for "nothing" included
  Unset     \* marks a key a transaction has not written

VARIABLES
  store,      \* store[k]: what every reader outside a transaction sees
  status,     \* status[t]: how far transaction t has got
  writes,     \* writes[t][k]: the value t would publish, or Unset
  published   \* the keys some commit has written

vars == <<store, status, writes, published>>

NoWrites == [k \in Key |-> Unset]

TypeOK ==
  /\ store \in [Key -> Value]
  /\ status \in [Txn -> {"new", "open", "committed", "discarded"}]
  /\ writes \in [Txn -> [Key -> Value \cup {Unset}]]
  /\ published \subseteq Key

Init ==
  /\ store \in [Key -> Value]
  /\ status = [t \in Txn |-> "new"]
  /\ writes = [t \in Txn |-> NoWrites]
  /\ published = {}

Begin(t) ==
  /\ status[t] = "new"
  /\ status' = [status EXCEPT ![t] = "open"]
  /\ UNCHANGED <<store, writes, published>>

(* A transaction prepares a value for a key; nobody else sees it.          *)
Stage(t, k) ==
  /\ status[t] = "open"
  /\ \E v \in Value \ {Unset} : writes' = [writes EXCEPT ![t][k] = v]
  /\ UNCHANGED <<store, status, published>>

(* Everything staged becomes visible in one step, and nothing else changes.*)
Commit(t) ==
  /\ status[t] = "open"
  /\ status' = [status EXCEPT ![t] = "committed"]
  /\ store' = [k \in Key |->
                 IF writes[t][k] # Unset THEN writes[t][k] ELSE store[k]]
  /\ published' = published \cup {k \in Key : writes[t][k] # Unset}
  /\ writes' = [writes EXCEPT ![t] = NoWrites]

Discard(t) ==
  /\ status[t] = "open"
  /\ status' = [status EXCEPT ![t] = "discarded"]
  /\ writes' = [writes EXCEPT ![t] = NoWrites]
  /\ UNCHANGED <<store, published>>

(* The world under the store moves, but never under a published key.       *)
Outside(k) ==
  /\ k \notin published
  /\ \E v \in Value : store' = [store EXCEPT ![k] = v]
  /\ UNCHANGED <<status, writes, published>>

Next ==
  \/ \E t \in Txn : Begin(t) \/ Commit(t) \/ Discard(t)
  \/ \E t \in Txn, k \in Key : Stage(t, k)
  \/ \E k \in Key : Outside(k)

Spec == Init /\ [][Next]_vars
=============================================================================
