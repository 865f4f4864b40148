----------------------------- MODULE BucketSpec -----------------------------
(***************************************************************************)
(* What the bucketing work queue promises its users, without its inner     *)
(* queue, its locks and its two maps: items added for a key wait there     *)
(* until one worker takes all of them; while it has the key nobody else    *)
(* does; it ends with each item finished or given back.                    *)
(***************************************************************************)
CONSTANTS Keys, Items, KeyOf, Workers, NoKey

VARIABLES
  unused,     \* items nobody has added yet
  pending,    \* pending[k]: the items waiting under key k
  serving,    \* serving[t]: the key worker t has, or NoKey
  batch,      \* batch[t]: the items worker t has to deal with
  finished

specVars == <<unused, pending, serving, batch, finished>>

Init ==
  /\ unused = Items
  /\ pending = [k \in Keys |-> {}]
  /\ serving = [t \in Workers |-> NoKey]
  /\ batch = [t \in Workers |-> {}]
  /\ finished = {}

Submit(k, items) ==
  /\ \A i \in items : KeyOf[i] = k
  /\ unused' = unused \ items
  /\ pending' = [pending EXCEPT ![k] = @ \cup items]
  /\ UNCHANGED <<serving, batch, finished>>

Start(t, k) ==
  /\ serving[t] = NoKey
  /\ \A u \in Workers : serving[u] # k
  /\ serving' = [serving EXCEPT ![t] = k]
  /\ batch' = [batch EXCEPT ![t] = pending[k]]
  /\ pending' = [pending EXCEPT ![k] = {}]
  /\ UNCHANGED <<unused, finished>>

Finish(t, items) ==
  /\ batch' = [batch EXCEPT ![t] = @ \ items]
  /\ finished' = finished \cup items
  /\ UNCHANGED <<unused, pending, serving>>

GiveBack(t) ==
  /\ serving[t] # NoKey
  /\ pending' = [pending EXCEPT ![serving[t]] = @ \cup batch[t]]
  /\ batch' = [batch EXCEPT ![t] = {}]
  /\ UNCHANGED <<unused, serving, finished>>

Release(t) ==
  /\ serving[t] # NoKey
  /\ batch[t] = {}
  /\ serving' = [serving EXCEPT ![t] = NoKey]
  /\ UNCHANGED <<unused, pending, batch, finished>>

Next ==
  \/ \E k \in Keys, items \in SUBSET unused : Submit(k, items)
  \/ \E t \in Workers :
       \/ \E k \in Keys : Start(t, k)
       \/ \E items \in SUBSET batch[t] : Finish(t, items)
       \/ GiveBack(t)
       \/ Release(t)

Spec == Init /\ [][Next]_specVars
=============================================================================
