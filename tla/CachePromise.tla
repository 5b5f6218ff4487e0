---------------------------- MODULE CachePromise -----------------------------
(***************************************************************************)
(* What the chat path expects of its cache: the value a key was last given *)
(* or nothing, at most Capacity keys, and a key is given up only to make   *)
(* room for another.  Reading is a stuttering step.                        *)
(***************************************************************************)
EXTENDS Naturals, FiniteSets

CONSTANTS Keys, Values, Absent, Capacity

VARIABLE store     \* the value of each key, or Absent

Stored == {k \in Keys : store[k] # Absent}

Init == store = [k \in Keys |-> Absent]

Update(k, v) ==
    /\ store[k] # Absent
    /\ store' = [store EXCEPT ![k] = v]

Insert(k, v) ==
    /\ store[k] = Absent
    /\ Cardinality(Stored) < Capacity
    /\ store' = [store EXCEPT ![k] = v]

Replace(k, v) ==
    /\ store[k] = Absent
    /\ Cardinality(Stored) = Capacity
    /\ \E e \in Stored : store' = [store EXCEPT ![k] = v, ![e] = Absent]

Next == \E k \in Keys, v \in Values : Update(k, v) \/ Insert(k, v) \/ Replace(k, v)

Spec == Init /\ [][Next]_store
=============================================================================
