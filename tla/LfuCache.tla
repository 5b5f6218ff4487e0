------------------------------ MODULE LfuCache -------------------------------
(***************************************************************************)
(* KLfuCache of include/memory/LFU.h, the cache of chat answers.           *)
(*                                                                         *)
(* put and get hold the mutex from beginning to end, so each is one step;  *)
(* what is hard is the bookkeeping: a list per frequency, the least        *)
(* frequency in use, and the ageing that lowers every frequency when the   *)
(* average is too high.  A list that was never created and an empty one    *)
(* are the same here.  Ageing visits nodeMap_, an unordered_map, in some   *)
(* order, and that order decides who is first in the new lists.            *)
(***************************************************************************)
EXTENDS Integers, Sequences, FiniteSets, FiniteSetsExt, SequencesExt

CONSTANTS Keys, Values,
          Absent,          \* "not in nodeMap_"
          Capacity,        \* capacity_
          MaxAverage,      \* maxAverageNum_
          Int8Max,         \* INT8_MAX
          MaxAccesses      \* bound: curTotalNum_

ASSUME CacheAssumption == /\ IsFiniteSet(Keys)
                          /\ Absent \notin Values
                          /\ Capacity \in Nat \ {0}
                          /\ MaxAccesses \in Nat

\* The only cache is made with maxAverageNum at its default of 10, and INT8_MAX
\* is 127: ageing lowers the frequencies, and the least of them, which is at
\* most one above the average, ends below updateMinFreq's sentinel.
ASSUME AgeingAssumption == /\ MaxAverage \in Nat \ {0, 1}
                           /\ Int8Max \in Nat
                           /\ MaxAverage + 1 - MaxAverage \div 2 < Int8Max

VARIABLES value,      \* nodeMap_: the value of each key, or Absent
          freq,       \* Node::freq, 0 for a key that is not cached
          lists,      \* freqToFreqList_: the keys of each frequency, oldest first
          minFreq,    \* minFreq_
          total,      \* curTotalNum_
          average     \* curAverageNum_

cacheVars == <<value, freq, lists, minFreq, total, average>>

Freqs == 1..(MaxAccesses + 1)

CacheInit == /\ value = [k \in Keys |-> Absent]
             /\ freq = [k \in Keys |-> 0]
             /\ lists = [f \in Freqs |-> <<>>]
             /\ minFreq = Int8Max
             /\ total = 0
             /\ average = 0

Cached == {k \in Keys : value[k] # Absent}

-----------------------------------------------------------------------------
\* removeNode: k's node is unlinked from its list.
Without(seq, k) == RemoveAt(seq, CHOOSE i \in DOMAIN seq : seq[i] = k)

\* handleOverMaxAverageNum: every frequency drops by half the maximum, to 1 at
\* the least; the keys enter their new lists in the order of the visit, which
\* may be any.
Aged(f) == [k \in Keys |-> IF f[k] = 0 THEN 0 ELSE Max({f[k] - MaxAverage \div 2, 1})]

Orders(f, g) == SetToSeqs({k \in Keys : f[k] = g})

\* updateMinFreq, with its sentinel.
UpdateMinFreq(ls) ==
    LET least == Min({Int8Max} \cup {f \in Freqs : ls[f] # <<>>})
    IN  IF least = Int8Max THEN 1 ELSE least

\* addFreqNum with the frequencies and lists its caller leaves and the number
\* of cached keys: count the access, and age if the average got too high.
AddFreqNum(f, ls, count, n) ==
    /\ total' = count + 1
    /\ average' = (count + 1) \div n
    /\ IF average' > MaxAverage
       THEN LET a == Aged(f)
                used == {a[k] : k \in {x \in Keys : f[x] > 0}}
            IN  /\ freq' = a
                /\ \E order \in [used -> UNION {Orders(a, g) : g \in used}] :
                      /\ \A g \in used : order[g] \in Orders(a, g)
                      /\ lists' = [g \in Freqs |-> IF g \in used THEN order[g] ELSE <<>>]
       ELSE freq' = f /\ lists' = ls

\* minFreq_ after addFreqNum when it was m before.
MinAfterCount(m) == IF average' > MaxAverage THEN UpdateMinFreq(lists') ELSE m

-----------------------------------------------------------------------------
(* getInternal: the key moves to the next frequency's list.                 *)

Mut_MinAfterHit(k, ls) == minFreq

MinAfterHit(k, ls) ==
    IF freq[k] = minFreq /\ ls[freq[k]] = <<>> THEN minFreq + 1 ELSE minFreq

GetInternal(k) ==
    LET f == freq[k]
        ls == [lists EXCEPT ![f] = Without(@, k), ![f + 1] = Append(@, k)]
    IN  /\ AddFreqNum([freq EXCEPT ![k] = f + 1], ls, total, Cardinality(Cached))
        /\ minFreq' = MinAfterCount(MinAfterHit(k, ls))

Get(k) ==
    /\ total < MaxAccesses
    /\ k \in Cached
    /\ GetInternal(k)
    /\ UNCHANGED value

PutCached(k, v) ==
    /\ total < MaxAccesses
    /\ k \in Cached
    /\ value' = [value EXCEPT ![k] = v]
    /\ GetInternal(k)

-----------------------------------------------------------------------------
(* putInternal: make room, then enter the key with frequency 1.             *)

\* kickOut takes the first node of the least frequency's list; from an empty
\* list it takes the sentinel, whose frequency is 1 and whose key is cached
\* nowhere.
Mut_Victims == IF minFreq \in Freqs /\ lists[minFreq] # <<>>
               THEN {Last(lists[minFreq])} ELSE {}

Victims == IF minFreq \in Freqs /\ lists[minFreq] # <<>>
           THEN {Head(lists[minFreq])} ELSE {}

LeastAfterPut(m) == IF m < 1 THEN m ELSE 1

\* The list of the node that goes, if one does, is without it.
Unlinked(out) == [g \in Freqs |-> IF \E e \in out : freq[e] = g
                                  THEN Without(lists[g], CHOOSE e \in out : TRUE)
                                  ELSE lists[g]]

\* Enter k after the keys in out have left and count was taken off the total.
Enter(k, v, out, count) ==
    LET kept == Cached \ out
        ls == Unlinked(out)
        f == [x \in Keys |-> IF x \in kept THEN freq[x] ELSE 0]
    IN  /\ value' = [x \in Keys |-> IF x = k THEN v
                                    ELSE IF x \in kept THEN value[x] ELSE Absent]
        /\ AddFreqNum([f EXCEPT ![k] = 1], [ls EXCEPT ![1] = Append(@, k)],
                      total - count, Cardinality(kept) + 1)
        /\ minFreq' = LeastAfterPut(MinAfterCount(minFreq))

Full == Cardinality(Cached) = Capacity

PutNew(k, v) ==
    /\ total < MaxAccesses
    /\ k \notin Cached
    /\ ~Full
    /\ Enter(k, v, {}, 0)

PutEvicting(k, v) ==
    /\ total < MaxAccesses
    /\ k \notin Cached
    /\ Full
    /\ Enter(k, v, Victims, IF Victims = {} THEN 1 ELSE minFreq)

CacheNext == \E k \in Keys : \/ Get(k)
                             \/ \E v \in Values : \/ PutCached(k, v)
                                                  \/ PutNew(k, v)
                                                  \/ PutEvicting(k, v)

CacheSpec == CacheInit /\ [][CacheNext]_cacheVars

-----------------------------------------------------------------------------
CacheTypeOK ==
    /\ value \in [Keys -> Values \cup {Absent}]
    /\ freq \in [Keys -> Nat]
    /\ lists \in [Freqs -> Seq(Keys)]
    /\ minFreq \in Nat \ {0}
    /\ total \in Int
    /\ average \in Int

\* A key leaves only if no other was used less, and of those used as little
\* only the one that has had its frequency longest.
EvictsLeastUsed ==
    [][\A k \in Cached \ Cached' :
          /\ \A x \in Cached : freq[k] <= freq[x]
          /\ k = Head(lists[freq[k]])]_cacheVars

\* The cache keeps CachePromise.
Promise == INSTANCE CachePromise WITH store <- value
RefinesCachePromise == Promise!Spec
=============================================================================
