--------------------------- MODULE Workers_proofs ---------------------------
(***************************************************************************)
(* The workers: the pool that runs their tasks, the cache of answers they  *)
(* share, and the calls they make to the services behind the gateway.      *)
(*                                                                         *)
(* The pool: tasks are taken in order, none waits beside a sleeping        *)
(* worker, and a stopped pool is a drained one, for any number of workers, *)
(* submitters and tasks.                                                   *)
(*                                                                         *)
(* The cache: it evicts what was used least, and keeps CachePromise, for   *)
(* any capacity, keys and course of accesses.                              *)
(*                                                                         *)
(* The calls: however the network cuts a stream, the client is shown what  *)
(* upstream said, for any number of requests, lines and bytes.             *)
(***************************************************************************)
EXTENDS TaskExecutor, LfuCache, Upstream,
        FiniteSetTheorems, SequenceTheorems, WellFoundedInduction, TLAPS

-----------------------------------------------------------------------------
(* The pool                                                                 *)

WorkerPCs == {"testing", "waiting", "busy", "exited"}

-----------------------------------------------------------------------------
(* The pool: who is where                                                  *)

Testers == Cardinality(Are("testing"))
Notifiers == Cardinality(Notifying)

LEMMA CountsAreNat == /\ IsFiniteSet(Are("testing")) /\ Testers \in Nat
                      /\ IsFiniteSet(Notifying) /\ Notifiers \in Nat
<1>1. Are("testing") \in SUBSET Workers /\ Notifying \in SUBSET Submitters
  BY DEF Are, Notifying
<1>2. IsFiniteSet(Are("testing")) /\ IsFiniteSet(Notifying)
  BY <1>1, FS_Subset, PoolAssumption
<1> QED BY <1>2, FS_CardinalityType DEF Testers, Notifiers

\* One worker goes to another place.
LEMMA WorkerMoves ==
    ASSUME TypeOK, NEW w \in Workers, NEW at \in WorkerPCs,
           worker' = [worker EXCEPT ![w] = at]
    PROVE  /\ worker' \in [Workers -> WorkerPCs]
           /\ \A q \in WorkerPCs : Are(q)' = IF q = at THEN Are(q) \cup {w}
                                             ELSE Are(q) \ {w}
<1>1. worker \in [Workers -> WorkerPCs]
  BY DEF TypeOK, WorkerPCs
<1>2. \A v \in Workers : worker'[v] = IF v = w THEN at ELSE worker[v]
  BY <1>1
<1>3. worker' \in [Workers -> WorkerPCs]
  BY <1>1
<1> QED BY <1>2, <1>3 DEF Are

\* How many test the queue then.
LEMMA TestersMove ==
    ASSUME TypeOK, NEW w \in Workers, NEW at \in WorkerPCs,
           worker' = [worker EXCEPT ![w] = at]
    PROVE  Testers' = IF at = "testing"
                      THEN IF worker[w] = "testing" THEN Testers ELSE Testers + 1
                      ELSE IF worker[w] = "testing" THEN Testers - 1 ELSE Testers
<1>1. IsFiniteSet(Are("testing"))
  BY CountsAreNat
<1>2. w \in Are("testing") <=> worker[w] = "testing"
  BY DEF Are
<1>3. CASE at = "testing"
  <2>1. Are("testing")' = Are("testing") \cup {w}
    BY <1>3, WorkerMoves DEF WorkerPCs
  <2> QED BY <1>1, <1>2, <1>3, <2>1, FS_AddElement DEF Testers
<1>4. CASE at # "testing"
  <2>1. Are("testing")' = Are("testing") \ {w}
    BY <1>4, WorkerMoves DEF WorkerPCs
  <2> QED BY <1>1, <1>2, <1>4, <2>1, FS_RemoveElement DEF Testers
<1> QED BY <1>3, <1>4

LEMMA SubmitterMoves ==
    ASSUME TypeOK, NEW s \in Submitters, NEW at \in {"idle", "notifying"},
           submitter' = [submitter EXCEPT ![s] = at], submitter[s] # at
    PROVE  /\ submitter' \in [Submitters -> {"idle", "notifying"}]
           /\ Notifiers' = IF at = "notifying" THEN Notifiers + 1 ELSE Notifiers - 1
<1>1. submitter \in [Submitters -> {"idle", "notifying"}]
  BY DEF TypeOK
<1>2. \A o \in Submitters : submitter'[o] = IF o = s THEN at ELSE submitter[o]
  BY <1>1
<1>3. submitter' \in [Submitters -> {"idle", "notifying"}]
  BY <1>1
<1>4. IsFiniteSet(Notifying)
  BY CountsAreNat
<1>5. CASE at = "notifying"
  <2>1. Notifying' = Notifying \cup {s} /\ s \notin Notifying
    BY <1>2, <1>5 DEF Notifying
  <2> QED BY <1>3, <1>4, <1>5, <2>1, FS_AddElement DEF Notifiers
<1>6. CASE at = "idle"
  <2>1. Notifying' = Notifying \ {s} /\ s \in Notifying
    BY <1>1, <1>2, <1>6 DEF Notifying
  <2> QED BY <1>3, <1>4, <1>6, <2>1, FS_RemoveElement DEF Notifiers
<1> QED BY <1>5, <1>6

\* The queue and who works on it are as many for each task as before.
LEMMA StaysConserving ==
    ASSUME WorkConserving, Are("waiting")' # {} => Are("waiting") # {},
           tasks \in Seq(Nat), Len(tasks') \in Nat, Testers' \in Nat, Notifiers' \in Nat,
           Len(tasks') + Testers + Notifiers <= Len(tasks) + Testers' + Notifiers',
           stopPc = "notifying" => stopPc' = "notifying"
    PROVE  WorkConserving'
<1>1. Testers \in Nat /\ Notifiers \in Nat /\ Len(tasks) \in Nat
  BY CountsAreNat
<1>2. SUFFICES ASSUME Are("waiting") # {}, stopPc # "notifying"
               PROVE  Len(tasks') <= Testers' + Notifiers'
  BY DEF WorkConserving, Testers, Notifiers
<1>3. Len(tasks) <= Testers + Notifiers
  BY <1>2 DEF WorkConserving, Testers, Notifiers
<1> QED BY <1>1, <1>3, SMTT(30)

-----------------------------------------------------------------------------
(* The pool: the steps                                                     *)

LEMMA SubmitStep ==
    ASSUME IInv, NEW s \in Submitters, Submit(s)
    PROVE  IInv'
<1> USE DEF Submit, IInv
<1>1. tasks \in Seq(Nat) /\ submitted \in Nat /\ taken \in Nat
  BY DEF TypeOK
<1>2. /\ tasks' \in Seq(Nat) /\ Len(tasks') = Len(tasks) + 1
      /\ \A i \in 1..Len(tasks) : tasks'[i] = tasks[i]
      /\ tasks'[Len(tasks) + 1] = submitted + 1
  BY <1>1
<1>3. Notifiers' = Notifiers + 1 /\ submitter' \in [Submitters -> {"idle", "notifying"}]
  BY SubmitterMoves
<1>4. TypeOK'
  BY <1>2, <1>3 DEF TypeOK
<1>5. TasksInOrder'
  <2>1. Len(tasks) \in Nat /\ submitted = taken + Len(tasks)
    BY <1>1 DEF TasksInOrder
  <2>2. \A i \in 1..Len(tasks) : tasks[i] = taken + i
    BY DEF TasksInOrder
  <2>3. \A i \in 1..(Len(tasks) + 1) : tasks'[i] = taken + i
    <3> SUFFICES ASSUME NEW i \in 1..(Len(tasks) + 1)
                 PROVE  tasks'[i] = taken + i
      OBVIOUS
    <3>1. CASE i \in 1..Len(tasks)
      BY <1>2, <2>2, <3>1
    <3>2. CASE i = Len(tasks) + 1
      BY <1>1, <1>2, <2>1, <3>2
    <3> QED BY <2>1, <3>1, <3>2
  <2> QED BY <1>1, <1>2, <2>1, <2>3 DEF TasksInOrder
<1>6. WorkConserving'
  <2>1. Testers' = Testers /\ Are("waiting")' = Are("waiting")
    BY DEF Testers, Are
  <2> QED BY <1>1, <1>2, <1>3, <2>1, CountsAreNat, StaysConserving
<1> QED BY <1>4, <1>5, <1>6

LEMMA NotifyStep ==
    ASSUME IInv, NEW s \in Submitters, Notify(s)
    PROVE  IInv'
<1> USE DEF IInv
<1>1. /\ Notifiers' = Notifiers - 1 /\ Notifiers' \in Nat
      /\ submitter' \in [Submitters -> {"idle", "notifying"}]
  <2>1. Notifiers' = Notifiers - 1 /\ submitter' \in [Submitters -> {"idle", "notifying"}]
    BY SubmitterMoves DEF Notify
  <2>2. s \in Notifying
    BY DEF Notify, Notifying
  <2>3. Notifiers # 0
    BY <2>2, CountsAreNat, FS_EmptySet DEF Notifiers
  <2> QED BY <2>1, <2>3, CountsAreNat
<1>2. TasksInOrder' /\ tasks' = tasks /\ stopPc' = stopPc
  BY DEF Notify, TasksInOrder
<1>3. CASE Are("waiting") = {} /\ UNCHANGED worker
  <2>1. Are("waiting")' = {}
    BY <1>3 DEF Are
  <2>2. TypeOK'
    BY <1>1, <1>3 DEF TypeOK, Notify
  <2> QED BY <1>2, <2>1, <2>2 DEF WorkConserving
<1>4. CASE \E w \in Are("waiting") : worker' = [worker EXCEPT ![w] = "testing"]
  <2>1. PICK w \in Workers : /\ worker[w] = "waiting"
                             /\ worker' = [worker EXCEPT ![w] = "testing"]
    BY <1>4 DEF Are
  <2>2. Testers' = Testers + 1
    BY <2>1, TestersMove DEF WorkerPCs
  <2>3. /\ worker' \in [Workers -> WorkerPCs]
        /\ Are("waiting")' = Are("waiting") \ {w}
    BY <2>1, WorkerMoves DEF WorkerPCs
  <2>4. TypeOK'
    BY <1>1, <2>3 DEF TypeOK, Notify, WorkerPCs
  <2>5. WorkConserving'
    BY <1>1, <1>2, <2>2, <2>3, CountsAreNat, StaysConserving DEF TypeOK
  <2> QED BY <1>2, <2>4, <2>5
<1> QED BY <1>3, <1>4 DEF Notify

\* A worker goes on, and there is no more to do than before for those that test.
LEMMA WorkerGoesOn ==
    ASSUME IInv, NEW w \in Workers, NEW at \in WorkerPCs,
           worker' = [worker EXCEPT ![w] = at],
           UNCHANGED <<running, tasks, submitter, stopPc, submitted, taken, atStop>>,
           \/ at = "testing"
           \/ tasks = <<>>
    PROVE  IInv'
<1> USE DEF IInv
<1>1. worker' \in [Workers -> WorkerPCs]
  BY WorkerMoves
<1>2. TypeOK' /\ TasksInOrder'
  BY <1>1 DEF TypeOK, WorkerPCs, TasksInOrder
<1>3. Notifiers' = Notifiers /\ Testers' \in Nat
  <2>1. Notifiers' = Notifiers
    BY DEF Notifiers, Notifying
  <2>2. Are("testing")' \in SUBSET Workers
    BY <1>2 DEF Are
  <2> QED BY <2>1, <2>2, FS_Subset, FS_CardinalityType, PoolAssumption DEF Testers
<1>4. CASE tasks = <<>>
  BY <1>2, <1>3, <1>4, CountsAreNat DEF WorkConserving, Testers, Notifiers
<1>5. CASE at = "testing"
  <2>1. Are("waiting")' = Are("waiting") \ {w}
    BY <1>5, WorkerMoves DEF WorkerPCs
  <2>2. Testers' >= Testers
    <3>1. Testers' = IF worker[w] = "testing" THEN Testers ELSE Testers + 1
      BY <1>5, TestersMove
    <3> QED BY <3>1, CountsAreNat
  <2>3. WorkConserving'
    BY <1>3, <2>1, <2>2, CountsAreNat, StaysConserving DEF TypeOK
  <2> QED BY <1>2, <2>3
<1> QED BY <1>4, <1>5

\* The task at the head of the queue is the next ticket.
LEMMA TakeStep ==
    ASSUME IInv, NEW w \in Workers, Take(w)
    PROVE  IInv'
<1> USE DEF Take, IInv
<1>1. tasks \in Seq(Nat) /\ tasks # <<>> /\ taken \in Nat
  BY DEF TypeOK
<1>2. /\ tasks' \in Seq(Nat) /\ Len(tasks') = Len(tasks) - 1 /\ Len(tasks') \in Nat
      /\ \A i \in 1..Len(tasks') : tasks'[i] = tasks[i + 1]
  BY <1>1
<1>3. worker' \in [Workers -> WorkerPCs] /\ Are("waiting")' = Are("waiting") \ {w}
  BY WorkerMoves DEF WorkerPCs
<1>4. TypeOK'
  BY <1>2, <1>3 DEF TypeOK, WorkerPCs
<1>5. TasksInOrder'
  BY <1>1, <1>2 DEF TasksInOrder
<1>6. Testers' = Testers - 1 /\ Testers' \in Nat
  <2>1. Testers' = Testers - 1
    BY TestersMove DEF WorkerPCs
  <2>2. Testers # 0
    <3>1. w \in Are("testing")
      BY DEF Are
    <3> QED BY <3>1, CountsAreNat, FS_EmptySet DEF Testers
  <2> QED BY <2>1, <2>2, CountsAreNat
<1>7. Notifiers' = Notifiers
  BY DEF Notifiers, Notifying
<1>8. WorkConserving'
  BY <1>1, <1>2, <1>3, <1>6, <1>7, CountsAreNat, StaysConserving
<1> QED BY <1>4, <1>5, <1>8

LEMMA StopClearsStep ==
    ASSUME IInv, StopClears
    PROVE  IInv'
BY DEF IInv, StopClears, TypeOK, TasksInOrder, WorkConserving

LEMMA StopNotifiesAllStep ==
    ASSUME IInv, StopNotifiesAll
    PROVE  IInv'
<1>1. TypeOK' /\ TasksInOrder'
  BY DEF IInv, StopNotifiesAll, TypeOK, TasksInOrder
<1>2. Are("waiting")' = {}
  BY DEF IInv, StopNotifiesAll, TypeOK, Are
<1> QED BY <1>1, <1>2 DEF IInv, WorkConserving

LEMMA StopJoinsStep ==
    ASSUME IInv, StopJoins
    PROVE  IInv'
BY DEF IInv, StopJoins, TypeOK, TasksInOrder, WorkConserving, Are, Notifying

LEMMA InitIInv == Init => IInv
<1> SUFFICES ASSUME Init PROVE IInv
  OBVIOUS
<1>1. TypeOK /\ TasksInOrder
  BY DEF Init, TypeOK, TasksInOrder
<1>2. Are("waiting") = {}
  BY DEF Init, Are
<1> QED BY <1>1, <1>2 DEF IInv, WorkConserving

LEMMA NextKeepsIInv ==
    ASSUME IInv, [Next]_vars
    PROVE  IInv'
<1>1. CASE \E s \in Submitters : Submit(s) \/ Notify(s)
  BY <1>1, SubmitStep, NotifyStep
<1>2. ASSUME NEW w \in Workers, Take(w) PROVE IInv'
  BY <1>2, TakeStep
<1>3. ASSUME NEW w \in Workers, Wait(w) \/ Exit(w) \/ Finish(w) \/ SpuriousWakeup(w)
      PROVE  IInv'
  BY <1>3, WorkerGoesOn DEF Wait, Exit, Finish, SpuriousWakeup, WorkerPCs
<1>4. CASE StopClears \/ StopNotifiesAll \/ StopJoins
  BY <1>4, StopClearsStep, StopNotifiesAllStep, StopJoinsStep
<1>5. CASE UNCHANGED vars
  BY <1>5 DEF vars, IInv, TypeOK, TasksInOrder, WorkConserving, Are, Notifying
<1> QED BY <1>1, <1>2, <1>3, <1>4, <1>5 DEF Next, WorkerStep

-----------------------------------------------------------------------------
(* The pool: the theorems                                                  *)

\* However many threads submit and work, tasks are taken once and in order, and
\* while a worker sleeps each queued task has a worker that is about to test the
\* queue or a submitter that is about to notify (TaskExecutor.cc:43-66).
THEOREM PoolInvariant == Spec => []IInv
BY InitIInv, NextKeepsIInv, PTL DEF Spec

\* A worker that has left has seen the queue empty after running_ was cleared.
StopInv ==
    /\ running <=> stopPc = "serving"
    /\ ~running => atStop <= submitted
    /\ \A w \in Workers : worker[w] = "exited" => ~running /\ taken >= atStop
    /\ stopPc = "stopped" => Are("exited") = Workers

StoppedIsDrained ==
    stopPc = "stopped" =>
        /\ Are("busy") = {}
        /\ Workers # {} => taken >= atStop

LEMMA NextKeepsStopInv ==
    ASSUME IInv, StopInv, [Next]_vars
    PROVE  StopInv'
<1>1. /\ submitted \in Nat /\ taken \in Nat /\ atStop \in Nat /\ tasks \in Seq(Nat)
      /\ worker \in [Workers -> WorkerPCs]
      /\ submitted = taken + Len(tasks)
  BY DEF IInv, TypeOK, TasksInOrder, WorkerPCs
<1>2. ASSUME NEW s \in Submitters, Submit(s) \/ Notify(s)
      PROVE  StopInv'
  <2>1. CASE Submit(s)
    BY <1>1, <2>1 DEF Submit, StopInv, Are
  <2>2. CASE Notify(s)
    <3>1. \A w \in Workers : worker'[w] = "exited" <=> worker[w] = "exited"
      BY <1>1, <2>2 DEF Notify, Are
    <3>2. Are("exited")' = Are("exited")
      BY <3>1 DEF Are
    <3> QED BY <2>2, <3>1, <3>2 DEF Notify, StopInv
  <2> QED BY <1>2, <2>1, <2>2
<1>3. ASSUME NEW w \in Workers, Wait(w) \/ Take(w) \/ Finish(w) \/ SpuriousWakeup(w)
      PROVE  StopInv'
  <2>1. /\ \A v \in Workers : worker'[v] = "exited" <=> worker[v] = "exited"
        /\ UNCHANGED <<running, stopPc, submitted, atStop>>
        /\ taken' = taken \/ taken' = taken + 1
    BY <1>1, <1>3 DEF Wait, Take, Finish, SpuriousWakeup
  <2>2. Are("exited")' = Are("exited")
    BY <2>1 DEF Are
  <2>3. atStop <= taken => atStop <= taken'
    BY <1>1, <2>1
  <2> QED BY <1>1, <2>1, <2>2, <2>3 DEF StopInv
<1>4. ASSUME NEW w \in Workers, Exit(w)
      PROVE  StopInv'
  <2>1. ~running /\ taken >= atStop
    BY <1>1, <1>4 DEF Exit, StopInv
  <2>2. Are("exited") # Workers
    BY <1>4 DEF Exit, Are
  <2> QED BY <1>1, <1>4, <2>1, <2>2 DEF Exit, StopInv
<1>5. CASE StopClears
  <2>1. \A w \in Workers : worker[w] # "exited"
    BY <1>5 DEF StopClears, StopInv
  <2> QED BY <1>1, <1>5, <2>1 DEF StopClears, StopInv
<1>6. CASE StopNotifiesAll
  <2>1. \A w \in Workers : worker'[w] = "exited" <=> worker[w] = "exited"
    BY <1>1, <1>6 DEF StopNotifiesAll
  <2> QED BY <1>6, <2>1 DEF StopNotifiesAll, StopInv
<1>7. CASE StopJoins \/ UNCHANGED vars
  BY <1>7 DEF StopJoins, vars, StopInv, Are
<1> QED BY <1>2, <1>3, <1>4, <1>5, <1>6, <1>7 DEF Next, WorkerStep

\* When stop() has returned no worker is in a task, and every task submitted
\* before the call has been taken, if the pool has a worker at all: the safety
\* half of StopDrains (TaskExecutor.cc:26-40, 59).
THEOREM StoppedPoolIsDrained == Spec => []StoppedIsDrained
<1>1. Init => StopInv
  BY DEF Init, StopInv, Are
<1>2. IInv /\ StopInv => StoppedIsDrained
  BY DEF StopInv, StoppedIsDrained, Are
<1> QED BY <1>1, <1>2, PoolInvariant, NextKeepsStopInv, PTL DEF Spec

-----------------------------------------------------------------------------
(* The cache                                                                *)

\* The lists of ls hold each cached key once, at its frequency in f.
Sorted(f, ls) ==
    \A g \in Freqs : /\ IsInjective(ls[g])
                     /\ ToSet(ls[g]) = {k \in Keys : f[k] = g}

\* One element for each access that a frequency stands for.
Accesses(f) == {a \in Keys \X Freqs : a[2] <= f[a[1]]}

\* m is the least frequency in f.
Least(f, m) ==
    /\ m \in Nat \ {0}
    /\ \E k \in Keys : f[k] = m
    /\ \A k \in Keys : f[k] = 0 \/ m <= f[k]

CacheInv ==
    /\ CacheTypeOK
    /\ \A k \in Keys : freq[k] > 0 <=> k \in Cached
    /\ Sorted(freq, lists)
    /\ Cardinality(Accesses(freq)) <= total /\ total <= MaxAccesses
    /\ Cardinality(Cached) <= Capacity
    /\ Cached # {} => Least(freq, minFreq) /\ minFreq <= MaxAverage

-----------------------------------------------------------------------------
(* The cache: lists                                                        *)

LEMMA ListOfKeys ==
    ASSUME NEW s \in Seq(Keys)
    PROVE  /\ Len(s) \in Nat /\ DOMAIN s = 1..Len(s)
           /\ \A i \in 1..Len(s) : s[i] \in Keys
           /\ s = <<>> <=> ToSet(s) = {}
<1>1. Len(s) \in Nat /\ DOMAIN s = 1..Len(s) /\ \A i \in 1..Len(s) : s[i] \in Keys
  OBVIOUS
<1>2. ToSet(s) = {s[i] : i \in 1..Len(s)}
  BY <1>1 DEF ToSet
<1>3. s = <<>> <=> Len(s) = 0
  OBVIOUS
<1>4. ASSUME Len(s) # 0 PROVE ToSet(s) # {}
  BY <1>1, <1>2, <1>4, 1 \in 1..Len(s)
<1> QED BY <1>1, <1>2, <1>3, <1>4

LEMMA KeyIsAppended ==
    ASSUME NEW s \in Seq(Keys), IsInjective(s), NEW k \in Keys, k \notin ToSet(s)
    PROVE  /\ Append(s, k) \in Seq(Keys) /\ IsInjective(Append(s, k))
           /\ ToSet(Append(s, k)) = ToSet(s) \cup {k}
<1> DEFINE n == Len(s)
           t == Append(s, k)
<1>1. /\ t \in Seq(Keys) /\ Len(t) = n + 1 /\ t[n + 1] = k
      /\ \A i \in 1..n : t[i] = s[i]
  BY AppendProperties
<1>2. n \in Nat /\ DOMAIN s = 1..n /\ DOMAIN t = 1..(n + 1)
  BY <1>1
<1> HIDE DEF t, n
<1>3. \A i \in 1..n : t[i] \in ToSet(s) /\ t[i] # k
  BY <1>1, <1>2 DEF ToSet
<1>4. \A i \in 1..(n + 1) : i \in 1..n \/ i = n + 1
  BY <1>2
<1>5. IsInjective(t)
  BY <1>1, <1>2, <1>3, <1>4 DEF IsInjective
<1>6. ToSet(t) = ToSet(s) \cup {k}
  <2>1. ToSet(t) \subseteq ToSet(s) \cup {k}
    BY <1>1, <1>2, <1>3, <1>4 DEF ToSet
  <2>2. \A i \in 1..n : i \in 1..(n + 1) /\ n + 1 \in 1..(n + 1)
    BY <1>2
  <2>3. n + 1 \in 1..(n + 1)
    BY <1>2
  <2>4. ToSet(s) \cup {k} \subseteq ToSet(t)
    BY <1>1, <1>2, <2>2, <2>3 DEF ToSet
  <2> QED BY <2>1, <2>4
<1> QED BY <1>1, <1>5, <1>6 DEF t

LEMMA KeyIsUnlinked ==
    ASSUME NEW s \in Seq(Keys), IsInjective(s), NEW k \in ToSet(s)
    PROVE  /\ Without(s, k) \in Seq(Keys) /\ IsInjective(Without(s, k))
           /\ ToSet(Without(s, k)) = ToSet(s) \ {k}
<1> DEFINE n == Len(s)
           p == CHOOSE i \in DOMAIN s : s[i] = k
           a == SubSeq(s, 1, p - 1)
           b == SubSeq(s, p + 1, n)
           t == a \o b
<1>1. n \in Nat /\ DOMAIN s = 1..n /\ \A i \in 1..n : s[i] \in Keys
  BY ListOfKeys
<1>2. p \in 1..n /\ s[p] = k
  BY <1>1 DEF ToSet
<1>3. Without(s, k) = t
  BY DEF Without, RemoveAt
<1> HIDE DEF p, n
<1>4. /\ a \in Seq(Keys) /\ Len(a) = p - 1
      /\ \A i \in 1..(p - 1) : a[i] = s[i]
  <2>1. 1 \in Int /\ p - 1 \in Int /\ \A i \in 1..(p - 1) : s[i] \in Keys
    BY <1>1, <1>2
  <2>2. /\ a \in Seq(Keys) /\ Len(a) = IF 1 <= p - 1 THEN p - 1 - 1 + 1 ELSE 0
        /\ \A i \in 1..(p - 1 - 1 + 1) : a[i] = s[1 + i - 1]
    BY <2>1, SubSeqProperties
  <2> QED BY <1>1, <1>2, <2>2
<1>5. /\ b \in Seq(Keys) /\ Len(b) = n - p
      /\ \A i \in 1..(n - p) : b[i] = s[p + i]
  <2>1. p + 1 \in Int /\ n \in Int /\ \A i \in (p + 1)..n : s[i] \in Keys
    BY <1>1, <1>2
  <2>2. /\ b \in Seq(Keys) /\ Len(b) = IF p + 1 <= n THEN n - (p + 1) + 1 ELSE 0
        /\ \A i \in 1..(n - (p + 1) + 1) : b[i] = s[(p + 1) + i - 1]
    BY <2>1, SubSeqProperties
  <2> QED BY <1>1, <1>2, <2>2
<1> HIDE DEF a, b
<1>6. /\ t \in Seq(Keys) /\ Len(t) = n - 1
      /\ \A i \in 1..(n - 1) : IF i < p THEN t[i] = s[i] ELSE t[i] = s[i + 1]
  <2>1. /\ t \in Seq(Keys) /\ Len(t) = Len(a) + Len(b)
        /\ \A i \in 1..(Len(a) + Len(b)) :
              t[i] = IF i <= Len(a) THEN a[i] ELSE b[i - Len(a)]
    BY <1>4, <1>5, ConcatProperties
  <2> HIDE DEF t
  <2>2. Len(a) + Len(b) = n - 1
    BY <1>1, <1>2, <1>4, <1>5
  <2>3. ASSUME NEW i \in 1..(n - 1)
        PROVE  IF i < p THEN t[i] = s[i] ELSE t[i] = s[i + 1]
    <3>1. CASE i < p
      <4>1. i \in 1..(p - 1) /\ i <= p - 1
        BY <1>1, <1>2, <3>1
      <4>2. t[i] = a[i]
        BY <1>4, <2>1, <2>2, <4>1
      <4> QED BY <1>4, <3>1, <4>1, <4>2
    <3>2. CASE i >= p
      <4>1. i - (p - 1) \in 1..(n - p) /\ p + (i - (p - 1)) = i + 1 /\ ~(i <= p - 1)
        BY <1>1, <1>2, <3>2
      <4>2. t[i] = b[i - (p - 1)]
        BY <1>4, <2>1, <2>2, <4>1
      <4>3. t[i] = s[i + 1]
        BY <1>5, <4>1, <4>2
      <4>4. ~(i < p)
        BY <1>1, <1>2, <3>2
      <4> QED BY <4>3, <4>4
    <3> QED BY <3>1, <3>2, <1>1, <1>2
  <2> QED BY <2>1, <2>2, <2>3
<1> HIDE DEF t
<1> DEFINE from(i) == IF i < p THEN i ELSE i + 1
<1>7. DOMAIN t = 1..(n - 1) /\ \A i \in 1..(n - 1) : t[i] = s[from(i)]
  BY <1>1, <1>2, <1>6
<1>8. /\ \A i \in 1..(n - 1) : from(i) \in 1..n /\ from(i) # p
      /\ \A i, j \in 1..(n - 1) : from(i) = from(j) => i = j
      /\ \A j \in 1..n : j # p => \E i \in 1..(n - 1) : from(i) = j
  <2>1. /\ \A i \in 1..(n - 1) : from(i) \in 1..n /\ from(i) # p
        /\ \A i, j \in 1..(n - 1) : from(i) = from(j) => i = j
    BY <1>1, <1>2
  <2>2. ASSUME NEW j \in 1..n, j # p PROVE \E i \in 1..(n - 1) : from(i) = j
    <3>1. CASE j < p
      BY <1>1, <1>2, <3>1, j \in 1..(n - 1), from(j) = j
    <3>2. CASE j > p
      BY <1>1, <1>2, <3>2, j - 1 \in 1..(n - 1), from(j - 1) = j
    <3> QED BY <1>1, <1>2, <2>2, <3>1, <3>2
  <2> QED BY <2>1, <2>2
<1> HIDE DEF from
<1>9. IsInjective(t)
  BY <1>1, <1>7, <1>8 DEF IsInjective
<1>10. ToSet(t) = ToSet(s) \ {k}
  <2>1. ToSet(t) \subseteq ToSet(s) \ {k}
    BY <1>1, <1>2, <1>7, <1>8, SMTT(30) DEF IsInjective, ToSet
  <2>2. ToSet(s) \ {k} \subseteq ToSet(t)
    <3> SUFFICES ASSUME NEW j \in 1..n, s[j] # k PROVE s[j] \in ToSet(t)
      BY <1>1 DEF ToSet
    <3>1. PICK i \in 1..(n - 1) : from(i) = j
      BY <1>2, <1>8
    <3> QED BY <1>7, <3>1 DEF ToSet
  <2> QED BY <2>1, <2>2
<1> QED BY <1>3, <1>6, <1>9, <1>10

\* An order of a visit is a list of the keys it visits.
LEMMA OrderIsList ==
    ASSUME NEW f, NEW g, NEW s \in Orders(f, g)
    PROVE  /\ s \in Seq(Keys) /\ IsInjective(s)
           /\ ToSet(s) = {k \in Keys : f[k] = g}
<1> DEFINE S == {k \in Keys : f[k] = g}
           n == Cardinality(S)
<1>1. IsFiniteSet(S) /\ n \in Nat
  BY FS_Subset, FS_CardinalityType, CacheAssumption
<1>2. s \in [1..n -> S] /\ \A i, j \in 1..n : i # j => s[i] # s[j]
  BY DEF Orders, SetToSeqs
<1>3. IsFiniteSet(1..n) /\ Cardinality(1..n) = n
  BY <1>1, FS_Interval
<1> HIDE DEF n
<1>4. s \in Injection(1..n, S) /\ IsInjective(s)
  BY <1>2 DEF Injection, IsInjective
<1>5. s \in Surjection(1..n, S)
  BY <1>1, <1>3, <1>4, FS_Injection DEF n
<1>6. s \in Seq(Keys)
  <2>1. s \in [1..n -> Keys]
    BY <1>2
  <2> QED BY <1>1, <2>1
<1>7. ToSet(s) = S
  BY <1>2, <1>5 DEF ToSet, Surjection
<1> QED BY <1>4, <1>6, <1>7

-----------------------------------------------------------------------------
(* The cache: counting accesses                                            *)

LEMMA AccessesAreFinite ==
    ASSUME NEW f
    PROVE  IsFiniteSet(Accesses(f)) /\ Cardinality(Accesses(f)) \in Nat
<1>1. IsFiniteSet(Keys \X Freqs)
  <2>1. IsFiniteSet(Freqs)
    BY CacheAssumption, FS_Interval DEF Freqs
  <2> QED BY <2>1, CacheAssumption, FS_Product
<1> QED BY <1>1, FS_Subset, FS_CardinalityType DEF Accesses

\* With smaller frequencies there are no more accesses.
LEMMA FewerAccesses ==
    ASSUME NEW f \in [Keys -> Nat], NEW h \in [Keys -> Nat],
           \A k \in Keys : h[k] <= f[k]
    PROVE  Cardinality(Accesses(h)) <= Cardinality(Accesses(f))
<1>1. Accesses(h) \subseteq Accesses(f)
  BY DEF Accesses, Freqs
<1> QED BY <1>1, AccessesAreFinite, FS_Subset

\* A key that is used once more adds one.
LEMMA OneMoreAccess ==
    ASSUME NEW f \in [Keys -> Nat], NEW k \in Keys, f[k] + 1 \in Freqs
    PROVE  Cardinality(Accesses([f EXCEPT ![k] = f[k] + 1])) = Cardinality(Accesses(f)) + 1
<1> DEFINE h == [f EXCEPT ![k] = f[k] + 1]
           a == <<k, f[k] + 1>>
<1>1. Accesses(h) = Accesses(f) \cup {a}
  <2>1. \A x \in Keys : h[x] = IF x = k THEN f[k] + 1 ELSE f[x]
    OBVIOUS
  <2>2. a \in Accesses(h)
    BY <2>1 DEF Accesses
  <2>3. \A x \in Keys, g \in Freqs : g <= h[x] <=> g <= f[x] \/ (x = k /\ g = f[k] + 1)
    BY <2>1 DEF Freqs
  <2> HIDE DEF h
  <2> QED BY <2>2, <2>3 DEF Accesses
<1>2. a \notin Accesses(f)
  BY DEF Accesses
<1> QED BY <1>1, <1>2, AccessesAreFinite, FS_AddElement

\* A key that is dropped takes its accesses along.
LEMMA DroppedAccesses ==
    ASSUME NEW f \in [Keys -> Nat], NEW k \in Keys, f[k] \in Freqs
    PROVE  Cardinality(Accesses([f EXCEPT ![k] = 0])) = Cardinality(Accesses(f)) - f[k]
<1> DEFINE h == [f EXCEPT ![k] = 0]
           D == {k} \X (1..f[k])
<1>1. f[k] \in Nat /\ 1..f[k] \subseteq Freqs
  BY CacheAssumption DEF Freqs
<1>2. Accesses(h) = Accesses(f) \ D /\ Accesses(f) \cap D = D
  <2>1. \A x \in Keys : h[x] = IF x = k THEN 0 ELSE f[x]
    OBVIOUS
  <2>2. \A x \in Keys, g \in Freqs : g <= h[x] <=> g <= f[x] /\ x # k
    BY <2>1 DEF Freqs
  <2>3. \A g \in Freqs : g <= f[k] <=> g \in 1..f[k]
    BY <1>1 DEF Freqs
  <2> HIDE DEF h
  <2>4. D \subseteq Accesses(f)
    BY <1>1, <2>3 DEF Accesses
  <2>5. Accesses(h) = Accesses(f) \ D
    BY <2>2, <2>3 DEF Accesses
  <2> QED BY <2>4, <2>5
<1>3. Cardinality(D) = f[k]
  <2>1. IsFiniteSet({k}) /\ Cardinality({k}) = 1
    BY FS_Singleton
  <2>2. IsFiniteSet(1..f[k]) /\ Cardinality(1..f[k]) = f[k]
    BY <1>1, FS_Interval
  <2>3. Cardinality({k} \X (1..f[k])) = Cardinality({k}) * Cardinality(1..f[k])
    BY <2>1, <2>2, FS_Product
  <2> QED BY <1>1, <2>1, <2>2, <2>3
<1> HIDE DEF D, h
<1>4. Cardinality(Accesses(f) \ D) = Cardinality(Accesses(f)) - Cardinality(Accesses(f) \cap D)
  BY AccessesAreFinite, FS_Difference
<1>5. Cardinality(Accesses(h)) = Cardinality(Accesses(f)) - f[k]
  BY <1>2, <1>3, <1>4
<1> QED BY <1>5 DEF h

\* When n keys have a frequency of at least m there are n * m of them.
LEMMA ManyAccesses ==
    ASSUME NEW f \in [Keys -> Nat], NEW S \in SUBSET Keys, NEW m \in Freqs,
           \A k \in S : m <= f[k]
    PROVE  Cardinality(S) * m <= Cardinality(Accesses(f))
<1> DEFINE P == S \X (1..m)
<1>1. m \in Nat /\ 1..m \subseteq Freqs
  BY CacheAssumption DEF Freqs
<1>2. P \subseteq Accesses(f)
  BY <1>1 DEF Accesses, Freqs
<1>3. IsFiniteSet(S) /\ IsFiniteSet(1..m) /\ Cardinality(1..m) = m
  BY <1>1, CacheAssumption, FS_Subset, FS_Interval
<1>4. Cardinality(P) = Cardinality(S) * m
  BY <1>3, FS_Product
<1> HIDE DEF P
<1> QED BY <1>2, <1>4, AccessesAreFinite, FS_Subset

LEMMA FrequencyIsBounded ==
    ASSUME CacheInv, NEW k \in Keys
    PROVE  freq[k] \in Nat /\ freq[k] <= total /\ total \in Nat
<1>1. freq \in [Keys -> Nat] /\ total \in Int /\ Cardinality(Accesses(freq)) \in Nat
  BY AccessesAreFinite DEF CacheInv, CacheTypeOK
<1>2. CASE freq[k] \in Freqs
  <2>1. IsFiniteSet({k}) /\ Cardinality({k}) = 1
    BY FS_Singleton
  <2>2. Cardinality({k}) * freq[k] <= Cardinality(Accesses(freq))
    BY <1>1, <1>2, ManyAccesses
  <2> QED BY <1>1, <2>1, <2>2 DEF CacheInv
<1>3. CASE freq[k] > MaxAccesses + 1
  <2> DEFINE m == MaxAccesses + 1
  <2>1. m \in Freqs /\ m \in Nat
    BY CacheAssumption DEF Freqs
  <2>2. IsFiniteSet({k}) /\ Cardinality({k}) = 1
    BY FS_Singleton
  <2>3. Cardinality({k}) * m <= Cardinality(Accesses(freq))
    BY <1>1, <1>3, <2>1, ManyAccesses
  <2> QED BY <1>1, <2>1, <2>2, <2>3, CacheAssumption DEF CacheInv
<1>4. CASE freq[k] = 0
  BY <1>1, <1>4 DEF CacheInv
<1> QED BY <1>1, <1>2, <1>3, <1>4, CacheAssumption DEF Freqs

-----------------------------------------------------------------------------
(* The cache: ageing and the least frequency                               *)

LEMMA AgedFrequency ==
    ASSUME NEW f \in [Keys -> Nat]
    PROVE  /\ Aged(f) \in [Keys -> Nat]
           /\ \A k \in Keys : /\ f[k] = 0 => Aged(f)[k] = 0
                              /\ f[k] > 0 => /\ Aged(f)[k] \in Nat \ {0}
                                             /\ Aged(f)[k] <= f[k]
                                             /\ f[k] > 1 => Aged(f)[k] < f[k]
           /\ \A k, x \in Keys : f[k] > 0 /\ f[k] <= f[x] => Aged(f)[k] <= Aged(f)[x]
           /\ \A k \in Keys : f[k] \in 1..(MaxAverage + 1) =>
                                 Aged(f)[k] <= MaxAverage /\ Aged(f)[k] < Int8Max
<1> DEFINE h == MaxAverage \div 2
           low(n) == IF n - h >= 1 THEN n - h ELSE 1
<1>1. h \in Nat /\ 1 <= h /\ h <= MaxAverage /\ MaxAverage \in Nat
      /\ MaxAverage + 1 - h < Int8Max /\ Int8Max \in Nat /\ MaxAverage >= 2
  BY AgeingAssumption
<1>2. \A n \in Nat : Max({n - h, 1}) = low(n)
  <2> SUFFICES ASSUME NEW n \in Nat PROVE Max({n - h, 1}) = low(n)
    OBVIOUS
  <2>1. low(n) \in {n - h, 1} /\ \A y \in {n - h, 1} : low(n) >= y
    BY <1>1
  <2>2. \A x \in {n - h, 1} : (\A y \in {n - h, 1} : x >= y) => x = low(n)
    BY <1>1
  <2> HIDE DEF low, h
  <2> QED BY <2>1, <2>2 DEF Max
<1>3. \A k \in Keys : Aged(f)[k] = IF f[k] = 0 THEN 0 ELSE low(f[k])
  BY <1>2 DEF Aged
<1>4. \A n \in Nat : low(n) \in Nat \ {0}
  BY <1>1
<1>5. Aged(f) \in [Keys -> Nat]
  <2>1. Aged(f) = [k \in Keys |-> IF f[k] = 0 THEN 0 ELSE low(f[k])]
    BY <1>2 DEF Aged
  <2> HIDE DEF low
  <2> QED BY <1>4, <2>1
<1> HIDE DEF h
<1>6. \A k \in Keys : f[k] \in Nat
  OBVIOUS
<1> DEFINE a == Aged(f)
<1> HIDE DEF a
<1>7. \A k \in Keys : a[k] = IF f[k] = 0 THEN 0 ELSE low(f[k])
  BY <1>3 DEF a
<1>8. \A k \in Keys : /\ f[k] = 0 => a[k] = 0
                      /\ f[k] > 0 => /\ a[k] \in Nat \ {0}
                                     /\ a[k] <= f[k]
                                     /\ f[k] > 1 => a[k] < f[k]
  BY <1>1, <1>6, <1>7
<1>9. \A k, x \in Keys : f[k] > 0 /\ f[k] <= f[x] => a[k] <= a[x]
  BY <1>1, <1>6, <1>7
<1>10. \A k \in Keys : f[k] \in 1..(MaxAverage + 1) => a[k] <= MaxAverage /\ a[k] < Int8Max
  BY <1>1, <1>6, <1>7
<1> QED BY <1>5, <1>8, <1>9, <1>10 DEF a

\* updateMinFreq finds the least frequency when it is below its sentinel.
LEMMA MinFreqIsFound ==
    ASSUME NEW f \in [Keys -> Nat], \A k \in Keys : f[k] <= MaxAccesses + 1,
           NEW ls \in [Freqs -> Seq(Keys)], Sorted(f, ls),
           NEW m, Least(f, m), m < Int8Max
    PROVE  UpdateMinFreq(ls) = m
<1> DEFINE S == {Int8Max} \cup {g \in Freqs : ls[g] # <<>>}
<1>1. \A g \in Freqs : ls[g] # <<>> <=> \E k \in Keys : f[k] = g
  BY ListOfKeys DEF Sorted
<1>2. m \in Freqs /\ m \in Nat
  BY CacheAssumption DEF Least, Freqs
<1>3. m \in S
  BY <1>1, <1>2 DEF Least
<1>4. \A y \in S : y \in Nat /\ m <= y
  <2>1. \A g \in Freqs : g \in Nat /\ (ls[g] # <<>> => m <= g)
    BY <1>1 DEF Least, Freqs
  <2> QED BY <1>2, <2>1, AgeingAssumption
<1> HIDE DEF S
<1>5. \A x \in S : (\A y \in S : x <= y) => x = m
  BY <1>2, <1>3, <1>4
<1>6. Min(S) = m
  BY <1>3, <1>4, <1>5 DEF Min
<1>7. m # Int8Max
  BY <1>2, AgeingAssumption
<1> QED BY <1>6, <1>7 DEF UpdateMinFreq, S

\* The average of at least m per key is at least m.
LEMMA AverageIsAtLeast ==
    ASSUME NEW n \in Nat \ {0}, NEW m \in Nat, NEW c \in Nat, n * m <= c
    PROVE  m <= c \div n
<1> DEFINE q == c \div n
<1>1. q \in Nat /\ c < n * (q + 1)
  <2>1. q \in Int /\ n * q <= c /\ c < n * q + n
    OBVIOUS
  <2>2. q >= 0
    OBVIOUS
  <2> HIDE DEF q
  <2>3. n * (q + 1) = n * q + n
    BY <2>1
  <2> QED BY <2>1, <2>2, <2>3
<1> HIDE DEF q
<1>2. SUFFICES ASSUME q + 1 <= m PROVE FALSE
  BY <1>1 DEF q
<1>3. n * (q + 1) <= n * m
  BY <1>1, <1>2
<1>4. n * (q + 1) \in Nat /\ n * m \in Nat
  BY <1>1
<1> QED BY <1>1, <1>3, <1>4

\* What an access leaves: addFreqNum after its caller put f and ls in order.
LEMMA AccessIsCounted ==
    ASSUME NEW f \in [Keys -> Nat], NEW ls \in [Freqs -> Seq(Keys)], Sorted(f, ls),
           NEW S \in SUBSET Keys, S # {}, \A k \in Keys : f[k] > 0 <=> k \in S,
           NEW count \in Nat, count < MaxAccesses,
           Cardinality(Accesses(f)) <= count + 1,
           NEW m, Least(f, m), m <= MaxAverage + 1,
           AddFreqNum(f, ls, count, Cardinality(S))
    PROVE  /\ freq' \in [Keys -> Nat] /\ lists' \in [Freqs -> Seq(Keys)]
           /\ Sorted(freq', lists')
           /\ \A k \in Keys : freq'[k] > 0 <=> k \in S
           /\ Cardinality(Accesses(freq')) <= total'
           /\ total' = count + 1 /\ average' \in Int
           /\ IF average' > MaxAverage
              THEN /\ Least(freq', UpdateMinFreq(lists')) /\ UpdateMinFreq(lists') <= MaxAverage
                   /\ m = 1 => UpdateMinFreq(lists') = 1
              ELSE freq' = f /\ m <= MaxAverage
<1> DEFINE n == Cardinality(S)
<1>1. IsFiniteSet(S) /\ n \in Nat \ {0}
  BY CacheAssumption, FS_Subset, FS_CardinalityType, FS_EmptySet
<1>2. Cardinality(Accesses(f)) \in Nat
  BY AccessesAreFinite
<1>3. total' = count + 1 /\ average' = (count + 1) \div n /\ average' \in Int
  BY <1>1 DEF AddFreqNum
<1>4. \A k \in Keys : f[k] \in Nat /\ f[k] <= MaxAccesses
  <2> SUFFICES ASSUME NEW k \in Keys, f[k] > MaxAccesses PROVE FALSE
    BY CacheAssumption
  <2>1. IsFiniteSet({k}) /\ Cardinality({k}) = 1
    BY FS_Singleton
  <2>2. MaxAccesses + 1 \in Freqs /\ MaxAccesses + 1 \in Nat
    BY CacheAssumption DEF Freqs
  <2>3. Cardinality({k}) * (MaxAccesses + 1) <= Cardinality(Accesses(f))
    BY <2>2, CacheAssumption, ManyAccesses, SMTT(30)
  <2> QED BY <1>2, <2>1, <2>2, <2>3, CacheAssumption
<1>5. MaxAverage \in Nat /\ m \in Nat \ {0}
  BY AgeingAssumption DEF Least
<1> HIDE DEF n
<1>6. CASE ~(average' > MaxAverage)
  <2>1. freq' = f /\ lists' = ls
    BY <1>6 DEF AddFreqNum
  <2>2. m \in Freqs /\ \A k \in S : m <= f[k]
    BY <1>4, <1>5, CacheAssumption DEF Least, Freqs
  <2>3. n * m <= Cardinality(Accesses(f))
    BY <2>2, ManyAccesses DEF n
  <2>4. m <= (count + 1) \div n
    <3>1. n * m \in Nat /\ n * m <= count + 1 /\ count + 1 \in Nat
      BY <1>1, <1>2, <1>5, <2>3
    <3> QED BY <1>1, <1>5, <3>1, AverageIsAtLeast
  <2>5. m <= MaxAverage
    BY <1>3, <1>5, <1>6, <2>4
  <2> QED BY <1>3, <1>6, <2>1, <2>5
<1>7. CASE average' > MaxAverage
  <2> DEFINE a == Aged(f)
             used == {a[k] : k \in {x \in Keys : f[x] > 0}}
  <2>1. /\ a \in [Keys -> Nat]
        /\ \A k \in Keys : /\ f[k] = 0 => a[k] = 0
                           /\ f[k] > 0 => a[k] \in Nat \ {0} /\ a[k] <= f[k]
                           /\ f[k] > 1 => a[k] < f[k]
    BY AgedFrequency
  <2>2. freq' = a
    BY <1>7 DEF AddFreqNum
  <2>3. PICK order : /\ \A g \in used : order[g] \in Orders(a, g)
                     /\ lists' = [g \in Freqs |-> IF g \in used THEN order[g] ELSE <<>>]
    BY <1>7 DEF AddFreqNum
  <2>4. ASSUME NEW g \in Freqs
        PROVE  /\ lists'[g] \in Seq(Keys) /\ IsInjective(lists'[g])
               /\ ToSet(lists'[g]) = {k \in Keys : a[k] = g}
    <3>1. CASE g \in used
      <4>1. lists'[g] = order[g] /\ order[g] \in Orders(a, g)
        BY <2>3, <3>1
      <4> QED BY <4>1, OrderIsList
    <3>2. CASE g \notin used
      <4>1. lists'[g] = <<>>
        BY <2>3, <3>2
      <4>2. ASSUME NEW k \in Keys, a[k] = g PROVE FALSE
        <5>1. g # 0
          BY CacheAssumption DEF Freqs
        <5>2. f[k] > 0
          BY <1>4, <2>1, <4>2, <5>1
        <5> QED BY <3>2, <4>2, <5>2
      <4>3. <<>> \in Seq(Keys) /\ IsInjective(<<>>) /\ ToSet(<<>>) = {}
        BY DEF IsInjective, ToSet
      <4> HIDE DEF a
      <4> QED BY <4>1, <4>2, <4>3
    <3> QED BY <3>1, <3>2
  <2>5. lists' \in [Freqs -> Seq(Keys)] /\ Sorted(freq', lists')
    <3>1. lists' = [g \in Freqs |-> lists'[g]]
      BY <2>3
    <3> QED BY <2>2, <2>4, <3>1 DEF Sorted
  <2>6. \A k \in Keys : freq'[k] > 0 <=> k \in S
    BY <1>4, <2>1, <2>2
  <2>7. Cardinality(Accesses(freq')) <= total'
    <3>1. \A k \in Keys : a[k] <= f[k]
      BY <1>4, <2>1
    <3> HIDE DEF a
    <3>2. Cardinality(Accesses(a)) <= Cardinality(Accesses(f))
      BY <2>1, <3>1, FewerAccesses
    <3>3. Cardinality(Accesses(a)) \in Nat
      BY AccessesAreFinite
    <3> QED BY <1>2, <1>3, <2>2, <3>2, <3>3
  <2>8. PICK k \in Keys : f[k] = m
    BY DEF Least
  <2>9. /\ Least(a, a[k]) /\ a[k] <= MaxAverage /\ a[k] < Int8Max
        /\ m = 1 => a[k] = 1
    <3>1. /\ \A x \in Keys : f[k] > 0 /\ f[k] <= f[x] => a[k] <= a[x]
          /\ f[k] \in 1..(MaxAverage + 1) => a[k] <= MaxAverage /\ a[k] < Int8Max
      BY AgedFrequency
    <3> HIDE DEF a
    <3>2. a[k] \in Nat \ {0} /\ a[k] <= m
      BY <1>5, <2>1, <2>8
    <3>3. \A x \in Keys : a[x] = 0 \/ a[k] <= a[x]
      BY <1>4, <1>5, <2>1, <2>8, <3>1 DEF Least
    <3>4. f[k] \in 1..(MaxAverage + 1)
      BY <1>5, <2>8
    <3> QED BY <3>1, <3>2, <3>3, <3>4 DEF Least
  <2>10. \A x \in Keys : a[x] <= MaxAccesses + 1
    <3> HIDE DEF a
    <3> QED BY <1>4, <2>1, CacheAssumption
  <2> HIDE DEF a
  <2>11. UpdateMinFreq(lists') = a[k]
    BY <2>1, <2>2, <2>5, <2>9, <2>10, MinFreqIsFound
  <2> QED BY <1>3, <1>7, <2>1, <2>2, <2>5, <2>6, <2>7, <2>9, <2>11
<1> QED BY <1>6, <1>7

-----------------------------------------------------------------------------
(* The cache: hits                                                         *)

\* How a hit leaves the frequencies and the lists before it is counted.
LEMMA HitMovesKey ==
    ASSUME CacheInv, total < MaxAccesses, NEW k \in Cached
    PROVE  LET f == [freq EXCEPT ![k] = freq[k] + 1]
               ls == [lists EXCEPT ![freq[k]] = Without(@, k),
                                   ![freq[k] + 1] = Append(@, k)]
           IN  /\ f \in [Keys -> Nat] /\ ls \in [Freqs -> Seq(Keys)] /\ Sorted(f, ls)
               /\ \A x \in Keys : f[x] > 0 <=> x \in Cached
               /\ Cardinality(Accesses(f)) <= total + 1
               /\ Least(f, MinAfterHit(k, ls)) /\ MinAfterHit(k, ls) <= MaxAverage + 1
<1> DEFINE n == freq[k]
           f == [freq EXCEPT ![k] = freq[k] + 1]
           ls == [lists EXCEPT ![freq[k]] = Without(@, k), ![freq[k] + 1] = Append(@, k)]
<1>1. /\ freq \in [Keys -> Nat] /\ lists \in [Freqs -> Seq(Keys)] /\ k \in Keys
      /\ \A x \in Keys : freq[x] > 0 <=> x \in Cached
      /\ Sorted(freq, lists) /\ Least(freq, minFreq) /\ minFreq <= MaxAverage
  BY DEF CacheInv, CacheTypeOK, Cached
<1>2. n \in Nat \ {0} /\ n \in Freqs /\ n + 1 \in Freqs /\ total \in Nat
  <2>1. freq[k] \in Nat /\ freq[k] <= total /\ total \in Nat
    BY <1>1, FrequencyIsBounded
  <2> QED BY <1>1, <2>1, CacheAssumption DEF Freqs
<1>3. /\ f \in [Keys -> Nat] /\ f[k] = n + 1
      /\ \A x \in Keys : x # k => f[x] = freq[x]
  BY <1>1, <1>2
<1>4. \A x \in Keys : f[x] > 0 <=> x \in Cached
  BY <1>1, <1>2, <1>3
<1>5. Cardinality(Accesses(f)) <= total + 1
  <2>1. Cardinality(Accesses(f)) = Cardinality(Accesses(freq)) + 1
    BY <1>1, <1>2, OneMoreAccess
  <2>2. Cardinality(Accesses(freq)) <= total
    BY DEF CacheInv
  <2> QED BY <1>2, <2>1, <2>2, AccessesAreFinite
<1>6. /\ k \in ToSet(lists[n]) /\ k \notin ToSet(lists[n + 1])
      /\ IsInjective(lists[n]) /\ IsInjective(lists[n + 1])
  BY <1>1, <1>2 DEF Sorted
<1>7. /\ Without(lists[n], k) \in Seq(Keys) /\ IsInjective(Without(lists[n], k))
      /\ ToSet(Without(lists[n], k)) = ToSet(lists[n]) \ {k}
      /\ Append(lists[n + 1], k) \in Seq(Keys) /\ IsInjective(Append(lists[n + 1], k))
      /\ ToSet(Append(lists[n + 1], k)) = ToSet(lists[n + 1]) \cup {k}
  BY <1>1, <1>2, <1>6, KeyIsUnlinked, KeyIsAppended
<1>8. /\ ls \in [Freqs -> Seq(Keys)]
      /\ ls[n] = Without(lists[n], k) /\ ls[n + 1] = Append(lists[n + 1], k)
      /\ \A g \in Freqs : g # n /\ g # n + 1 => ls[g] = lists[g]
  <2> DEFINE A == Without(lists[n], k)
             B == Append(lists[n + 1], k)
             both == [lists EXCEPT ![n] = A, ![n + 1] = B]
  <2>1. A \in Seq(Keys) /\ B \in Seq(Keys)
    BY <1>7
  <2>2. n # n + 1 /\ n \in Freqs /\ n + 1 \in Freqs
    BY <1>2
  <2>3. ls = both
    BY <1>1, <2>2
  <2> HIDE DEF A, B, ls, n
  <2>4. /\ both \in [Freqs -> Seq(Keys)] /\ both[n] = A /\ both[n + 1] = B
        /\ \A g \in Freqs : g # n /\ g # n + 1 => both[g] = lists[g]
    BY <1>1, <2>1, <2>2
  <2> QED BY <2>3, <2>4 DEF A, B
<1> HIDE DEF f, ls, n
<1>9. Sorted(f, ls)
  <2> SUFFICES ASSUME NEW g \in Freqs
               PROVE  IsInjective(ls[g]) /\ ToSet(ls[g]) = {x \in Keys : f[x] = g}
    BY DEF Sorted
  <2>1. IsInjective(lists[g]) /\ ToSet(lists[g]) = {x \in Keys : freq[x] = g}
    BY <1>1 DEF Sorted
  <2>2. CASE g = n
    <3>1. IsInjective(ls[g]) /\ ToSet(ls[g]) = ToSet(lists[g]) \ {k}
      BY <1>7, <1>8, <2>2
    <3>2. \A x \in Keys : f[x] = g <=> freq[x] = g /\ x # k
      BY <1>2, <1>3, <2>2
    <3> QED BY <2>1, <3>1, <3>2
  <2>3. CASE g = n + 1
    <3>1. IsInjective(ls[g]) /\ ToSet(ls[g]) = ToSet(lists[g]) \cup {k}
      BY <1>7, <1>8, <2>3
    <3>2. \A x \in Keys : f[x] = g <=> freq[x] = g \/ x = k
      BY <1>2, <1>3, <2>3 DEF n
    <3> QED BY <1>1, <2>1, <3>1, <3>2
  <2>4. CASE g # n /\ g # n + 1
    <3>1. ls[g] = lists[g]
      BY <1>8, <2>4
    <3>2. \A x \in Keys : f[x] = g <=> freq[x] = g
      BY <1>3, <2>4 DEF n
    <3> QED BY <2>1, <3>1, <3>2
  <2> QED BY <2>2, <2>3, <2>4
<1> DEFINE m == MinAfterHit(k, ls)
<1>10. m = IF n = minFreq /\ ls[n] = <<>> THEN minFreq + 1 ELSE minFreq
  BY DEF MinAfterHit, n
<1>11. ls[n] = <<>> <=> \A x \in Keys : x # k => freq[x] # n
  <2>1. ls[n] = <<>> <=> ToSet(ls[n]) = {}
    BY <1>2, <1>8, ListOfKeys
  <2>2. ToSet(ls[n]) = {x \in Keys : f[x] = n}
    BY <1>2, <1>9 DEF Sorted
  <2> QED BY <1>2, <1>3, <2>1, <2>2
<1> HIDE DEF m
<1>12. minFreq \in Nat \ {0} /\ \A x \in Keys : freq[x] \in Nat
  BY <1>1 DEF Least
<1>13. Least(f, m)
  <2>1. CASE n = minFreq /\ ls[n] = <<>>
    <3>1. m = minFreq + 1 /\ f[k] = m
      BY <1>3, <1>10, <2>1
    <3>2. \A x \in Keys : f[x] = 0 \/ m <= f[x]
      BY <1>1, <1>3, <1>11, <1>12, <2>1, <3>1 DEF Least
    <3> QED BY <1>1, <1>12, <3>1, <3>2 DEF Least
  <2>2. CASE ~(n = minFreq /\ ls[n] = <<>>)
    <3>1. m = minFreq
      BY <1>10, <2>2
    <3>2. \E x \in Keys : f[x] = m
      <4>1. PICK y \in Keys : freq[y] = minFreq
        BY <1>1 DEF Least
      <4>2. CASE y # k
        BY <1>3, <3>1, <4>1, <4>2
      <4>3. CASE y = k
        <5>1. PICK x \in Keys : x # k /\ freq[x] = n
          BY <1>11, <2>2, <4>1, <4>3 DEF n
        <5> QED BY <1>3, <3>1, <4>1, <4>3, <5>1 DEF n
      <4> QED BY <4>2, <4>3
    <3>3. \A x \in Keys : f[x] = 0 \/ m <= f[x]
      <4>1. \A x \in Keys : freq[x] = 0 \/ minFreq <= freq[x]
        BY <1>1 DEF Least
      <4>2. minFreq <= n
        BY <1>1, <1>2, <4>1 DEF n
      <4> QED BY <1>2, <1>3, <1>12, <3>1, <4>1, <4>2
    <3> QED BY <1>12, <3>1, <3>2, <3>3 DEF Least
  <2> QED BY <2>1, <2>2
<1>14. m <= MaxAverage + 1
  BY <1>1, <1>10, <1>12, AgeingAssumption
<1> QED BY <1>3, <1>4, <1>5, <1>8, <1>9, <1>13, <1>14 DEF f, ls, m

LEMMA HitKeeps ==
    ASSUME CacheInv, total < MaxAccesses, NEW k \in Cached, GetInternal(k),
           value' \in [Keys -> Values \cup {Absent}], Cached' = Cached
    PROVE  CacheInv'
<1> DEFINE f == [freq EXCEPT ![k] = freq[k] + 1]
           ls == [lists EXCEPT ![freq[k]] = Without(@, k), ![freq[k] + 1] = Append(@, k)]
           m == MinAfterHit(k, ls)
<1>1. /\ f \in [Keys -> Nat] /\ ls \in [Freqs -> Seq(Keys)] /\ Sorted(f, ls)
      /\ \A x \in Keys : f[x] > 0 <=> x \in Cached
      /\ Cardinality(Accesses(f)) <= total + 1
      /\ Least(f, m) /\ m <= MaxAverage + 1
  BY HitMovesKey
<1>2. /\ AddFreqNum(f, ls, total, Cardinality(Cached))
      /\ minFreq' = MinAfterCount(m)
  BY DEF GetInternal
<1>3. total \in Nat /\ Cached \in SUBSET Keys /\ Cached # {}
  BY FrequencyIsBounded DEF Cached
<1> HIDE DEF f, ls, m
<1>4. /\ freq' \in [Keys -> Nat] /\ lists' \in [Freqs -> Seq(Keys)]
      /\ Sorted(freq', lists')
      /\ \A x \in Keys : freq'[x] > 0 <=> x \in Cached
      /\ Cardinality(Accesses(freq')) <= total'
      /\ total' = total + 1 /\ average' \in Int
      /\ IF average' > MaxAverage
         THEN Least(freq', UpdateMinFreq(lists')) /\ UpdateMinFreq(lists') <= MaxAverage
         ELSE freq' = f /\ m <= MaxAverage
  BY <1>1, <1>2, <1>3, AccessIsCounted
<1>5. Least(freq', minFreq') /\ minFreq' <= MaxAverage
  BY <1>1, <1>2, <1>4 DEF MinAfterCount
<1>6. minFreq' \in Nat \ {0} /\ total' \in Int /\ total' <= MaxAccesses
  BY <1>3, <1>4, <1>5, CacheAssumption DEF Least
<1>7. CacheTypeOK'
  BY <1>4, <1>6 DEF CacheTypeOK
<1>8. Sorted(freq, lists)' /\ Least(freq, minFreq)' /\ Cardinality(Accesses(freq))' <= total'
  BY <1>4, <1>5 DEF Sorted, Least, Accesses
<1>9. Cardinality(Cached') <= Capacity
  BY DEF CacheInv
<1> QED BY <1>4, <1>5, <1>6, <1>7, <1>8, <1>9 DEF CacheInv

\* Frequencies and lists without the keys that left.
LEMMA OutIsUnlinked ==
    ASSUME CacheInv, NEW out, out = {} \/ \E e \in Cached : out = {e}
    PROVE  LET f == [x \in Keys |-> IF x \in Cached \ out THEN freq[x] ELSE 0]
           IN  /\ f \in [Keys -> Nat] /\ Unlinked(out) \in [Freqs -> Seq(Keys)]
               /\ Sorted(f, Unlinked(out))
               /\ \A x \in Keys : f[x] > 0 <=> x \in Cached \ out
               /\ out = {} => f = freq
               /\ \A e \in Cached : out = {e} => f = [freq EXCEPT ![e] = 0]
<1> DEFINE f == [x \in Keys |-> IF x \in Cached \ out THEN freq[x] ELSE 0]
           ls == Unlinked(out)
<1>1. /\ freq \in [Keys -> Nat] /\ lists \in [Freqs -> Seq(Keys)] /\ Cached \subseteq Keys
      /\ \A x \in Keys : freq[x] > 0 <=> x \in Cached
      /\ Sorted(freq, lists)
  BY DEF CacheInv, CacheTypeOK, Cached
<1>2. \A x \in Keys : freq[x] \in Nat /\ (x \notin Cached => freq[x] = 0)
  BY <1>1
<1>3. /\ f \in [Keys -> Nat]
      /\ \A x \in Keys : f[x] = IF x \in out THEN 0 ELSE freq[x]
  BY <1>2
<1>4. \A x \in Keys : f[x] > 0 <=> x \in Cached \ out
  BY <1>1, <1>2
<1>5. out = {} => f = freq
  BY <1>1, <1>2
<1>6. \A e \in Cached : out = {e} => f = [freq EXCEPT ![e] = 0]
  BY <1>1, <1>2
<1> HIDE DEF f
<1>7. ASSUME NEW g \in Freqs
      PROVE  /\ ls[g] \in Seq(Keys) /\ IsInjective(ls[g])
             /\ ToSet(ls[g]) = {x \in Keys : f[x] = g}
  <2>1. /\ lists[g] \in Seq(Keys) /\ IsInjective(lists[g])
        /\ ToSet(lists[g]) = {x \in Keys : freq[x] = g}
    BY <1>1 DEF Sorted
  <2>2. g # 0
    BY CacheAssumption DEF Freqs
  <2>3. CASE \E e \in out : freq[e] = g
    <3>1. PICK e \in Cached : out = {e} /\ freq[e] = g
      BY <2>3
    <3>2. (CHOOSE x \in out : TRUE) = e
      BY <3>1
    <3>3. ls[g] = Without(lists[g], e)
      BY <2>3, <3>2 DEF Unlinked
    <3>4. e \in ToSet(lists[g])
      BY <1>1, <2>1, <3>1
    <3>5. /\ ls[g] \in Seq(Keys) /\ IsInjective(ls[g])
          /\ ToSet(ls[g]) = ToSet(lists[g]) \ {e}
      BY <2>1, <3>3, <3>4, KeyIsUnlinked
    <3>6. \A x \in Keys : f[x] = g <=> freq[x] = g /\ x # e
      BY <1>3, <2>2, <3>1
    <3> QED BY <2>1, <3>5, <3>6
  <2>4. CASE ~\E e \in out : freq[e] = g
    <3>1. ls[g] = lists[g]
      BY <2>4 DEF Unlinked
    <3>2. \A x \in Keys : f[x] = g <=> freq[x] = g
      BY <1>3, <2>2, <2>4
    <3> QED BY <2>1, <3>1, <3>2
  <2> QED BY <2>3, <2>4
<1>8. ls \in [Freqs -> Seq(Keys)]
  <2>1. ls = [g \in Freqs |-> ls[g]]
    BY DEF Unlinked
  <2> HIDE DEF ls
  <2> QED BY <1>7, <2>1
<1>9. Sorted(f, ls)
  BY <1>7 DEF Sorted
<1> QED BY <1>3, <1>4, <1>5, <1>6, <1>8, <1>9 DEF f

\* How a new key enters them.
LEMMA NewKeyEnters ==
    ASSUME NEW f \in [Keys -> Nat], NEW ls \in [Freqs -> Seq(Keys)], Sorted(f, ls),
           NEW k \in Keys, f[k] = 0
    PROVE  LET h == [f EXCEPT ![k] = 1]
               next == [ls EXCEPT ![1] = Append(@, k)]
           IN  /\ h \in [Keys -> Nat] /\ next \in [Freqs -> Seq(Keys)]
               /\ Sorted(h, next) /\ Least(h, 1)
               /\ \A x \in Keys : h[x] > 0 <=> f[x] > 0 \/ x = k
               /\ Cardinality(Accesses(h)) = Cardinality(Accesses(f)) + 1
<1> DEFINE h == [f EXCEPT ![k] = 1]
           more == Append(ls[1], k)
           next == [ls EXCEPT ![1] = Append(@, k)]
<1>1. 1 \in Freqs /\ \A x \in Keys : f[x] \in Nat
  BY CacheAssumption DEF Freqs
<1>2. /\ h \in [Keys -> Nat] /\ h[k] = 1
      /\ \A x \in Keys : x # k => h[x] = f[x]
  OBVIOUS
<1>3. Cardinality(Accesses(h)) = Cardinality(Accesses(f)) + 1
  <2>1. f[k] + 1 \in Freqs /\ f[k] + 1 = 1
    BY <1>1
  <2>2. Cardinality(Accesses([f EXCEPT ![k] = f[k] + 1])) = Cardinality(Accesses(f)) + 1
    BY <2>1, OneMoreAccess
  <2> QED BY <2>1, <2>2
<1>4. k \notin ToSet(ls[1]) /\ IsInjective(ls[1]) /\ ls[1] \in Seq(Keys)
  BY <1>1 DEF Sorted
<1>5. more \in Seq(Keys) /\ IsInjective(more) /\ ToSet(more) = ToSet(ls[1]) \cup {k}
  BY <1>4, KeyIsAppended
<1> HIDE DEF more
<1>6. /\ next \in [Freqs -> Seq(Keys)] /\ next[1] = more
      /\ \A g \in Freqs : g # 1 => next[g] = ls[g]
  BY <1>1, <1>5 DEF more
<1> HIDE DEF h, next
<1>7. Sorted(h, next)
  <2> SUFFICES ASSUME NEW g \in Freqs
               PROVE  IsInjective(next[g]) /\ ToSet(next[g]) = {x \in Keys : h[x] = g}
    BY DEF Sorted
  <2>1. IsInjective(ls[g]) /\ ToSet(ls[g]) = {x \in Keys : f[x] = g}
    BY DEF Sorted
  <2>2. g # 0
    BY CacheAssumption DEF Freqs
  <2>3. CASE g = 1
    <3>1. \A x \in Keys : h[x] = g <=> f[x] = g \/ x = k
      BY <1>2, <2>3
    <3>2. IsInjective(next[g]) /\ ToSet(next[g]) = ToSet(ls[g]) \cup {k}
      BY <1>5, <1>6, <2>3
    <3> QED BY <2>1, <3>1, <3>2
  <2>4. CASE g # 1
    <3>1. \A x \in Keys : h[x] = g <=> f[x] = g
      BY <1>2, <2>2, <2>4
    <3> QED BY <1>6, <2>1, <2>4, <3>1
  <2> QED BY <2>3, <2>4
<1>8. Least(h, 1)
  <2>1. \A x \in Keys : h[x] = 0 \/ 1 <= h[x]
    BY <1>1, <1>2
  <2> QED BY <1>2, <2>1 DEF Least
<1>9. \A x \in Keys : h[x] > 0 <=> f[x] > 0 \/ x = k
  BY <1>1, <1>2
<1> QED BY <1>2, <1>3, <1>6, <1>7, <1>8, <1>9 DEF h, next

LEMMA EnterKeeps ==
    ASSUME CacheInv, total < MaxAccesses,
           NEW k \in Keys, k \notin Cached, NEW v \in Values, NEW out, NEW count,
           \/ out = {} /\ count = 0 /\ Cardinality(Cached) < Capacity
           \/ \E e \in Cached : out = {e} /\ count = freq[e],
           Enter(k, v, out, count)
    PROVE  CacheInv' /\ Cached' = (Cached \ out) \cup {k}
<1> DEFINE kept == Cached \ out
           f == [x \in Keys |-> IF x \in kept THEN freq[x] ELSE 0]
           ls == Unlinked(out)
           h == [f EXCEPT ![k] = 1]
           next == [ls EXCEPT ![1] = Append(@, k)]
           S == kept \cup {k}
<1>1. /\ value \in [Keys -> Values \cup {Absent}] /\ Cached \subseteq Keys
      /\ freq \in [Keys -> Nat] /\ minFreq \in Nat \ {0} /\ Absent \notin Values
      /\ total \in Nat /\ Cardinality(Accesses(freq)) <= total
      /\ \A x \in Cached : freq[x] <= total /\ freq[x] \in Nat \ {0}
  BY FrequencyIsBounded, CacheAssumption DEF CacheInv, CacheTypeOK, Cached
<1>2. /\ f \in [Keys -> Nat] /\ ls \in [Freqs -> Seq(Keys)] /\ Sorted(f, ls)
      /\ \A x \in Keys : f[x] > 0 <=> x \in kept
      /\ out = {} => f = freq
      /\ \A e \in Cached : out = {e} => f = [freq EXCEPT ![e] = 0]
  BY OutIsUnlinked
<1>3. /\ value' = [x \in Keys |-> IF x = k THEN v ELSE IF x \in kept THEN value[x] ELSE Absent]
      /\ AddFreqNum(h, next, total - count, Cardinality(kept) + 1)
      /\ minFreq' = LeastAfterPut(MinAfterCount(minFreq))
  BY DEF Enter
<1>4. value' \in [Keys -> Values \cup {Absent}] /\ Cached' = S
  <2>1. value' \in [Keys -> Values \cup {Absent}]
    BY <1>1, <1>3
  <2>2. \A x \in Keys : value'[x] # Absent <=> x = k \/ x \in kept
    BY <1>1, <1>3 DEF Cached
  <2>3. Cached' = {x \in Keys : value'[x] # Absent}
    BY DEF Cached
  <2> QED BY <1>1, <2>1, <2>2, <2>3
<1>5. total - count \in Nat /\ total - count < MaxAccesses /\ count \in Nat
  BY <1>1, CacheAssumption
<1>6. Cardinality(Accesses(f)) <= total - count
  <2>1. Cardinality(Accesses(freq)) \in Nat /\ Cardinality(Accesses(f)) \in Nat
    BY AccessesAreFinite
  <2>2. CASE out = {} /\ count = 0
    BY <1>1, <1>2, <2>1, <2>2
  <2>3. CASE \E e \in Cached : out = {e} /\ count = freq[e]
    <3>1. PICK e \in Cached : out = {e} /\ count = freq[e]
      BY <2>3
    <3>2. f = [freq EXCEPT ![e] = 0]
      BY <1>2, <3>1
    <3>3. freq[e] \in Freqs
      BY <1>1, CacheAssumption DEF Freqs
    <3>4. Cardinality(Accesses([freq EXCEPT ![e] = 0])) = Cardinality(Accesses(freq)) - freq[e]
      BY <1>1, <3>3, DroppedAccesses
    <3> HIDE DEF f
    <3>5. Cardinality(Accesses(f)) = Cardinality(Accesses(freq)) - count
      BY <3>1, <3>2, <3>4
    <3> QED BY <1>1, <1>5, <2>1, <3>5
  <2> QED BY <2>2, <2>3
<1>7. f[k] = 0
  <2>1. f[k] \in Nat /\ k \notin kept
    BY <1>2
  <2> QED BY <1>2, <2>1
<1> HIDE DEF f, ls
<1>8. /\ h \in [Keys -> Nat] /\ next \in [Freqs -> Seq(Keys)]
      /\ Sorted(h, next) /\ Least(h, 1)
      /\ \A x \in Keys : h[x] > 0 <=> f[x] > 0 \/ x = k
      /\ Cardinality(Accesses(h)) = Cardinality(Accesses(f)) + 1
  BY <1>2, <1>7, NewKeyEnters
<1>9. /\ S \in SUBSET Keys /\ S # {} /\ \A x \in Keys : h[x] > 0 <=> x \in S
      /\ Cardinality(Accesses(h)) <= (total - count) + 1
  BY <1>1, <1>2, <1>5, <1>6, <1>8, AccessesAreFinite
<1>10. IsFiniteSet(kept) /\ Cardinality(S) = Cardinality(kept) + 1 /\ Cardinality(kept) \in Nat
  <2>1. IsFiniteSet(kept)
    BY <1>1, CacheAssumption, FS_Subset
  <2>2. k \notin kept
    OBVIOUS
  <2> HIDE DEF kept
  <2> QED BY <2>1, <2>2, FS_AddElement, FS_CardinalityType
<1> HIDE DEF h, next, S
<1>11. /\ freq' \in [Keys -> Nat] /\ lists' \in [Freqs -> Seq(Keys)]
       /\ Sorted(freq', lists')
       /\ \A x \in Keys : freq'[x] > 0 <=> x \in S
       /\ Cardinality(Accesses(freq')) <= total'
       /\ total' = (total - count) + 1 /\ average' \in Int
       /\ IF average' > MaxAverage
          THEN Least(freq', UpdateMinFreq(lists')) /\ UpdateMinFreq(lists') = 1
          ELSE freq' = h
  <2>1. 1 <= MaxAverage + 1 /\ AddFreqNum(h, next, total - count, Cardinality(S))
    BY <1>3, <1>10, AgeingAssumption
  <2> QED BY <1>5, <1>8, <1>9, <2>1, AccessIsCounted
<1>12. Least(freq', minFreq') /\ minFreq' = 1
  <2>1. CASE average' > MaxAverage
    BY <1>3, <1>11, <2>1 DEF LeastAfterPut, MinAfterCount
  <2>2. CASE ~(average' > MaxAverage)
    <3>1. minFreq' = 1
      BY <1>1, <1>3, <2>2 DEF LeastAfterPut, MinAfterCount
    <3> QED BY <1>8, <1>11, <2>2, <3>1
  <2> QED BY <2>1, <2>2
<1>13. Cardinality(S) <= Capacity
  <2>1. IsFiniteSet(Cached) /\ Cardinality(Cached) \in Nat /\ Cardinality(Cached) <= Capacity
    BY <1>1, CacheAssumption, FS_Subset, FS_CardinalityType DEF CacheInv
  <2>2. CASE out = {} /\ Cardinality(Cached) < Capacity
    BY <1>10, <2>1, <2>2, CacheAssumption
  <2>3. CASE \E e \in Cached : out = {e}
    <3>1. PICK e \in Cached : out = {e}
      BY <2>3
    <3>2. Cardinality(Cached \ {e}) = Cardinality(Cached) - 1
      BY <2>1, FS_RemoveElement
    <3> QED BY <1>10, <2>1, <3>1, <3>2, CacheAssumption
  <2> QED BY <2>2, <2>3
<1>14. total' \in Int /\ total' <= MaxAccesses /\ 1 <= MaxAverage
  BY <1>5, <1>11, CacheAssumption, AgeingAssumption
<1>15. CacheTypeOK'
  BY <1>4, <1>11, <1>12, <1>14 DEF CacheTypeOK
<1>16. Sorted(freq, lists)' /\ Least(freq, minFreq)' /\ Cardinality(Accesses(freq))' <= total'
  BY <1>11, <1>12 DEF Sorted, Least, Accesses
<1>17. CacheInv'
  BY <1>4, <1>11, <1>12, <1>13, <1>14, <1>15, <1>16 DEF CacheInv
<1> QED BY <1>4, <1>17 DEF S

-----------------------------------------------------------------------------
(* The cache: puts, and the theorems                                       *)

\* From a full cache the oldest of the least used keys goes.
LEMMA VictimIsLeastUsed ==
    ASSUME CacheInv, Cached # {}
    PROVE  \E e \in Cached : /\ Victims = {e} /\ freq[e] = minFreq
                             /\ e = Head(lists[minFreq])
                             /\ \A x \in Cached : minFreq <= freq[x]
<1>1. /\ minFreq \in Nat \ {0} /\ Least(freq, minFreq)
      /\ lists \in [Freqs -> Seq(Keys)] /\ freq \in [Keys -> Nat]
  BY DEF CacheInv, CacheTypeOK
<1>2. PICK y \in Keys : freq[y] = minFreq
  BY <1>1 DEF Least
<1>3. minFreq \in Freqs
  <2>1. freq[y] <= total /\ total \in Nat /\ total <= MaxAccesses
    BY FrequencyIsBounded DEF CacheInv
  <2> QED BY <1>1, <1>2, <2>1, CacheAssumption DEF Freqs
<1> DEFINE s == lists[minFreq]
<1>4. s \in Seq(Keys) /\ ToSet(s) = {x \in Keys : freq[x] = minFreq}
  BY <1>1, <1>3 DEF CacheInv, Sorted
<1>5. s # <<>>
  BY <1>2, <1>4, ListOfKeys
<1> HIDE DEF s
<1>6. 1 \in DOMAIN s /\ Head(s) = s[1]
  BY <1>4, <1>5
<1>7. Head(s) \in Keys /\ freq[Head(s)] = minFreq
  BY <1>4, <1>6 DEF ToSet
<1>8. Head(s) \in Cached
  <2>1. freq[Head(s)] > 0
    BY <1>1, <1>7
  <2> QED BY <1>7, <2>1 DEF CacheInv
<1>9. Victims = {Head(s)}
  BY <1>3, <1>5 DEF Victims, s
<1>10. \A x \in Cached : minFreq <= freq[x]
  <2> SUFFICES ASSUME NEW x \in Cached PROVE minFreq <= freq[x]
    OBVIOUS
  <2>1. x \in Keys /\ freq[x] > 0 /\ freq[x] \in Nat
    BY <1>1 DEF CacheInv, Cached
  <2> QED BY <1>1, <2>1 DEF Least
<1> QED BY <1>7, <1>8, <1>9, <1>10 DEF s

LEMMA CachedIsFinite ==
    ASSUME CacheInv
    PROVE  /\ IsFiniteSet(Cached) /\ Cardinality(Cached) \in Nat
           /\ Full => Cached # {}
           /\ ~Full => Cardinality(Cached) < Capacity
<1>1. IsFiniteSet(Cached) /\ Cardinality(Cached) \in Nat /\ Capacity \in Nat \ {0}
  BY CacheAssumption, FS_Subset, FS_CardinalityType DEF Cached
<1>2. Cardinality({}) = 0
  BY FS_EmptySet
<1>3. Cardinality(Cached) <= Capacity
  BY DEF CacheInv
<1> QED BY <1>1, <1>2, <1>3 DEF Full

LEMMA GetKeeps ==
    ASSUME CacheInv, NEW k \in Keys, Get(k)
    PROVE  CacheInv' /\ Cached' = Cached
<1>1. k \in Cached /\ total < MaxAccesses /\ GetInternal(k) /\ value' = value
  BY DEF Get
<1>2. Cached' = Cached
  BY <1>1 DEF Cached
<1>3. value' \in [Keys -> Values \cup {Absent}]
  BY <1>1 DEF CacheInv, CacheTypeOK
<1> QED BY <1>1, <1>2, <1>3, HitKeeps

LEMMA PutCachedKeeps ==
    ASSUME CacheInv, NEW k \in Keys, NEW v \in Values, PutCached(k, v)
    PROVE  CacheInv' /\ Cached' = Cached
<1>1. k \in Cached /\ total < MaxAccesses /\ GetInternal(k) /\ value' = [value EXCEPT ![k] = v]
  BY DEF PutCached
<1>2. value \in [Keys -> Values \cup {Absent}] /\ Absent \notin Values
  BY CacheAssumption DEF CacheInv, CacheTypeOK
<1>3. value' \in [Keys -> Values \cup {Absent}]
  BY <1>1, <1>2
<1>4. Cached' = Cached
  <2>1. \A x \in Keys : value'[x] # Absent <=> value[x] # Absent
    BY <1>1, <1>2 DEF Cached
  <2>2. Cached' = {x \in Keys : value'[x] # Absent}
    BY DEF Cached
  <2> QED BY <2>1, <2>2 DEF Cached
<1> QED BY <1>1, <1>3, <1>4, HitKeeps

LEMMA PutNewKeeps ==
    ASSUME CacheInv, NEW k \in Keys, NEW v \in Values, PutNew(k, v)
    PROVE  CacheInv' /\ Cached' = Cached \cup {k}
<1>1. /\ k \notin Cached /\ total < MaxAccesses /\ ~Full
      /\ Enter(k, v, {}, 0)
  BY DEF PutNew
<1>2. CacheInv' /\ Cached' = (Cached \ {}) \cup {k}
  BY <1>1, CachedIsFinite, EnterKeeps
<1> QED BY <1>2

LEMMA PutEvictingKeeps ==
    ASSUME CacheInv, NEW k \in Keys, NEW v \in Values, PutEvicting(k, v)
    PROVE  /\ CacheInv'
           /\ \E e \in Cached : /\ Cached' = (Cached \ {e}) \cup {k}
                                /\ e = Head(lists[freq[e]])
                                /\ \A x \in Cached : freq[e] <= freq[x]
                                /\ Enter(k, v, {e}, freq[e])
<1>1. /\ k \notin Cached /\ total < MaxAccesses /\ Full
      /\ Enter(k, v, Victims, IF Victims = {} THEN 1 ELSE minFreq)
  BY DEF PutEvicting
<1>2. PICK e \in Cached : /\ Victims = {e} /\ freq[e] = minFreq
                          /\ e = Head(lists[minFreq])
                          /\ \A x \in Cached : minFreq <= freq[x]
  BY <1>1, CachedIsFinite, VictimIsLeastUsed
<1>3. Enter(k, v, {e}, freq[e])
  BY <1>1, <1>2
<1>4. CacheInv' /\ Cached' = (Cached \ {e}) \cup {k}
  BY <1>1, <1>3, EnterKeeps
<1> QED BY <1>2, <1>3, <1>4

LEMMA CacheStepKeeps == CacheInv /\ [CacheNext]_cacheVars => CacheInv'
<1> SUFFICES ASSUME CacheInv, [CacheNext]_cacheVars PROVE CacheInv'
  OBVIOUS
<1>1. ASSUME NEW k \in Keys, Get(k) PROVE CacheInv'
  BY <1>1, GetKeeps
<1>2. ASSUME NEW k \in Keys, NEW v \in Values, PutCached(k, v) PROVE CacheInv'
  BY <1>2, PutCachedKeeps
<1>3. ASSUME NEW k \in Keys, NEW v \in Values, PutNew(k, v) PROVE CacheInv'
  BY <1>3, PutNewKeeps
<1>4. ASSUME NEW k \in Keys, NEW v \in Values, PutEvicting(k, v) PROVE CacheInv'
  BY <1>4, PutEvictingKeeps
<1>5. CASE UNCHANGED cacheVars
  BY <1>5 DEF cacheVars, CacheInv, CacheTypeOK, Cached, Sorted, Least, Accesses
<1> QED BY <1>1, <1>2, <1>3, <1>4, <1>5 DEF CacheNext

LEMMA CacheStartsKept == CacheInit => CacheInv
<1> SUFFICES ASSUME CacheInit PROVE CacheInv
  OBVIOUS
<1>1. /\ value = [k \in Keys |-> Absent] /\ freq = [k \in Keys |-> 0]
      /\ lists = [f \in Freqs |-> <<>>] /\ minFreq = Int8Max
      /\ total = 0 /\ average = 0
  BY DEF CacheInit
<1>2. Cached = {} /\ Cardinality(Cached) = 0
  BY <1>1, FS_EmptySet DEF Cached
<1>3. Int8Max \in Nat \ {0}
  BY AgeingAssumption
<1>4. CacheTypeOK
  BY <1>1, <1>3 DEF CacheTypeOK
<1>5. Sorted(freq, lists)
  <2>1. \A k \in Keys, g \in Freqs : freq[k] = 0 /\ g # 0
    BY <1>1, CacheAssumption DEF Freqs
  <2> QED BY <1>1, <2>1 DEF Sorted, IsInjective, ToSet
<1>6. Cardinality(Accesses(freq)) = 0
  <2>1. \A k \in Keys, g \in Freqs : ~(g <= freq[k])
    BY <1>1, CacheAssumption DEF Freqs
  <2>2. Accesses(freq) = {}
    BY <2>1 DEF Accesses
  <2> QED BY <2>2, FS_EmptySet
<1> QED BY <1>1, <1>2, <1>4, <1>5, <1>6, CacheAssumption DEF CacheInv

\* Whatever is put and got, a key has a frequency just while it is cached, each
\* list holds the keys of its frequency once each, the frequencies add up to no
\* more than curTotalNum_, the cache is never over its capacity, and minFreq_ is
\* the least frequency (putInternal, getInternal, kickOut and
\* handleOverMaxAverageNum of LFU.h).
THEOREM CacheInvariant == CacheSpec => []CacheInv
<1> QED BY CacheStartsKept, CacheStepKeeps, PTL DEF CacheSpec

\* kickOut only ever gives up a key that no cached key was used less than, and
\* of those the one that has had its frequency longest (LFU.h:211).
THEOREM EvictionIsLeastUsed == CacheSpec => EvictsLeastUsed
<1> DEFINE Fair == \A k \in Cached \ Cached' :
                      /\ \A x \in Cached : freq[k] <= freq[x]
                      /\ k = Head(lists[freq[k]])
<1>1. ASSUME CacheInv, [CacheNext]_cacheVars PROVE [Fair]_cacheVars
  <2>1. ASSUME NEW k \in Keys, Get(k) PROVE Fair
    BY <1>1, <2>1, GetKeeps
  <2>2. ASSUME NEW k \in Keys, NEW v \in Values, PutCached(k, v) PROVE Fair
    BY <1>1, <2>2, PutCachedKeeps
  <2>3. ASSUME NEW k \in Keys, NEW v \in Values, PutNew(k, v) PROVE Fair
    BY <1>1, <2>3, PutNewKeeps
  <2>4. ASSUME NEW k \in Keys, NEW v \in Values, PutEvicting(k, v) PROVE Fair
    <3>1. PICK e \in Cached : /\ Cached' = (Cached \ {e}) \cup {k}
                              /\ e = Head(lists[freq[e]])
                              /\ \A x \in Cached : freq[e] <= freq[x]
      BY <1>1, <2>4, PutEvictingKeeps
    <3> QED BY <3>1
  <2> QED BY <1>1, <2>1, <2>2, <2>3, <2>4 DEF CacheNext
<1>2. CacheSpec => [][CacheNext]_cacheVars
  BY PTL DEF CacheSpec
<1> QED BY <1>1, <1>2, CacheInvariant, PTL DEF EvictsLeastUsed

\* The cache keeps its promise to the chat path: a read changes no value, a put
\* updates its own key or inserts it while there is room, and at the limit one
\* cached key goes for it (put and get of LFU.h:112-147).
THEOREM CacheKeepsPromise == CacheSpec => RefinesCachePromise
<1>1. CacheInit => Promise!Init
  BY DEF CacheInit, Promise!Init
<1>2. Cached = Promise!Stored
  BY DEF Cached, Promise!Stored
<1>3. Promise!Cardinality(Cached) = Cardinality(Cached)
  BY DEF Promise!Cardinality, Cardinality
<1>4. ASSUME CacheInv, [CacheNext]_cacheVars PROVE [Promise!Next]_value
  <2>1. value \in [Keys -> Values \cup {Absent}]
    BY <1>4 DEF CacheInv, CacheTypeOK
  <2>2. ASSUME NEW k \in Keys, Get(k) PROVE value' = value
    BY <2>2 DEF Get
  <2>3. ASSUME NEW k \in Keys, NEW v \in Values, PutCached(k, v) PROVE Promise!Next
    <3>1. Promise!Update(k, v)
      BY <2>3 DEF PutCached, Cached, Promise!Update
    <3> QED BY <3>1 DEF Promise!Next
  <2>4. ASSUME NEW k \in Keys, NEW v \in Values, PutNew(k, v) PROVE Promise!Next
    <3>1. k \notin Cached /\ ~Full /\ Enter(k, v, {}, 0)
      BY <2>4 DEF PutNew
    <3>2. value' = [x \in Keys |-> IF x = k THEN v
                                   ELSE IF x \in Cached \ {} THEN value[x] ELSE Absent]
      BY <3>1 DEF Enter
    <3>3. value' = [value EXCEPT ![k] = v]
      BY <2>1, <3>2 DEF Cached
    <3>4. value[k] = Absent
      BY <3>1 DEF Cached
    <3>5. Promise!Cardinality(Promise!Stored) < Capacity
      BY <1>2, <1>3, <1>4, <3>1, CachedIsFinite
    <3>6. Promise!Insert(k, v)
      BY <3>3, <3>4, <3>5 DEF Promise!Insert
    <3> QED BY <3>6 DEF Promise!Next
  <2>5. ASSUME NEW k \in Keys, NEW v \in Values, PutEvicting(k, v) PROVE Promise!Next
    <3>1. k \notin Cached /\ Full
      BY <2>5 DEF PutEvicting
    <3>2. PICK e \in Cached : Enter(k, v, {e}, freq[e])
      BY <1>4, <2>5, PutEvictingKeeps
    <3>3. value' = [x \in Keys |-> IF x = k THEN v
                                   ELSE IF x \in Cached \ {e} THEN value[x] ELSE Absent]
      BY <3>2 DEF Enter
    <3>4. value' = [value EXCEPT ![k] = v, ![e] = Absent]
      BY <2>1, <3>1, <3>3 DEF Cached
    <3>5. value[k] = Absent /\ Promise!Cardinality(Promise!Stored) = Capacity /\ e \in Promise!Stored
      BY <1>2, <1>3, <3>1 DEF Cached, Full
    <3>6. Promise!Replace(k, v)
      BY <3>4, <3>5 DEF Promise!Replace
    <3> QED BY <3>6 DEF Promise!Next
  <2> QED BY <1>4, <2>2, <2>3, <2>4, <2>5 DEF CacheNext, cacheVars
<1> QED BY <1>1, <1>4, CacheInvariant, PTL DEF CacheSpec, RefinesCachePromise, Promise!Spec

-----------------------------------------------------------------------------
(* The calls: induction with a set for the predicate                       *)

LEMMA SmallestIsThere ==
    ASSUME NEW T \in SUBSET Nat, T # {}
    PROVE  \E x \in T : \A y \in T : x <= y
<1> DEFINE R == OpToRel(<, Nat)
<1>1. IsWellFoundedOn(R, Nat)
  BY NatLessThanWellFounded
<1>2. \A x, y \in Nat : <<y, x>> \in R <=> y < x
  BY DEF OpToRel
<1> HIDE DEF R
<1>3. PICK x \in T : \A y \in T : ~(<<y, x>> \in R)
  BY <1>1, WFMin
<1>4. ASSUME NEW y \in T PROVE x <= y
  <2>1. x \in Nat /\ y \in Nat /\ ~(y < x)
    BY <1>2, <1>3
  <2> QED BY <2>1
<1> QED BY <1>4

LEMMA AllAreReached ==
    ASSUME NEW T \in SUBSET Nat, 0 \in T, \A n \in T : n + 1 \in T
    PROVE  T = Nat
<1> SUFFICES ASSUME Nat \ T # {} PROVE FALSE
  OBVIOUS
<1>1. PICK x \in Nat \ T : \A y \in Nat \ T : x <= y
  BY SmallestIsThere
<1>2. x - 1 \in Nat /\ x - 1 \in T /\ (x - 1) + 1 = x
  BY <1>1
<1> QED BY <1>1, <1>2

-----------------------------------------------------------------------------
(* The calls: joining sequences                                            *)

\* g holds what FlattenSeq has joined of s after each of the first n.
Joins(g, s, n) ==
    g = [i \in 1..n |-> IF i = 1 THEN s[i] ELSE g[i - 1] \o s[i]]

LEMMA JoinsExist ==
    ASSUME NEW S, NEW s \in Seq(Seq(S))
    PROVE  \E g : Joins(g, s, Len(s)) /\ g \in [1..Len(s) -> Seq(S)]
<1> DEFINE T == {n \in Nat : n <= Len(s) =>
                    \E g : Joins(g, s, n) /\ g \in [1..n -> Seq(S)]}
<1>1. 0 \in T
  <2> DEFINE g == [i \in 1..0 |-> <<>>]
  <2>1. Joins(g, s, 0) /\ g \in [1..0 -> Seq(S)]
    BY DEF Joins
  <2> QED BY <2>1
<1>2. ASSUME NEW n \in T PROVE n + 1 \in T
  <2> SUFFICES ASSUME n + 1 <= Len(s)
               PROVE  \E h : Joins(h, s, n + 1) /\ h \in [1..(n + 1) -> Seq(S)]
    OBVIOUS
  <2>1. PICK g : Joins(g, s, n) /\ g \in [1..n -> Seq(S)]
    BY <1>2
  <2> DEFINE last == IF n = 0 THEN s[1] ELSE g[n] \o s[n + 1]
             h == [i \in 1..(n + 1) |-> IF i = n + 1 THEN last ELSE g[i]]
  <2>2. n \in Nat /\ s[n + 1] \in Seq(S)
    BY <1>2
  <2>3. last \in Seq(S)
    <3>1. CASE n = 0
      BY <2>2, <3>1
    <3>2. CASE n # 0
      <4>1. g[n] \in Seq(S)
        BY <2>1, <2>2, <3>2
      <4> QED BY <2>2, <3>2, <4>1, ConcatProperties
    <3> QED BY <3>1, <3>2
  <2>4. h \in [1..(n + 1) -> Seq(S)]
    BY <2>1, <2>2, <2>3
  <2>5. \A i \in 1..(n + 1) : h[i] = IF i = 1 THEN s[i] ELSE h[i - 1] \o s[i]
    <3> SUFFICES ASSUME NEW i \in 1..(n + 1)
                 PROVE  h[i] = IF i = 1 THEN s[i] ELSE h[i - 1] \o s[i]
      OBVIOUS
    <3>1. CASE i # n + 1
      <4>1. i \in 1..n /\ (i # 1 => i - 1 \in 1..(n + 1) /\ i - 1 # n + 1)
        BY <2>2, <3>1
      <4>2. g[i] = IF i = 1 THEN s[i] ELSE g[i - 1] \o s[i]
        BY <2>1, <4>1 DEF Joins
      <4> QED BY <3>1, <4>1, <4>2
    <3>2. CASE i = n + 1 /\ n # 0
      <4>1. i # 1 /\ i - 1 = n /\ n \in 1..(n + 1) /\ n # n + 1
        BY <2>2, <3>2
      <4> QED BY <3>2, <4>1
    <3>3. CASE i = n + 1 /\ n = 0
      BY <3>3
    <3> QED BY <3>1, <3>2, <3>3
  <2>6. Joins(h, s, n + 1)
    BY <2>4, <2>5 DEF Joins
  <2> QED BY <2>4, <2>6
<1>3. T = Nat
  <2> HIDE DEF T
  <2>1. T \in SUBSET Nat
    BY DEF T
  <2> QED BY <1>1, <1>2, <2>1, AllAreReached
<1>4. Len(s) \in T
  BY <1>3
<1> QED BY <1>4

LEMMA JoinIsFlatten ==
    ASSUME NEW S, NEW s \in Seq(Seq(S)), s # <<>>
    PROVE  /\ Joins(CHOOSE g : Joins(g, s, Len(s)), s, Len(s))
           /\ FlattenSeq(s) = (CHOOSE g : Joins(g, s, Len(s)))[Len(s)]
<1>1. \E g : Joins(g, s, Len(s))
  BY JoinsExist
<1>2. Len(s) # 0
  OBVIOUS
<1>3. FlattenSeq(s) = (CHOOSE g : Joins(g, s, Len(s)))[Len(s)]
  BY <1>2 DEF FlattenSeq, Joins
<1> QED BY <1>1, <1>3

LEMMA JoinsAgree ==
    ASSUME NEW s, NEW t, NEW g, NEW h, NEW n \in Nat, NEW m \in Nat, n <= m,
           \A i \in 1..n : s[i] = t[i],
           Joins(g, s, n), Joins(h, t, m)
    PROVE  \A i \in 1..n : g[i] = h[i]
<1> DEFINE T == {j \in Nat : j + 1 <= n => g[j + 1] = h[j + 1]}
<1>1. /\ \A i \in 1..n : g[i] = IF i = 1 THEN s[i] ELSE g[i - 1] \o s[i]
      /\ \A i \in 1..n : h[i] = IF i = 1 THEN t[i] ELSE h[i - 1] \o t[i]
  <2>1. \A i \in 1..n : g[i] = IF i = 1 THEN s[i] ELSE g[i - 1] \o s[i]
    BY DEF Joins
  <2>2. \A i \in 1..m : h[i] = IF i = 1 THEN t[i] ELSE h[i - 1] \o t[i]
    BY DEF Joins
  <2>3. \A i \in 1..n : i \in 1..m
    OBVIOUS
  <2> QED BY <2>1, <2>2, <2>3
<1>2. 0 \in T
  BY <1>1
<1>3. ASSUME NEW j \in T PROVE j + 1 \in T
  <2> SUFFICES ASSUME (j + 1) + 1 <= n PROVE g[(j + 1) + 1] = h[(j + 1) + 1]
    OBVIOUS
  <2>1. g[j + 1] = h[j + 1] /\ j \in Nat
    OBVIOUS
  <2> DEFINE i == (j + 1) + 1
  <2>2. i \in 1..n /\ i # 1 /\ i - 1 = j + 1
    BY <2>1
  <2> HIDE DEF i
  <2>3. g[i] = g[i - 1] \o s[i] /\ h[i] = h[i - 1] \o t[i] /\ s[i] = t[i]
    BY <1>1, <2>2
  <2>4. g[i] = h[i]
    BY <2>1, <2>2, <2>3
  <2> QED BY <2>4 DEF i
<1>4. T = Nat
  <2> HIDE DEF T
  <2>1. T \in SUBSET Nat
    BY DEF T
  <2> QED BY <1>2, <1>3, <2>1, AllAreReached
<1>5. ASSUME NEW i \in 1..n PROVE g[i] = h[i]
  <2>1. i - 1 \in Nat /\ (i - 1) + 1 = i /\ i <= n
    OBVIOUS
  <2>2. i - 1 \in T
    BY <1>4, <2>1
  <2> HIDE DEF T
  <2>3. (i - 1) + 1 <= n => g[(i - 1) + 1] = h[(i - 1) + 1]
    BY <2>2 DEF T
  <2> QED BY <2>1, <2>3
<1> QED BY <1>5

\* What FlattenSeq joins grows at its end.
LEMMA FlattenGrows ==
    ASSUME NEW S, NEW s \in Seq(Seq(S)), NEW x \in Seq(S)
    PROVE  /\ FlattenSeq(<<>>) = <<>> /\ FlattenSeq(s) \in Seq(S)
           /\ FlattenSeq(Append(s, x)) = FlattenSeq(s) \o x
<1> DEFINE t == Append(s, x)
           n == Len(s)
<1>1. FlattenSeq(<<>>) = <<>>
  BY DEF FlattenSeq
<1>2. /\ t \in Seq(Seq(S)) /\ t # <<>> /\ Len(t) = n + 1 /\ n \in Nat
      /\ t[n + 1] = x /\ \A i \in 1..n : t[i] = s[i]
  BY AppendProperties
<1> HIDE DEF t
<1>3. PICK g : Joins(g, s, n) /\ g \in [1..n -> Seq(S)]
  BY JoinsExist
<1>4. FlattenSeq(s) = IF n = 0 THEN <<>> ELSE g[n]
  <2>1. CASE n = 0
    BY <1>1, <2>1
  <2>2. CASE n # 0
    <3> DEFINE c == CHOOSE h : Joins(h, s, n)
    <3>1. s # <<>>
      BY <2>2
    <3>2. Joins(c, s, n) /\ FlattenSeq(s) = c[n]
      BY <3>1, JoinIsFlatten
    <3> HIDE DEF c
    <3>3. \A i \in 1..n : g[i] = c[i]
      BY <1>2, <1>3, <3>2, JoinsAgree
    <3> QED BY <1>2, <2>2, <3>2, <3>3
  <2> QED BY <2>1, <2>2
<1>5. FlattenSeq(s) \in Seq(S)
  <2>1. CASE n = 0
    BY <1>4, <2>1
  <2>2. CASE n # 0
    <3>1. n \in 1..n
      BY <1>2, <2>2
    <3> QED BY <1>3, <1>4, <2>2, <3>1
  <2> QED BY <2>1, <2>2
<1>6. FlattenSeq(t) = FlattenSeq(s) \o x
  <2> DEFINE h == CHOOSE e : Joins(e, t, n + 1)
  <2>1. Joins(h, t, n + 1) /\ FlattenSeq(t) = h[n + 1]
    BY <1>2, JoinIsFlatten
  <2> HIDE DEF h
  <2>2. h[n + 1] = IF n + 1 = 1 THEN x ELSE h[n + 1 - 1] \o x
    <3>1. \A i \in 1..(n + 1) : h[i] = IF i = 1 THEN t[i] ELSE h[i - 1] \o t[i]
      BY <2>1 DEF Joins
    <3>2. n + 1 \in 1..(n + 1)
      BY <1>2
    <3> QED BY <1>2, <3>1, <3>2
  <2>3. CASE n = 0
    <3>1. FlattenSeq(s) \o x = x
      <4>1. FlattenSeq(s) = <<>>
        BY <1>4, <2>3
      <4> QED BY <4>1
    <3> QED BY <2>1, <2>2, <2>3, <3>1
  <2>4. CASE n # 0
    <3>1. n <= n + 1 /\ n + 1 \in Nat /\ \A i \in 1..n : s[i] = t[i]
      BY <1>2
    <3>2. \A i \in 1..n : g[i] = h[i]
      <4>1. \A i \in 1..n : s[i] = t[i]
        BY <3>1
      <4>2. Joins(g, s, n) /\ Joins(h, t, n + 1)
        BY <1>3, <2>1
      <4> DEFINE m == n + 1
      <4>3. n \in Nat /\ m \in Nat /\ n <= m
        BY <1>2
      <4> HIDE DEF n, m
      <4> QED BY <4>1, <4>2, <4>3, JoinsAgree DEF m
    <3>3. n \in 1..n /\ n + 1 - 1 = n /\ n + 1 # 1
      BY <1>2, <2>4
    <3> QED BY <1>4, <2>1, <2>2, <2>4, <3>2, <3>3
  <2> QED BY <2>3, <2>4
<1> QED BY <1>1, <1>5, <1>6 DEF t

LEMMA LastIsAppended ==
    ASSUME NEW S, NEW n \in Nat, NEW f \in [1..(n + 1) -> S]
    PROVE  /\ [i \in 1..n |-> f[i]] \in Seq(S) /\ f[n + 1] \in S
           /\ f = Append([i \in 1..n |-> f[i]], f[n + 1])
<1> DEFINE s == [i \in 1..n |-> f[i]]
           t == Append(s, f[n + 1])
<1>1. f[n + 1] \in S /\ \A i \in 1..n : i \in 1..(n + 1) /\ f[i] \in S
  OBVIOUS
<1>2. s \in Seq(S) /\ Len(s) = n
  BY <1>1
<1> HIDE DEF s
<1>3. /\ t \in Seq(S) /\ Len(t) = n + 1
      /\ \A i \in 1..n : t[i] = s[i]
      /\ t[n + 1] = f[n + 1]
  BY <1>1, <1>2, AppendProperties
<1> HIDE DEF t
<1>4. DOMAIN t = 1..(n + 1) /\ t = [i \in 1..(n + 1) |-> t[i]]
  BY <1>3
<1>5. \A i \in 1..(n + 1) : i \in 1..n \/ i = n + 1
  OBVIOUS
<1>6. \A i \in 1..(n + 1) : t[i] = f[i]
  BY <1>3, <1>5 DEF s
<1>7. t = f
  BY <1>4, <1>6
<1> QED BY <1>1, <1>2, <1>7 DEF s, t

-----------------------------------------------------------------------------
(* The calls: what the client is shown                                     *)

Byte == Nat \cup (Nat \X Nat \X Nat)
Names == {"delta", "done", "error", "end", "chunk", "200", "400", "500"}
Events == [event : Names, bytes : Seq(Byte)]

BytesOf(e, name) == IF e.event = name THEN e.bytes ELSE <<>>
ShownBy(out, name) == FlattenSeq([i \in DOMAIN out |-> BytesOf(out[i], name)])
ToldBy(out, name) == \E i \in DOMAIN out : out[i].event = name

LEMMA OutShows ==
    ASSUME NEW c
    PROVE  \A name : Shown(c, name) = ShownBy(c.out, name) /\ Told(c, name) = ToldBy(c.out, name)
BY DEF Shown, ShownBy, BytesOf, Told, ToldBy

LEMMA NothingIsShown ==
    ASSUME NEW name
    PROVE  ShownBy(<<>>, name) = <<>> /\ ~ToldBy(<<>>, name)
<1>1. [i \in DOMAIN <<>> |-> BytesOf(<<>>[i], name)] = <<>>
  OBVIOUS
<1> QED BY <1>1 DEF ShownBy, ToldBy, FlattenSeq

LEMMA EventIsShown ==
    ASSUME NEW out \in Seq(Events), NEW e \in Events, NEW name
    PROVE  /\ Append(out, e) \in Seq(Events)
           /\ ShownBy(out, name) \in Seq(Byte)
           /\ ShownBy(Append(out, e), name) = ShownBy(out, name) \o BytesOf(e, name)
           /\ ToldBy(Append(out, e), name) <=> ToldBy(out, name) \/ e.event = name
<1> DEFINE n == Len(out)
           more == Append(out, e)
           f == [i \in DOMAIN more |-> BytesOf(more[i], name)]
           g == [i \in DOMAIN out |-> BytesOf(out[i], name)]
<1>1. /\ more \in Seq(Events) /\ Len(more) = n + 1 /\ more[n + 1] = e
      /\ \A i \in 1..n : more[i] = out[i]
  BY AppendProperties
<1>2. n \in Nat /\ DOMAIN out = 1..n /\ DOMAIN more = 1..(n + 1)
  BY <1>1
<1> HIDE DEF more, n
<1>3. \A x \in Events : BytesOf(x, name) \in Seq(Byte)
  BY DEF Events, BytesOf
<1>4. \A i \in 1..n : out[i] \in Events
  BY <1>2
<1>5. \A i \in 1..(n + 1) : more[i] \in Events
  BY <1>1, <1>2
<1>6. f \in [1..(n + 1) -> Seq(Byte)]
  BY <1>2, <1>3, <1>5
<1>7. [i \in 1..n |-> f[i]] = g
  <2>1. \A i \in 1..n : i \in 1..(n + 1)
    BY <1>2
  <2> QED BY <1>1, <1>2, <2>1
<1>8. f[n + 1] = BytesOf(e, name)
  <2>1. n + 1 \in 1..(n + 1)
    BY <1>2
  <2> QED BY <1>1, <1>2, <2>1
<1> HIDE DEF f, g
<1>9. g \in Seq(Seq(Byte)) /\ f = Append(g, BytesOf(e, name)) /\ BytesOf(e, name) \in Seq(Byte)
  BY <1>2, <1>6, <1>7, <1>8, LastIsAppended
<1>10. FlattenSeq(g) \in Seq(Byte) /\ FlattenSeq(f) = FlattenSeq(g) \o BytesOf(e, name)
  BY <1>9, FlattenGrows
<1>11. ToldBy(more, name) <=> ToldBy(out, name) \/ e.event = name
  <2>1. \A i \in 1..(n + 1) : i \in 1..n \/ i = n + 1
    BY <1>2
  <2>2. n + 1 \in 1..(n + 1) /\ \A i \in 1..n : i \in 1..(n + 1)
    BY <1>2
  <2> QED BY <1>1, <1>2, <2>1, <2>2 DEF ToldBy
<1> QED BY <1>1, <1>10, <1>11 DEF ShownBy, f, g, more

-----------------------------------------------------------------------------
(* The calls: bytes and lines                                              *)

LEMMA BytesAreASeq ==
    ASSUME NEW a \in Nat, NEW b \in Nat, a <= b
    PROVE  /\ Bytes(a, b) \in Seq(Nat) /\ Len(Bytes(a, b)) = b - a
           /\ DOMAIN Bytes(a, b) = 1..(b - a)
           /\ \A i \in 1..(b - a) : Bytes(a, b)[i] = a + i
<1>1. b - a \in Nat /\ \A i \in 1..(b - a) : a + i \in Nat
  OBVIOUS
<1> QED BY <1>1 DEF Bytes

LEMMA BytesFollow ==
    ASSUME NEW a \in Nat, NEW b \in Nat, NEW d \in Nat, a <= b, b <= d
    PROVE  Bytes(a, b) \o Bytes(b, d) = Bytes(a, d)
<1> DEFINE s == Bytes(a, b)
           t == Bytes(b, d)
           u == Bytes(a, d)
<1>1. /\ s \in Seq(Nat) /\ Len(s) = b - a /\ \A i \in 1..(b - a) : s[i] = a + i
      /\ t \in Seq(Nat) /\ Len(t) = d - b /\ \A i \in 1..(d - b) : t[i] = b + i
  BY BytesAreASeq
<1>2. u \in Seq(Nat) /\ Len(u) = d - a /\ \A i \in 1..(d - a) : u[i] = a + i
  <2>1. a <= d
    OBVIOUS
  <2> QED BY <2>1, BytesAreASeq
<1> HIDE DEF s, t, u
<1>3. /\ s \o t \in Seq(Nat) /\ Len(s \o t) = d - a
      /\ \A i \in 1..(d - a) : (s \o t)[i] = IF i <= b - a THEN s[i] ELSE t[i - (b - a)]
  <2>1. Len(s) + Len(t) = d - a
    BY <1>1
  <2>2. /\ s \o t \in Seq(Nat) /\ Len(s \o t) = Len(s) + Len(t)
        /\ \A i \in 1..(Len(s) + Len(t)) :
              (s \o t)[i] = IF i <= Len(s) THEN s[i] ELSE t[i - Len(s)]
    BY <1>1, ConcatProperties
  <2>3. Len(s) = b - a
    BY <1>1
  <2> QED BY <2>1, <2>2, <2>3
<1>4. ASSUME NEW i \in 1..(d - a) PROVE (s \o t)[i] = u[i]
  <2>1. CASE i <= b - a
    <3>1. i \in 1..(b - a)
      BY <2>1
    <3> QED BY <1>1, <1>2, <1>3, <2>1, <3>1
  <2>2. CASE ~(i <= b - a)
    <3> DEFINE j == i - (b - a)
    <3>1. j \in 1..(d - b) /\ b + j = a + i
      BY <2>2
    <3>2. (s \o t)[i] = t[j]
      BY <1>3, <2>2
    <3> HIDE DEF j
    <3> QED BY <1>1, <1>2, <3>1, <3>2
  <2> QED BY <2>1, <2>2
<1>5. s \o t = u
  BY <1>2, <1>3, <1>4, SeqEqual
<1> QED BY <1>5 DEF s, t, u

LEMMA BytesWithin ==
    ASSUME NEW a \in Nat, NEW b \in Nat, NEW x \in Nat, NEW y \in Nat,
           a <= x, x <= y, y <= b
    PROVE  SubSeq(Bytes(a, b), (x - a) + 1, y - a) = Bytes(x, y)
<1> DEFINE i == x - a
           j == y - a
           s == Bytes(a, b)
           t == SubSeq(s, i + 1, j)
           u == Bytes(a + i, a + j)
<1>1. s \in Seq(Nat) /\ Len(s) = b - a /\ \A k \in 1..(b - a) : s[k] = a + k
  <2>1. a <= b
    OBVIOUS
  <2> QED BY <2>1, BytesAreASeq
<1>2. /\ i \in Nat /\ j \in Nat /\ i <= j /\ j <= b - a /\ a <= b
      /\ x = a + i /\ y = a + j
  OBVIOUS
<1> HIDE DEF i, j
<1>3. /\ u \in Seq(Nat) /\ Len(u) = j - i /\ \A k \in 1..(j - i) : u[k] = (a + i) + k
  <2>1. a + i \in Nat /\ a + j \in Nat /\ a + i <= a + j /\ (a + j) - (a + i) = j - i
    BY <1>2
  <2> HIDE DEF u
  <2>2. /\ u \in Seq(Nat) /\ Len(u) = (a + j) - (a + i)
        /\ \A k \in 1..((a + j) - (a + i)) : u[k] = (a + i) + k
    BY <2>1, BytesAreASeq DEF u
  <2> QED BY <2>1, <2>2
<1> HIDE DEF s, u
<1>4. /\ t \in Seq(Nat) /\ Len(t) = j - i
      /\ \A k \in 1..(j - i) : t[k] = s[i + k]
  <2>1. i + 1 \in Int /\ j \in Int /\ \A k \in (i + 1)..j : s[k] \in Nat
    BY <1>1, <1>2
  <2>2. /\ t \in Seq(Nat) /\ Len(t) = IF i + 1 <= j THEN j - (i + 1) + 1 ELSE 0
        /\ \A k \in 1..(j - (i + 1) + 1) : t[k] = s[(i + 1) + k - 1]
    BY <2>1, SubSeqProperties
  <2> HIDE DEF t
  <2> QED BY <1>2, <2>2
<1>5. \A k \in 1..(j - i) : t[k] = u[k]
  <2>1. \A k \in 1..(j - i) : i + k \in 1..(b - a) /\ a + (i + k) = (a + i) + k
    BY <1>2
  <2> QED BY <1>1, <1>3, <1>4, <2>1
<1>6. t = u
  BY <1>3, <1>4, <1>5, SeqEqual
<1> QED BY <1>6, <1>2 DEF i, j, s, t, u

\* The lines of a stream are LineLen bytes each.
LEMMA LinesInOrder ==
    ASSUME NEW m \in Nat
    PROVE  /\ LineLen \in Nat /\ LineLen >= 2
           /\ LineLen * m \in Nat /\ m <= LineLen * m
           /\ LineLen * (m + 1) = LineLen * m + LineLen
           /\ (m + 1) * LineLen = LineLen * m + LineLen
           /\ \A n \in Nat : /\ n <= m => LineLen * n <= LineLen * m
                             /\ n > m => LineLen * m + LineLen <= LineLen * n
<1>1. LineLen \in Nat /\ LineLen >= 2
  BY UpstreamAssumption
<1>2. /\ LineLen * m \in Nat /\ m <= LineLen * m
      /\ LineLen * (m + 1) = LineLen * m + LineLen
      /\ (m + 1) * LineLen = LineLen * m + LineLen
  BY <1>1
<1>3. \A n \in Nat : n <= m => LineLen * n <= LineLen * m
  BY <1>1
<1>4. ASSUME NEW n \in Nat, n > m PROVE LineLen * m + LineLen <= LineLen * n
  <2>1. PICK d \in Nat : n = (m + 1) + d
    BY <1>4, n - (m + 1) \in Nat
  <2>2. LineLen * n = LineLen * m + LineLen + LineLen * d /\ LineLen * d \in Nat
    BY <1>1, <2>1
  <2> QED BY <1>1, <1>2, <2>2
<1> QED BY <1>1, <1>2, <1>3, <1>4

LEMMA NewlineEndsLine ==
    ASSUME NEW m \in Nat, NEW i \in 0..LineLen
    PROVE  /\ i < LineLen => (LineLen * m + i) \div LineLen = m
           /\ i # 0 => (IsNewline(LineLen * m + i) <=> i = LineLen)
<1>1. /\ LineLen \in Nat /\ LineLen >= 2 /\ LineLen * m \in Nat
      /\ LineLen * (m + 1) = LineLen * m + LineLen
  BY LinesInOrder
<1> DEFINE x == LineLen * m + i
           q == x \div LineLen
           r == x % LineLen
<1>2. x \in Nat
  BY <1>1
<1>3. q \in Nat /\ r \in 0..(LineLen - 1) /\ x = LineLen * q + r
  BY <1>1, <1>2
<1>4. CASE i < LineLen
  <2>1. q = m /\ r = i
    <3>1. /\ q < m => LineLen * q + LineLen <= LineLen * m
          /\ q > m => LineLen * m + LineLen <= LineLen * q
      BY <1>3, LinesInOrder
    <3>2. LineLen * q \in Nat
      BY <1>1, <1>3
    <3> HIDE DEF q, r
    <3> QED BY <1>1, <1>3, <1>4, <3>1, <3>2
  <2> QED BY <1>4, <2>1 DEF IsNewline
<1>5. CASE i = LineLen
  <2>1. q = m + 1 /\ r = 0
    <3>1. x = LineLen * (m + 1)
      BY <1>1, <1>5
    <3>2. /\ q < m + 1 => LineLen * q + LineLen <= LineLen * (m + 1)
          /\ q > m + 1 => LineLen * (m + 1) + LineLen <= LineLen * q
      <4> DEFINE p == m + 1
      <4>1. p \in Nat /\ q \in Nat
        BY <1>3
      <4> HIDE DEF p, q
      <4>2. /\ q < p => LineLen * q + LineLen <= LineLen * p
            /\ q > p => LineLen * p + LineLen <= LineLen * q
        BY <4>1, LinesInOrder
      <4> QED BY <4>2 DEF p
    <3>3. LineLen * q \in Nat /\ LineLen * (m + 1) \in Nat
      BY <1>1, <1>3
    <3> HIDE DEF q, r, x
    <3> QED BY <1>1, <1>3, <3>1, <3>2, <3>3
  <2> QED BY <1>5, <2>1 DEF IsNewline
<1> QED BY <1>1, <1>4, <1>5

LEMMA FirstNewline ==
    ASSUME NEW m \in Nat, NEW n \in Nat, LineLen * m <= n
    PROVE  LET text == Bytes(LineLen * m, n)
           IN  /\ n < LineLen * m + LineLen => Newlines(text) = {}
               /\ n >= LineLen * m + LineLen => /\ Newlines(text) # {}
                                                /\ Min(Newlines(text)) = LineLen
<1> DEFINE a == LineLen * m
           text == Bytes(a, n)
<1>1. LineLen \in Nat /\ LineLen >= 2 /\ a \in Nat
  BY LinesInOrder
<1>2. DOMAIN text = 1..(n - a) /\ \A i \in 1..(n - a) : text[i] = a + i
  BY <1>1, BytesAreASeq
<1>3. \A i \in 1..LineLen : IsNewline(a + i) <=> i = LineLen
  <2>1. \A i \in 1..LineLen : i \in 0..LineLen /\ i # 0
    BY <1>1
  <2> QED BY <2>1, NewlineEndsLine
<1> HIDE DEF a, text
<1>4. \A i \in Newlines(text) : i \in 1..(n - a) /\ i >= LineLen
  <2> SUFFICES ASSUME NEW i \in 1..(n - a), IsNewline(a + i) PROVE i >= LineLen
    BY <1>2 DEF Newlines
  <2>1. i < LineLen => i \in 1..LineLen
    BY <1>1
  <2> QED BY <1>1, <1>3, <2>1
<1>5. ASSUME n < a + LineLen PROVE Newlines(text) = {}
  <2>1. \A i \in 1..(n - a) : ~(i >= LineLen)
    BY <1>1, <1>5
  <2> QED BY <1>4, <2>1
<1>6. ASSUME n >= a + LineLen PROVE Newlines(text) # {} /\ Min(Newlines(text)) = LineLen
  <2>1. LineLen \in 1..(n - a) /\ LineLen \in 1..LineLen
    BY <1>1, <1>6
  <2>2. LineLen \in Newlines(text)
    BY <1>2, <1>3, <2>1 DEF Newlines
  <2>3. \A x \in Newlines(text) : LineLen <= x
    BY <1>1, <1>4
  <2>4. \A x \in Newlines(text) : (\A y \in Newlines(text) : x <= y) => x = LineLen
    BY <1>1, <1>4, <2>2
  <2> QED BY <2>2, <2>3, <2>4 DEF Min
<1> QED BY <1>5, <1>6 DEF a, text

-----------------------------------------------------------------------------
(* The calls: the parser                                                   *)

Said(script, m) == FlattenSeq([f \in 1..m |-> Content(script, f)])

\* A piece that is cut between characters.
WholePiece(piece) == Head(piece)[2] = 1 /\ Last(piece)[2] = Last(piece)[3]

\* Events that show text, in pieces that are whole.
Streams(out, text) ==
    /\ out \in Seq(Events)
    /\ \A i \in DOMAIN out : out[i].event = "delta" /\ WholePiece(out[i].bytes)
    /\ ShownBy(out, "delta") = text /\ ShownBy(out, "done") = <<>>

Outcomes == Results \cup {"none", "hit"}

Calls == [kind : {"none", "chat", "agent", "json"}, script : Seq(Frames),
          pc : {"idle", "call", "over"}, got : Nat, pending : Seq(Nat),
          assembled : Seq(Byte), error : BOOLEAN, out : Seq(Events),
          result : Outcomes]

\* c has taken m lines.
Reads(c, m) ==
    /\ c \in Calls
    /\ m \in 0..Len(c.script)
    /\ LineLen * m <= c.got /\ c.got <= LineLen * Len(c.script)
    /\ c.pending = Bytes(LineLen * m, c.got)
    /\ c.assembled = Said(c.script, m)
    /\ c.error <=> \E f \in 1..m : c.script[f].kind = "error"
    /\ Streams(c.out, c.assembled)

LEMMA ContentIsWhole ==
    ASSUME NEW script \in Seq(Frames), NEW f \in 1..Len(script)
    PROVE  /\ script[f].width \in Nat /\ Content(script, f) \in Seq(Byte)
           /\ script[f].kind \in {"delta", "error", "skip"}
           /\ script[f].kind = "delta" <=> script[f].width # 0
           /\ script[f].kind # "delta" => Content(script, f) = <<>>
           /\ script[f].kind = "delta" => WholePiece(Content(script, f))
<1> DEFINE w == script[f].width
           s == Content(script, f)
<1>1. script[f] \in Frames
  OBVIOUS
<1>2. /\ w \in Nat /\ script[f].kind \in {"delta", "error", "skip"}
      /\ script[f].kind = "delta" <=> w # 0
  BY <1>1, UpstreamAssumption DEF Frames
<1>3. s = [j \in 1..w |-> <<f, j, w>>]
  BY DEF Content
<1> HIDE DEF w, s
<1>4. s \in Seq(Byte) /\ Len(s) = w
  <2>1. \A j \in 1..w : <<f, j, w>> \in Byte
    BY <1>2 DEF Byte
  <2> QED BY <1>2, <1>3, <2>1
<1>5. w = 0 => s = <<>>
  BY <1>3
<1>6. ASSUME w # 0 PROVE WholePiece(s)
  <2>1. 1 \in 1..w /\ w \in 1..w
    BY <1>2, <1>6
  <2>2. Head(s) = s[1] /\ Last(s) = s[w]
    BY <1>4, <1>6 DEF Last
  <2>3. Head(s) = <<f, 1, w>> /\ Last(s) = <<f, w, w>>
    BY <1>3, <2>1, <2>2
  <2> QED BY <2>3 DEF WholePiece
<1> QED BY <1>2, <1>4, <1>5, <1>6 DEF w, s

LEMMA SaidGrows ==
    ASSUME NEW script \in Seq(Frames), NEW m \in 0..Len(script)
    PROVE  /\ Said(script, 0) = <<>> /\ Said(script, m) \in Seq(Byte)
           /\ m + 1 <= Len(script) =>
                 Said(script, m + 1) = Said(script, m) \o Content(script, m + 1)
<1> DEFINE of(k) == [f \in 1..k |-> Content(script, f)]
<1>1. \A f \in 1..Len(script) : Content(script, f) \in Seq(Byte)
  BY ContentIsWhole
<1>2. \A f \in 1..m : f \in 1..Len(script)
  OBVIOUS
<1>3. of(0) = <<>>
  OBVIOUS
<1>4. of(m) \in Seq(Seq(Byte))
  BY <1>1, <1>2
<1>5. ASSUME m + 1 <= Len(script) PROVE of(m + 1) = Append(of(m), Content(script, m + 1))
                                        /\ Content(script, m + 1) \in Seq(Byte)
  <2> DEFINE g == of(m + 1)
  <2>1. \A f \in 1..(m + 1) : f \in 1..Len(script)
    BY <1>5
  <2>2. m \in Nat /\ m + 1 \in 1..(m + 1) /\ \A f \in 1..m : f \in 1..(m + 1)
    OBVIOUS
  <2>3. g \in [1..(m + 1) -> Seq(Byte)]
    BY <1>1, <2>1
  <2>4. [f \in 1..m |-> g[f]] = of(m) /\ g[m + 1] = Content(script, m + 1)
    BY <2>2
  <2> HIDE DEF of, g
  <2>5. g = Append([f \in 1..m |-> g[f]], g[m + 1]) /\ g[m + 1] \in Seq(Byte)
    BY <2>2, <2>3, LastIsAppended
  <2> QED BY <2>4, <2>5 DEF g
<1> HIDE DEF of
<1>6. FlattenSeq(of(0)) = <<>> /\ FlattenSeq(of(m)) \in Seq(Byte)
  BY <1>3, <1>4, FlattenGrows
<1>7. ASSUME m + 1 <= Len(script)
      PROVE  FlattenSeq(of(m + 1)) = FlattenSeq(of(m)) \o Content(script, m + 1)
  BY <1>4, <1>5, <1>7, FlattenGrows
<1> QED BY <1>6, <1>7 DEF Said, of

LEMMA EventIsTyped ==
    ASSUME NEW name \in Names, NEW bytes \in Seq(Byte)
    PROVE  /\ Event(name, bytes) \in Events
           /\ Event(name, bytes).event = name /\ Event(name, bytes).bytes = bytes
BY DEF Event, Events

LEMMA StreamGrows ==
    ASSUME NEW out, NEW text, Streams(out, text),
           NEW piece \in Seq(Byte), WholePiece(piece)
    PROVE  Streams(Append(out, Event("delta", piece)), text \o piece)
<1> DEFINE e == Event("delta", piece)
           more == Append(out, e)
<1>1. e \in Events /\ e.event = "delta" /\ e.bytes = piece
  <2>1. "delta" \in Names
    BY DEF Names
  <2> QED BY <2>1, EventIsTyped
<1>2. out \in Seq(Events) /\ ShownBy(out, "delta") = text
      /\ \A i \in DOMAIN out : out[i].event = "delta" /\ WholePiece(out[i].bytes)
  BY DEF Streams
<1> HIDE DEF e
<1>3. /\ more \in Seq(Events)
      /\ ShownBy(more, "delta") = text \o BytesOf(e, "delta")
      /\ ShownBy(more, "done") = ShownBy(out, "done") \o BytesOf(e, "done")
  BY <1>1, <1>2, EventIsShown
<1>4. BytesOf(e, "delta") = piece /\ ShownBy(more, "done") = <<>>
  <2>1. BytesOf(e, "delta") = piece /\ BytesOf(e, "done") = <<>>
    BY <1>1 DEF BytesOf
  <2>2. ShownBy(more, "done") = <<>> \o <<>>
    BY <1>3, <2>1 DEF Streams
  <2> QED BY <2>1, <2>2
<1>5. \A i \in DOMAIN more : (i \in DOMAIN out /\ more[i] = out[i]) \/ more[i] = e
  <2>1. /\ Len(more) = Len(out) + 1 /\ more[Len(out) + 1] = e
        /\ \A i \in 1..Len(out) : more[i] = out[i]
    BY <1>1, <1>2, AppendProperties
  <2>2. Len(out) \in Nat /\ DOMAIN out = 1..Len(out) /\ DOMAIN more = 1..(Len(out) + 1)
    BY <1>2, <1>3, <2>1
  <2> QED BY <2>1, <2>2
<1> QED BY <1>1, <1>2, <1>3, <1>4, <1>5 DEF Streams, e

\* The parser finds the next line just where the script has it.
LEMMA LineIsFound ==
    ASSUME NEW m \in Nat, NEW n \in Nat, LineLen * m + LineLen <= n,
           NEW L \in Nat, m + 1 <= L
    PROVE  LET text == Bytes(LineLen * m, n)
               line == SubSeq(text, 1, LineLen - 1)
           IN  /\ AfterLine(text, LineLen) = Bytes(LineLen * (m + 1), n)
               /\ \A f \in 1..L : IsLine(line, f) <=> f = m + 1
<1> DEFINE a == LineLen * m
           text == Bytes(a, n)
           line == SubSeq(text, 1, LineLen - 1)
<1>1. /\ LineLen \in Nat /\ LineLen >= 2 /\ a \in Nat
      /\ LineLen * (m + 1) = a + LineLen
      /\ (m + 1) * LineLen = a + LineLen
      /\ \A k \in Nat : /\ k > m => a + LineLen <= LineLen * k
  BY LinesInOrder
<1> HIDE DEF a
<1>2. a + LineLen <= n /\ a <= n /\ n - a \in Nat /\ LineLen <= n - a
  BY <1>1 DEF a
<1>3. line = Bytes(a, a + (LineLen - 1))
  <2> DEFINE j == LineLen - 1
  <2>1. j \in Nat /\ 1 <= j + 1 /\ j <= n - a /\ 1 \in Nat \ {0}
    BY <1>1, <1>2
  <2> HIDE DEF j
  <2>2. a \in Nat /\ a <= n
    BY <1>1, <1>2
  <2> DEFINE y == a + j
  <2>3. y \in Nat /\ a <= y /\ y <= n /\ a = a + (1 - 1) /\ y = a + j
    BY <1>2, <2>1, <2>2
  <2> HIDE DEF y
  <2>4. SubSeq(Bytes(a, n), 1, j) = Bytes(a, y)
    BY <2>1, <2>2, <2>3, BytesWithin, SMTT(30)
  <2> QED BY <2>4 DEF j, y
<1>4. AfterLine(text, LineLen) = Bytes(a + LineLen, n)
  <2>1. Len(text) = n - a /\ a + (n - a) = n
    BY <1>1, <1>2, BytesAreASeq
  <2>2. LineLen <= n - a /\ n - a <= n - a
    BY <1>1, <1>2
  <2> DEFINE d == n - a
             l == LineLen + 1
  <2>3. d \in Nat /\ l \in Nat
    BY <1>1, <1>2, <2>2
  <2> DEFINE x == a + LineLen
  <2>4. a \in Nat /\ x \in Nat /\ a <= x /\ x <= n /\ d = n - a /\ l = (x - a) + 1
    BY <1>1, <1>2, <2>3
  <2> HIDE DEF x, d, l
  <2>5. SubSeq(Bytes(a, n), l, d) = Bytes(x, n)
    BY <2>3, <2>4, BytesWithin, SMTT(30)
  <2> QED BY <2>1, <2>5 DEF d, l, x, AfterLine
<1>5. \A f \in 1..L : (f - 1) * LineLen = LineLen * (f - 1) /\ f * LineLen = LineLen * (f - 1) + LineLen
  <2> SUFFICES ASSUME NEW f \in 1..L
               PROVE  (f - 1) * LineLen = LineLen * (f - 1) /\ f * LineLen = LineLen * (f - 1) + LineLen
    OBVIOUS
  <2>1. f - 1 \in Nat /\ (f - 1) + 1 = f
    OBVIOUS
  <2>2. (f - 1) * LineLen = LineLen * (f - 1)
    BY <1>1, <2>1
  <2>3. ((f - 1) + 1) * LineLen = LineLen * (f - 1) + LineLen
    BY <2>1, LinesInOrder
  <2> QED BY <2>1, <2>2, <2>3
<1>6. IsLine(line, m + 1)
  <2>1. ((m + 1) - 1) * LineLen = a /\ (m + 1) * LineLen - 1 = a + (LineLen - 1)
    BY <1>1 DEF a
  <2> HIDE DEF line
  <2> QED BY <1>3, <2>1 DEF IsLine
<1>7. ASSUME NEW f \in 1..L, IsLine(line, f) PROVE f = m + 1
  <2> DEFINE b == LineLen * (f - 1)
  <2>1. f - 1 \in Nat /\ b \in Nat
    BY <1>1, LinesInOrder
  <2>2. /\ f - 1 > m => a + LineLen <= b
        /\ f - 1 < m => b + LineLen <= a
    BY <1>1, <2>1, LinesInOrder DEF a
  <2>3. line = Bytes(b, b + LineLen - 1)
    <3> HIDE DEF line
    <3>1. line = Bytes((f - 1) * LineLen, f * LineLen - 1)
      BY <1>7 DEF IsLine
    <3>2. (f - 1) * LineLen = b /\ f * LineLen - 1 = b + LineLen - 1
      BY <1>1, <1>5
    <3> HIDE DEF b
    <3> QED BY <3>1, <3>2
  <2> HIDE DEF b
  <2>4. line[1] = a + 1
    <3>1. a + (LineLen - 1) \in Nat /\ a <= a + (LineLen - 1)
          /\ 1 \in 1..((a + (LineLen - 1)) - a)
      BY <1>1
    <3> HIDE DEF line
    <3> QED BY <1>1, <1>3, <3>1, BytesAreASeq
  <2>5. line[1] = b + 1
    <3>1. b + LineLen - 1 \in Nat /\ b <= b + LineLen - 1
          /\ 1 \in 1..((b + LineLen - 1) - b)
      BY <1>1, <2>1
    <3> HIDE DEF line
    <3> QED BY <2>1, <2>3, <3>1, BytesAreASeq
  <2>6. a = b
    BY <1>1, <2>1, <2>4, <2>5
  <2> QED BY <1>1, <2>1, <2>2, <2>6
<1>8. m + 1 \in 1..L
  OBVIOUS
<1> HIDE DEF text, line
<1>9. AfterLine(text, LineLen) = Bytes(LineLen * (m + 1), n)
  BY <1>1, <1>4
<1>10. \A f \in 1..L : IsLine(line, f) <=> f = m + 1
  BY <1>6, <1>7, <1>8
<1> QED BY <1>9, <1>10 DEF text, line, a

\* d is c but for what the parser writes.
Parses(c, d) == /\ d.kind = c.kind /\ d.script = c.script /\ d.pc = c.pc
                /\ d.got = c.got /\ d.result = c.result

\* A round of the loop takes one more line, whatever it holds.
LEMMA LineIsHandled ==
    ASSUME NEW m \in Nat, NEW c \in Calls, NEW line, m + 1 \in 1..Len(c.script),
           \A f \in 1..Len(c.script) : IsLine(line, f) <=> f = m + 1,
           c.assembled = Said(c.script, m),
           c.error <=> \E f \in 1..m : c.script[f].kind = "error",
           Streams(c.out, c.assembled)
    PROVE  LET d == HandleLine(c, line)
           IN  /\ d \in Calls /\ Parses(c, d) /\ d.pending = c.pending
               /\ d.assembled = Said(c.script, m + 1)
               /\ d.error <=> \E f \in 1..(m + 1) : c.script[f].kind = "error"
               /\ Streams(d.out, d.assembled)
<1> DEFINE d == HandleLine(c, line)
           g == m + 1
           content == Content(c.script, g)
<1>1. /\ c.script \in Seq(Frames) /\ c.error \in BOOLEAN /\ c.out \in Seq(Events)
      /\ c.assembled \in Seq(Byte)
  BY DEF Calls
<1>2. DOMAIN c.script = 1..Len(c.script) /\ Len(c.script) \in Nat
  BY <1>1
<1>3. (CHOOSE f \in DOMAIN c.script : IsLine(line, f)) = g
  BY <1>2
<1>4. /\ c.script[g].kind \in {"delta", "error", "skip"}
      /\ content \in Seq(Byte)
      /\ c.script[g].kind # "delta" => content = <<>>
      /\ c.script[g].kind = "delta" => WholePiece(content)
  BY <1>1, ContentIsWhole
<1>5. Said(c.script, g) = c.assembled \o content
  <2>1. m \in 0..Len(c.script) /\ m + 1 <= Len(c.script)
    BY <1>2
  <2> QED BY <1>1, <2>1, SaidGrows
<1>6. (\E f \in 1..g : c.script[f].kind = "error") <=> c.error \/ c.script[g].kind = "error"
  <2>1. \A f \in 1..g : f \in 1..m \/ f = g
    OBVIOUS
  <2>2. g \in 1..g /\ \A f \in 1..m : f \in 1..g
    OBVIOUS
  <2> QED BY <2>1, <2>2
<1>7. d = CASE c.script[g].kind = "skip"  -> c
            [] c.script[g].kind = "error" -> [c EXCEPT !.error = TRUE]
            [] c.script[g].kind = "delta" ->
                 Tell([c EXCEPT !.assembled = @ \o content], <<Event("delta", content)>>)
  BY <1>2, <1>3 DEF HandleLine
<1> HIDE DEF d, g, content
<1>8. CASE c.script[g].kind = "skip"
  <2>1. d = c /\ content = <<>>
    BY <1>4, <1>7, <1>8
  <2>2. Said(c.script, g) = c.assembled
    BY <1>1, <1>5, <2>1
  <2> QED BY <1>6, <1>8, <2>1, <2>2 DEF Parses, d, g
<1>9. CASE c.script[g].kind = "error"
  <2>1. d = [c EXCEPT !.error = TRUE] /\ content = <<>>
    BY <1>4, <1>7, <1>9
  <2>2. Said(c.script, g) = c.assembled
    BY <1>1, <1>5, <2>1
  <2>3. /\ d \in Calls /\ Parses(c, d) /\ d.pending = c.pending /\ d.error = TRUE
        /\ d.assembled = c.assembled /\ d.out = c.out
    BY <2>1 DEF Parses, Calls
  <2> QED BY <1>6, <1>9, <2>2, <2>3 DEF d, g
<1>10. CASE c.script[g].kind = "delta"
  <2> DEFINE e == Event("delta", content)
             more == Append(c.out, e)
             text == c.assembled \o content
  <2>1. d = Tell([c EXCEPT !.assembled = @ \o content], <<e>>)
    BY <1>7, <1>10
  <2>2. e \in Events
    <3>1. "delta" \in Names
      BY DEF Names
    <3> QED BY <1>4, <3>1, EventIsTyped
  <2> HIDE DEF e
  <2>3. c.out \o <<e>> = more /\ more \in Seq(Events) /\ text \in Seq(Byte)
    <3>1. c.out \o <<e>> = more
      BY <1>1, <2>2, AppendIsConcat
    <3>2. more \in Seq(Events)
      BY <1>1, <2>2, AppendProperties
    <3>3. text \in Seq(Byte)
      BY <1>1, <1>4, ConcatProperties
    <3> QED BY <3>1, <3>2, <3>3
  <2>4. Streams(more, text)
    BY <1>4, <1>10, StreamGrows DEF e
  <2> HIDE DEF more, text
  <2>5. d = [[c EXCEPT !.assembled = text] EXCEPT !.out = more]
    BY <2>1, <2>3 DEF Tell, Calls, text
  <2>6. /\ d \in Calls /\ Parses(c, d) /\ d.pending = c.pending /\ d.error = c.error
        /\ d.assembled = text /\ d.out = more
    BY <2>3, <2>5 DEF Parses, Calls
  <2> QED BY <1>5, <1>6, <1>10, <2>4, <2>6 DEF d, g, text
<1> QED BY <1>4, <1>8, <1>9, <1>10

LEMMA LineIsTaken ==
    ASSUME NEW m \in Nat, NEW c, Reads(c, m), Newlines(c.pending) # {}
    PROVE  Reads(TakeLine(c), m + 1) /\ Parses(c, TakeLine(c))
<1> DEFINE n == c.got
           L == Len(c.script)
           rest == Bytes(LineLen * (m + 1), n)
           b == [c EXCEPT !.pending = rest]
           line == SubSeq(c.pending, 1, LineLen - 1)
           d == TakeLine(c)
<1>1. /\ c \in Calls /\ n \in Nat /\ L \in Nat /\ m <= L
      /\ LineLen * m <= n /\ n <= LineLen * L
      /\ c.pending = Bytes(LineLen * m, n)
  BY DEF Reads, Calls
<1>2. /\ LineLen \in Nat /\ LineLen * m \in Nat /\ LineLen * L \in Nat
      /\ LineLen * (m + 1) = LineLen * m + LineLen
      /\ LineLen * (m + 1) \in Nat
      /\ L > m => LineLen * m + LineLen <= LineLen * L
      /\ L <= m => LineLen * L <= LineLen * m
  <2> HIDE DEF L, n
  <2>1. L \in Nat /\ m + 1 \in Nat
    BY <1>1
  <2>2. LineLen * L \in Nat /\ LineLen * (m + 1) \in Nat
    BY <2>1, LinesInOrder
  <2>3. /\ LineLen \in Nat /\ LineLen * m \in Nat
        /\ LineLen * (m + 1) = LineLen * m + LineLen
    BY LinesInOrder
  <2>4. /\ L > m => LineLen * m + LineLen <= LineLen * L
        /\ L <= m => LineLen * L <= LineLen * m
    BY <2>1, LinesInOrder
  <2> QED BY <2>2, <2>3, <2>4
<1>3. n >= LineLen * m + LineLen /\ Min(Newlines(c.pending)) = LineLen
  <2>1. /\ n < LineLen * m + LineLen => Newlines(Bytes(LineLen * m, n)) = {}
        /\ n >= LineLen * m + LineLen => Min(Newlines(Bytes(LineLen * m, n))) = LineLen
    BY <1>1, FirstNewline
  <2> QED BY <1>1, <1>2, <2>1
<1>4. m + 1 <= L
  <2>1. LineLen >= 2
    BY UpstreamAssumption
  <2> QED BY <1>1, <1>2, <1>3, <2>1
<1>5. /\ AfterLine(c.pending, LineLen) = rest
      /\ \A f \in 1..L : IsLine(line, f) <=> f = m + 1
  <2>1. LineLen * m + LineLen <= n
    BY <1>1, <1>2, <1>3
  <2> HIDE DEF L, n
  <2> QED BY <1>1, <1>4, <2>1, LineIsFound DEF n
<1>6. d = HandleLine(b, line)
  BY <1>3, <1>5 DEF TakeLine, Calls
<1>7. rest \in Seq(Nat) /\ LineLen * (m + 1) <= n
  <2>1. LineLen * (m + 1) <= n
    BY <1>1, <1>2, <1>3
  <2> QED BY <1>1, <1>2, <2>1, BytesAreASeq
<1> HIDE DEF rest, line
<1>8. b \in Calls /\ b.pending = rest /\ Parses(c, b)
      /\ b.assembled = c.assembled /\ b.error = c.error /\ b.out = c.out
  BY <1>1, <1>7 DEF Calls, Parses
<1> HIDE DEF b, d
<1>9. /\ d \in Calls /\ Parses(b, d) /\ d.pending = b.pending
      /\ d.assembled = Said(b.script, m + 1)
      /\ d.error <=> \E f \in 1..(m + 1) : b.script[f].kind = "error"
      /\ Streams(d.out, d.assembled)
  <2>1. b.script = c.script
    BY <1>8 DEF Parses
  <2>2. m + 1 \in 1..Len(b.script) /\ \A f \in 1..Len(b.script) : IsLine(line, f) <=> f = m + 1
    BY <1>1, <1>4, <1>5, <2>1
  <2>3. /\ b.assembled = Said(b.script, m)
        /\ b.error <=> \E f \in 1..m : b.script[f].kind = "error"
        /\ Streams(b.out, b.assembled)
    BY <1>8, <2>1 DEF Reads
  <2> QED BY <1>6, <1>8, <2>2, <2>3, LineIsHandled
<1>10. Parses(c, d)
  BY <1>8, <1>9 DEF Parses
<1>11. /\ m + 1 \in 0..Len(d.script) /\ LineLen * (m + 1) <= d.got
       /\ d.got <= LineLen * Len(d.script)
       /\ d.pending = Bytes(LineLen * (m + 1), d.got)
  BY <1>1, <1>4, <1>7, <1>8, <1>9, <1>10 DEF Parses, rest
<1> QED BY <1>8, <1>9, <1>10, <1>11 DEF Reads, Parses, d

\* g holds what writeStreamData's loop has made of c after each of k rounds.
Rounds(g, c, k) == g = [n \in 0..k |-> IF n = 0 THEN c ELSE TakeLine(g[n - 1])]

LEMMA RoundsExist ==
    ASSUME NEW c, NEW N \in Nat
    PROVE  \E g : Rounds(g, c, N)
<1> DEFINE T == {k \in Nat : \E g : Rounds(g, c, k)}
<1>1. 0 \in T
  <2> DEFINE g == [n \in 0..0 |-> c]
  <2>1. Rounds(g, c, 0)
    BY DEF Rounds
  <2> QED BY <2>1
<1>2. ASSUME NEW k \in T PROVE k + 1 \in T
  <2>1. PICK g : Rounds(g, c, k)
    OBVIOUS
  <2> DEFINE h == [n \in 0..(k + 1) |-> IF n = k + 1 THEN TakeLine(g[k]) ELSE g[n]]
  <2>2. k \in Nat
    OBVIOUS
  <2>3. \A n \in 0..(k + 1) : h[n] = IF n = 0 THEN c ELSE TakeLine(h[n - 1])
    <3> SUFFICES ASSUME NEW n \in 0..(k + 1)
                 PROVE  h[n] = IF n = 0 THEN c ELSE TakeLine(h[n - 1])
      OBVIOUS
    <3>1. CASE n = k + 1
      <4>1. n # 0 /\ n - 1 = k /\ k \in 0..(k + 1) /\ k # k + 1
        BY <2>2, <3>1
      <4>2. h[n - 1] = g[k]
        BY <4>1
      <4> QED BY <3>1, <4>1, <4>2
    <3>2. CASE n # k + 1
      <4>1. n \in 0..k /\ (n # 0 => n - 1 \in 0..(k + 1) /\ n - 1 # k + 1)
        BY <2>2, <3>2
      <4>2. g[n] = IF n = 0 THEN c ELSE TakeLine(g[n - 1])
        BY <2>1, <4>1 DEF Rounds
      <4> QED BY <3>2, <4>1, <4>2
    <3> QED BY <3>1, <3>2
  <2>4. Rounds(h, c, k + 1)
    BY <2>3 DEF Rounds
  <2> HIDE DEF h
  <2>5. \E e : Rounds(e, c, k + 1)
    BY <2>4
  <2> QED BY <2>2, <2>5
<1>3. T = Nat
  <2> HIDE DEF T
  <2>1. T \in SUBSET Nat
    BY DEF T
  <2> QED BY <1>1, <1>2, <2>1, AllAreReached
<1>4. N \in T
  BY <1>3
<1> QED BY <1>4

\* When no newline is left, what is left is the beginning of a line.
LEMMA NoLineIsLeft ==
    ASSUME NEW m \in Nat, NEW c, Reads(c, m)
    PROVE  /\ Newlines(c.pending) = {} => LinesGot(c) = m
           /\ Newlines(c.pending) # {} => LineLen * m + LineLen <= c.got
<1> DEFINE n == c.got
           i == n - LineLen * m
<1>1. n \in Nat /\ LineLen * m <= n /\ c.pending = Bytes(LineLen * m, n)
  BY DEF Reads, Calls
<1>2. LineLen \in Nat /\ LineLen * m \in Nat
  BY LinesInOrder
<1>3. /\ n < LineLen * m + LineLen => Newlines(c.pending) = {}
      /\ n >= LineLen * m + LineLen => Newlines(c.pending) # {}
  BY <1>1, FirstNewline
<1>4. ASSUME n < LineLen * m + LineLen PROVE LinesGot(c) = m
  <2>1. i \in 0..LineLen /\ i < LineLen /\ n = LineLen * m + i
    BY <1>1, <1>2, <1>4
  <2> HIDE DEF i, n
  <2>2. (LineLen * m + i) \div LineLen = m
    BY <2>1, NewlineEndsLine
  <2> QED BY <2>1, <2>2 DEF LinesGot, n
<1> QED BY <1>1, <1>2, <1>3, <1>4

\* As many rounds as there are bytes leave no complete line.
LEMMA AllLinesAreTaken ==
    ASSUME NEW m \in Nat, NEW c, Reads(c, m), NEW g, Rounds(g, c, Len(c.pending))
    PROVE  LET d == g[Len(c.pending)]
           IN  Parses(c, d) /\ Reads(d, LinesGot(d))
<1> DEFINE N == Len(c.pending)
           Fine(d, n, j) == /\ Reads(d, j) /\ Parses(c, d)
                            /\ j >= m + n \/ Newlines(d.pending) = {}
           T == {n \in Nat : n <= N => \E j \in Nat : Fine(g[n], n, j)}
<1>1. /\ c.got \in Nat /\ LineLen * m <= c.got /\ N = c.got - LineLen * m
      /\ LineLen * m \in Nat /\ LineLen \in Nat /\ N \in Nat
  <2>1. c.got \in Nat /\ LineLen * m <= c.got /\ c.pending = Bytes(LineLen * m, c.got)
    BY DEF Reads, Calls
  <2>2. LineLen * m \in Nat /\ LineLen \in Nat
    BY LinesInOrder
  <2>3. N = c.got - LineLen * m
    BY <2>1, <2>2, BytesAreASeq
  <2> QED BY <2>1, <2>2, <2>3
<1> HIDE DEF N
<1>2. \A n \in 0..N : g[n] = IF n = 0 THEN c ELSE TakeLine(g[n - 1])
  BY DEF N, Rounds
<1>3. 0 \in T
  <2>1. Fine(c, 0, m)
    BY DEF Parses
  <2>2. g[0] = c
    BY <1>1, <1>2
  <2> QED BY <2>1, <2>2
<1>4. ASSUME NEW n \in T PROVE n + 1 \in T
  <2> SUFFICES ASSUME n + 1 <= N PROVE \E j \in Nat : Fine(g[n + 1], n + 1, j)
    <3> HIDE DEF Fine
    <3>1. n + 1 \in Nat
      OBVIOUS
    <3> QED BY <3>1
  <2>1. n \in Nat /\ n <= N /\ n + 1 \in 0..N /\ n + 1 # 0 /\ (n + 1) - 1 = n
    BY <1>1
  <2>2. PICK j \in Nat : Fine(g[n], n, j)
    BY <2>1
  <2>3. g[n + 1] = TakeLine(g[n])
    BY <1>2, <2>1
  <2>4. CASE Newlines(g[n].pending) = {}
    <3>1. g[n + 1] = g[n]
      BY <2>3, <2>4 DEF TakeLine
    <3> QED BY <2>2, <2>4, <3>1
  <2>5. CASE Newlines(g[n].pending) # {}
    <3>1. Reads(g[n + 1], j + 1) /\ Parses(g[n], g[n + 1])
      BY <2>2, <2>3, <2>5, LineIsTaken
    <3>2. Parses(c, g[n + 1])
      BY <2>2, <3>1 DEF Parses
    <3>3. j + 1 >= m + (n + 1) /\ j + 1 \in Nat
      BY <2>1, <2>2, <2>5
    <3> QED BY <3>1, <3>2, <3>3
  <2> QED BY <2>4, <2>5
<1>5. T = Nat
  <2> HIDE DEF T
  <2>1. T \in SUBSET Nat
    BY DEF T
  <2> QED BY <1>3, <1>4, <2>1, AllAreReached
<1>6. PICK j \in Nat : Fine(g[N], N, j)
  <2> HIDE DEF Fine
  <2>1. N \in T
    <3> HIDE DEF T
    <3> QED BY <1>1, <1>5
  <2>2. N <= N => \E j \in Nat : Fine(g[N], N, j)
    BY <2>1
  <2> QED BY <1>1, <2>2
<1>7. Newlines(g[N].pending) = {}
  <2> SUFFICES ASSUME Newlines(g[N].pending) # {} PROVE FALSE
    OBVIOUS
  <2>1. LineLen * j + LineLen <= c.got
    BY <1>6, NoLineIsLeft DEF Parses
  <2>2. j >= m + N
    BY <1>6
  <2>3. LineLen * (m + N) <= LineLen * j /\ LineLen * j \in Nat
    <3>1. m + N \in Nat /\ m + N <= j
      BY <1>1, <2>2
    <3> DEFINE p == m + N
    <3> HIDE DEF p
    <3>2. LineLen * p <= LineLen * j /\ LineLen * j \in Nat
      BY <3>1, LinesInOrder DEF p
    <3> QED BY <3>2 DEF p
  <2>4. LineLen * (m + N) = LineLen * m + LineLen * N
    BY <1>1
  <2>5. N <= LineLen * N /\ LineLen * N \in Nat /\ LineLen >= 2
    BY <1>1, LinesInOrder
  <2> DEFINE a == LineLen * m
             b == LineLen * N
             d == LineLen * j
  <2>6. c.got \in Nat /\ a \in Nat /\ b \in Nat /\ d \in Nat /\ c.got <= a + N
    BY <1>1, <2>3, <2>5
  <2>7. N <= b /\ a + b <= d /\ d + LineLen <= c.got
    BY <2>1, <2>3, <2>4, <2>5
  <2> HIDE DEF a, b, d
  <2> QED BY <1>1, <2>5, <2>6, <2>7
<1>8. Reads(g[N], LinesGot(g[N]))
  BY <1>6, <1>7, NoLineIsLeft
<1> QED BY <1>6, <1>8 DEF N

\* However much arrives, the parser takes every complete line of it.
LEMMA StreamIsParsed ==
    ASSUME NEW c, Reads(c, LinesGot(c)), NEW k \in 1..Left(c)
    PROVE  LET d == WriteStreamData(c, k)
           IN  /\ Parses([c EXCEPT !.got = c.got + k], d)
               /\ Reads(d, LinesGot(d))
<1> DEFINE m == LinesGot(c)
           n == c.got
           L == Len(c.script)
           text == c.pending \o Bytes(n, n + k)
           fed == [c EXCEPT !.got = n + k, !.pending = text]
           N == Len(fed.pending)
<1>1. /\ c \in Calls /\ n \in Nat /\ L \in Nat /\ m \in 0..L /\ LineLen * m <= n
      /\ n <= LineLen * L /\ c.pending = Bytes(LineLen * m, n)
  BY DEF Reads, Calls
<1>2. LineLen * m \in Nat /\ LineLen \in Nat /\ LineLen * L = L * LineLen
  <2>1. m \in Nat /\ L \in Nat
    BY <1>1
  <2> HIDE DEF m, L
  <2>2. LineLen * m \in Nat /\ LineLen \in Nat
    BY <2>1, LinesInOrder
  <2> QED BY <2>1, <2>2
<1>3. k \in Nat /\ n + k \in Nat /\ n + k <= LineLen * L /\ n <= n + k
  <2>1. LineLen * L \in Nat
    BY <1>1, LinesInOrder
  <2>2. Left(c) = LineLen * L - n
    BY <1>2 DEF Left
  <2> HIDE DEF n, L
  <2> QED BY <1>1, <2>1, <2>2
<1>4. text = Bytes(LineLen * m, n + k) /\ text \in Seq(Nat)
  <2> DEFINE a == LineLen * m
             b == n + k
  <2>1. /\ a \in Nat /\ b \in Nat /\ n \in Nat /\ a <= n /\ n <= b /\ a <= b
    BY <1>1, <1>2, <1>3
  <2> HIDE DEF a, b, n, m
  <2>2. Bytes(a, n) \o Bytes(n, b) = Bytes(a, b) /\ Bytes(a, b) \in Seq(Nat)
    BY <2>1, BytesFollow, BytesAreASeq
  <2> QED BY <1>1, <2>2 DEF a, b
<1> HIDE DEF text
<1>5. /\ fed \in Calls /\ fed.got = n + k /\ fed.pending = text
      /\ fed.script = c.script /\ fed.assembled = c.assembled
      /\ fed.error = c.error /\ fed.out = c.out
      /\ Parses([c EXCEPT !.got = n + k], fed)
  BY <1>1, <1>3, <1>4 DEF Calls, Parses
<1> HIDE DEF fed
<1>6. Reads(fed, m)
  <2>1. LineLen * m <= n + k
    BY <1>1, <1>2, <1>3
  <2>2. /\ m \in 0..Len(fed.script) /\ fed.got <= LineLen * Len(fed.script)
        /\ fed.assembled = Said(fed.script, m)
        /\ fed.error <=> \E f \in 1..m : fed.script[f].kind = "error"
        /\ Streams(fed.out, fed.assembled)
    BY <1>1, <1>3, <1>5 DEF Reads
  <2> QED BY <1>4, <1>5, <2>1, <2>2 DEF Reads
<1> DEFINE g == CHOOSE h : Rounds(h, fed, N)
<1>7. Rounds(g, fed, N)
  <2>1. N \in Nat
    BY <1>4, <1>5
  <2> HIDE DEF N
  <2>2. \E h : Rounds(h, fed, N)
    BY <2>1, RoundsExist
  <2> QED BY <2>2
<1>8. WriteStreamData(c, k) = g[N]
  BY <1>1 DEF WriteStreamData, fed, text, Calls, Rounds
<1>9. Parses(fed, g[N]) /\ Reads(g[N], LinesGot(g[N]))
  <2>1. m \in Nat
    BY <1>1
  <2> HIDE DEF g, m
  <2> QED BY <1>6, <1>7, <2>1, AllLinesAreTaken
<1>10. Parses([c EXCEPT !.got = n + k], g[N])
  BY <1>5, <1>9 DEF Parses
<1> QED BY <1>8, <1>9, <1>10

-----------------------------------------------------------------------------
(* The calls: whole characters                                             *)

\* A text of whole characters: each begins with its first byte and ends with
\* its last.
WholeText(s) ==
    /\ s \in Seq(Nat \X (Nat \ {0}) \X Nat)
    /\ Len(s) > 0 => s[1][2] = 1
    /\ \A i \in 1..Len(s) : s[i][2] = s[i][3] <=> (i < Len(s) => s[i + 1][2] = 1)

LEMMA ContentIsText ==
    ASSUME NEW script \in Seq(Frames), NEW f \in 1..Len(script)
    PROVE  WholeText(Content(script, f))
<1> DEFINE w == script[f].width
           s == Content(script, f)
<1>1. w \in Nat
  BY ContentIsWhole
<1>2. s = [j \in 1..w |-> <<f, j, w>>] /\ f \in Nat
  BY DEF Content
<1> HIDE DEF w, s
<1>3. s \in Seq(Nat \X (Nat \ {0}) \X Nat) /\ Len(s) = w
  <2>1. \A j \in 1..w : <<f, j, w>> \in Nat \X (Nat \ {0}) \X Nat
    BY <1>1, <1>2
  <2> QED BY <1>1, <1>2, <2>1
<1>4. \A i \in 1..w : s[i][2] = i /\ s[i][3] = w
  BY <1>1, <1>2
<1>5. w > 0 => s[1][2] = 1
  BY <1>1, <1>4
<1>6. ASSUME NEW i \in 1..w PROVE s[i][2] = s[i][3] <=> (i < w => s[i + 1][2] = 1)
  <2>1. CASE i = w
    BY <1>1, <1>4, <2>1
  <2>2. CASE i # w
    <3>1. i + 1 \in 1..w /\ i < w /\ i + 1 # 1
      BY <1>1, <2>2
    <3> QED BY <1>4, <2>2, <3>1
  <2> QED BY <2>1, <2>2
<1> QED BY <1>3, <1>5, <1>6 DEF WholeText, s

LEMMA TextsJoin ==
    ASSUME NEW s, NEW t, WholeText(s), WholeText(t)
    PROVE  WholeText(s \o t)
<1> DEFINE C == Nat \X (Nat \ {0}) \X Nat
           u == s \o t
           n == Len(s)
           k == Len(t)
<1>1. s \in Seq(C) /\ t \in Seq(C) /\ n \in Nat /\ k \in Nat
  BY DEF WholeText
<1>2. /\ u \in Seq(C) /\ Len(u) = n + k
      /\ \A i \in 1..(n + k) : u[i] = IF i <= n THEN s[i] ELSE t[i - n]
  BY <1>1, ConcatProperties
<1>3. /\ n > 0 => s[1][2] = 1
      /\ k > 0 => t[1][2] = 1
      /\ \A i \in 1..n : s[i][2] = s[i][3] <=> (i < n => s[i + 1][2] = 1)
      /\ \A i \in 1..k : t[i][2] = t[i][3] <=> (i < k => t[i + 1][2] = 1)
  BY DEF WholeText
<1> HIDE DEF u, n, k, C
<1>4. n + k > 0 => u[1][2] = 1
  <2>1. CASE n > 0
    BY <1>1, <1>2, <1>3, <2>1
  <2>2. CASE n = 0 /\ k > 0
    BY <1>1, <1>2, <1>3, <2>2
  <2> QED BY <1>1, <2>1, <2>2
<1>5. ASSUME NEW i \in 1..(n + k)
      PROVE  u[i][2] = u[i][3] <=> (i < n + k => u[i + 1][2] = 1)
  <2>1. CASE i < n
    <3>1. i \in 1..n /\ i + 1 \in 1..(n + k) /\ i + 1 <= n /\ i <= n /\ i < n + k
      BY <1>1, <2>1
    <3>2. u[i] = s[i] /\ u[i + 1] = s[i + 1]
      BY <1>2, <3>1
    <3> QED BY <1>3, <2>1, <3>1, <3>2
  <2>2. CASE i = n
    <3>1. i \in 1..n /\ i <= n /\ ~(i < n)
      BY <1>1, <2>2
    <3>2. u[i] = s[i] /\ s[i][2] = s[i][3]
      BY <1>2, <1>3, <3>1
    <3>3. k > 0 => u[i + 1][2] = 1
      <4> SUFFICES ASSUME k > 0 PROVE u[i + 1][2] = 1
        OBVIOUS
      <4>1. i + 1 \in 1..(n + k) /\ ~(i + 1 <= n) /\ (i + 1) - n = 1
        BY <1>1, <2>2
      <4> QED BY <1>2, <1>3, <4>1
    <3>4. i < n + k => k > 0
      BY <1>1, <2>2
    <3> QED BY <3>2, <3>3, <3>4
  <2>3. CASE i > n
    <3> DEFINE j == i - n
    <3>1. j \in 1..k /\ ~(i <= n) /\ (i < n + k <=> j < k)
      BY <1>1, <2>3
    <3>2. u[i] = t[j]
      BY <1>2, <3>1
    <3>3. i < n + k => u[i + 1] = t[j + 1]
      <4> SUFFICES ASSUME i < n + k PROVE u[i + 1] = t[j + 1]
        OBVIOUS
      <4>1. i + 1 \in 1..(n + k) /\ ~(i + 1 <= n) /\ (i + 1) - n = j + 1
        BY <1>1, <2>3
      <4> HIDE DEF j
      <4> QED BY <1>2, <4>1
    <3> HIDE DEF j
    <3> QED BY <1>3, <3>1, <3>2, <3>3
  <2> QED BY <1>1, <2>1, <2>2, <2>3
<1> QED BY <1>2, <1>4, <1>5 DEF WholeText, u, C

\* What a stream says is a text of whole characters.
LEMMA SaidIsText ==
    ASSUME NEW script \in Seq(Frames), NEW m \in 0..Len(script)
    PROVE  WholeText(Said(script, m))
<1> DEFINE T == {k \in Nat : k <= Len(script) => WholeText(Said(script, k))}
<1>1. Len(script) \in Nat
  OBVIOUS
<1>2. 0 \in T
  <2>1. Said(script, 0) = <<>>
    BY <1>1, SaidGrows
  <2>2. WholeText(<<>>)
    BY DEF WholeText
  <2>3. 0 <= Len(script) => WholeText(Said(script, 0))
    BY <2>1, <2>2
  <2> QED BY <2>3
<1>3. ASSUME NEW k \in T PROVE k + 1 \in T
  <2> SUFFICES ASSUME k + 1 <= Len(script) PROVE WholeText(Said(script, k + 1))
    OBVIOUS
  <2>1. k \in 0..Len(script) /\ k + 1 \in 1..Len(script)
    BY <1>1
  <2>2. WholeText(Said(script, k)) /\ WholeText(Content(script, k + 1))
    BY <2>1, ContentIsText
  <2>3. Said(script, k + 1) = Said(script, k) \o Content(script, k + 1)
    BY <2>1, SaidGrows
  <2> QED BY <2>2, <2>3, TextsJoin
<1>4. T = Nat
  <2> HIDE DEF T
  <2>1. T \in SUBSET Nat
    BY DEF T
  <2> QED BY <1>2, <1>3, <2>1, AllAreReached
<1>5. m \in T
  BY <1>1, <1>4
<1> QED BY <1>5

-----------------------------------------------------------------------------
(* The calls: the cached answer in pieces                                  *)

\* A cut at a boundary ends at the next one.
LEMMA CutEndsWhole ==
    ASSUME NEW s, WholeText(s), NEW pos \in 0..Len(s), pos < Len(s), s[pos + 1][2] = 1
    PROVE  LET next == NextUtf8Boundary(s, pos)
               piece == SubSeq(s, pos + 1, next)
           IN  /\ next \in (pos + 1)..Len(s)
               /\ next < Len(s) => s[next + 1][2] = 1
               /\ piece \in Seq(Byte) /\ WholePiece(piece)
               /\ SubSeq(s, 1, pos) \o piece = SubSeq(s, 1, next)
<1> DEFINE C == Nat \X (Nat \ {0}) \X Nat
           n == Len(s)
           low == Min({pos + ChunkBytes, n})
           B == {next \in low..n : next < n => ~IsContinuation(s[next + 1])}
           next == NextUtf8Boundary(s, pos)
           piece == SubSeq(s, pos + 1, next)
<1>1. /\ s \in Seq(C) /\ n \in Nat /\ \A i \in 1..n : s[i] \in C /\ s[i][2] \in Nat \ {0}
      /\ \A i \in 1..n : s[i][2] = s[i][3] <=> (i < n => s[i + 1][2] = 1)
  BY SMTT(30) DEF WholeText
<1>2. ChunkBytes \in Nat /\ ChunkBytes > 0
  BY UpstreamAssumption
<1> HIDE DEF n, C
<1>3. pos \in Nat /\ pos < n
  BY <1>1 DEF n
<1>4. low \in Nat /\ pos < low /\ low <= n
  <2> DEFINE x == pos + ChunkBytes
             least == IF x <= n THEN x ELSE n
  <2>1. x \in Nat /\ pos < x
    BY <1>2, <1>3
  <2>2. least \in {x, n} /\ (\A y \in {x, n} : least <= y)
    BY <1>1, <2>1
  <2>3. \A y \in {x, n} : (\A z \in {x, n} : y <= z) => y = least
    BY <1>1, <2>1
  <2>4. Min({x, n}) = least
    <3> HIDE DEF x, least
    <3> QED BY <2>2, <2>3 DEF Min
  <2> QED BY <1>1, <1>3, <2>1, <2>4
<1> HIDE DEF low
<1>5. n \in B /\ B \in SUBSET Nat
  BY <1>1, <1>4
<1>6. next \in B
  <2>1. PICK x \in B : \A y \in B : x <= y
    <3> HIDE DEF B
    <3> QED BY <1>5, SmallestIsThere
  <2>2. next = Min(B)
    BY DEF NextUtf8Boundary, low, n
  <2> HIDE DEF B, next
  <2> QED BY <2>1, <2>2 DEF Min
<1>7. next \in (pos + 1)..n /\ next \in Nat
  BY <1>1, <1>3, <1>4, <1>6
<1>8. next < n => ~IsContinuation(s[next + 1])
  BY <1>6
<1> HIDE DEF next, B
<1>9. next < n => s[next + 1][2] = 1
  <2> SUFFICES ASSUME next < n PROVE s[next + 1][2] = 1
    OBVIOUS
  <2>1. next + 1 \in 1..n
    BY <1>1, <1>7
  <2>2. s[next + 1][2] \in Nat \ {0} /\ ~(s[next + 1][2] > 1)
    BY <1>1, <1>8, <2>1 DEF IsContinuation
  <2> QED BY <2>2
<1>10. /\ piece \in Seq(C) /\ Len(piece) = next - pos
       /\ \A i \in 1..(next - pos) : piece[i] = s[pos + i]
  <2>1. pos + 1 \in Int /\ next \in Int /\ \A i \in (pos + 1)..next : s[i] \in C
    BY <1>1, <1>3, <1>7
  <2>2. /\ piece \in Seq(C)
        /\ Len(piece) = IF pos + 1 <= next THEN next - (pos + 1) + 1 ELSE 0
        /\ \A i \in 1..(next - (pos + 1) + 1) : piece[i] = s[(pos + 1) + i - 1]
    BY <2>1, SubSeqProperties
  <2>3. next - (pos + 1) + 1 = next - pos /\ pos + 1 <= next
    BY <1>3, <1>7
  <2>4. \A i \in 1..(next - pos) : (pos + 1) + i - 1 = pos + i
    BY <1>3, <1>7
  <2> HIDE DEF piece
  <2>5. piece \in Seq(C) /\ Len(piece) = next - pos
    BY <2>2, <2>3
  <2>6. \A i \in 1..(next - pos) : piece[i] = s[pos + i]
    BY <2>2, <2>3, <2>4
  <2> QED BY <2>5, <2>6
<1> HIDE DEF piece
<1>11. WholePiece(piece)
  <2> DEFINE k == next - pos
  <2>1. k \in Nat /\ 1 \in 1..k /\ k \in 1..k /\ pos + k = next /\ k # 0
    BY <1>3, <1>7
  <2>2. Head(piece) = piece[1] /\ Last(piece) = piece[k]
    BY <1>10, <2>1 DEF Last
  <2>3. piece[1] = s[pos + 1] /\ piece[k] = s[next]
    BY <1>10, <2>1
  <2>4. s[next][2] = s[next][3]
    <3>1. next \in 1..n
      BY <1>3, <1>7
    <3> QED BY <1>1, <1>9, <3>1
  <2> QED BY <2>2, <2>3, <2>4 DEF WholePiece
<1>12. piece \in Seq(Byte)
  <2>1. C \subseteq Byte
    BY DEF C, Byte
  <2>2. \A i \in 1..Len(piece) : piece[i] \in Byte
    BY <1>10, <2>1
  <2>3. piece = [i \in 1..Len(piece) |-> piece[i]] /\ Len(piece) \in Nat
    BY <1>10
  <2> QED BY <2>2, <2>3
<1>13. SubSeq(s, 1, pos) \o piece = SubSeq(s, 1, next)
  <2> DEFINE a == SubSeq(s, 1, pos)
             b == SubSeq(s, 1, next)
  <2>1. /\ a \in Seq(C) /\ Len(a) = pos /\ \A i \in 1..pos : a[i] = s[i]
    <3>1. 1 \in Int /\ pos \in Int /\ \A i \in 1..pos : s[i] \in C
      BY <1>1, <1>3
    <3>2. /\ a \in Seq(C) /\ Len(a) = IF 1 <= pos THEN pos - 1 + 1 ELSE 0
          /\ \A i \in 1..(pos - 1 + 1) : a[i] = s[1 + i - 1]
      BY <3>1, SubSeqProperties
    <3> HIDE DEF a
    <3> QED BY <1>3, <3>2
  <2>2. /\ b \in Seq(C) /\ Len(b) = next /\ \A i \in 1..next : b[i] = s[i]
    <3>1. 1 \in Int /\ next \in Int /\ \A i \in 1..next : s[i] \in C
      BY <1>1, <1>3, <1>7
    <3>2. /\ b \in Seq(C) /\ Len(b) = IF 1 <= next THEN next - 1 + 1 ELSE 0
          /\ \A i \in 1..(next - 1 + 1) : b[i] = s[1 + i - 1]
      BY <3>1, SubSeqProperties
    <3> HIDE DEF b
    <3> QED BY <1>7, <3>2
  <2> HIDE DEF a, b
  <2>3. /\ a \o piece \in Seq(C) /\ Len(a \o piece) = next
        /\ \A i \in 1..next : (a \o piece)[i] = IF i <= pos THEN a[i] ELSE piece[i - pos]
    <3>1. /\ a \o piece \in Seq(C) /\ Len(a \o piece) = Len(a) + Len(piece)
          /\ \A i \in 1..(Len(a) + Len(piece)) :
                (a \o piece)[i] = IF i <= Len(a) THEN a[i] ELSE piece[i - Len(a)]
      BY <1>10, <2>1, ConcatProperties
    <3>2. Len(a) + Len(piece) = next /\ Len(a) = pos
      BY <1>3, <1>7, <1>10, <2>1
    <3> QED BY <3>1, <3>2
  <2>4. ASSUME NEW i \in 1..next PROVE (a \o piece)[i] = b[i]
    <3>1. CASE i <= pos
      <4>1. i \in 1..pos
        BY <1>3, <3>1
      <4> QED BY <2>1, <2>2, <2>3, <3>1, <4>1
    <3>2. CASE ~(i <= pos)
      <4> DEFINE j == i - pos
      <4>1. j \in 1..(next - pos) /\ pos + j = i
        BY <1>3, <1>7, <3>2
      <4>2. (a \o piece)[i] = piece[j]
        BY <2>3, <3>2
      <4> HIDE DEF j
      <4> QED BY <1>10, <2>2, <4>1, <4>2
    <3> QED BY <3>1, <3>2
  <2>5. a \o piece = b
    BY <2>2, <2>3, <2>4, SeqEqual
  <2> QED BY <2>5 DEF a, b
<1> QED BY <1>7, <1>9, <1>11, <1>12, <1>13 DEF n, next, piece

\* at has shown s up to a boundary.
CutUpTo(s, at) ==
    /\ at.pos \in 0..Len(s)
    /\ at.pos < Len(s) => s[at.pos + 1][2] = 1
    /\ Streams(at.out, SubSeq(s, 1, at.pos))

LEMMA CutGoesOn ==
    ASSUME NEW s, WholeText(s), NEW at, CutUpTo(s, at)
    PROVE  /\ CutUpTo(s, Cut(s, at))
           /\ at.pos # Len(s) => Cut(s, at).pos > at.pos
           /\ at.pos = Len(s) => Cut(s, at) = at
<1>1. CASE at.pos = Len(s)
  BY <1>1 DEF Cut
<1>2. CASE at.pos # Len(s)
  <2> DEFINE pos == at.pos
             next == NextUtf8Boundary(s, pos)
             piece == SubSeq(s, pos + 1, next)
             more == Append(at.out, Event("delta", piece))
  <2>1. Len(s) \in Nat
    BY DEF WholeText
  <2>2. pos \in 0..Len(s) /\ pos < Len(s) /\ s[pos + 1][2] = 1
    BY <1>2, <2>1 DEF CutUpTo
  <2>3. Cut(s, at) = [pos |-> next, out |-> more]
    BY <1>2 DEF Cut
  <2> HIDE DEF pos
  <2>4. /\ next \in (pos + 1)..Len(s)
        /\ next < Len(s) => s[next + 1][2] = 1
        /\ piece \in Seq(Byte) /\ WholePiece(piece)
        /\ SubSeq(s, 1, pos) \o piece = SubSeq(s, 1, next)
    BY <2>2, CutEndsWhole
  <2> HIDE DEF next, piece
  <2>5. Streams(at.out, SubSeq(s, 1, pos))
    BY DEF CutUpTo, pos
  <2>6. Streams(more, SubSeq(s, 1, next))
    BY <2>4, <2>5, StreamGrows
  <2> HIDE DEF more
  <2>7. next \in 0..Len(s) /\ next > pos
    BY <2>1, <2>2, <2>4
  <2> QED BY <1>2, <2>3, <2>4, <2>6, <2>7 DEF CutUpTo, pos
<1> QED BY <1>1, <1>2

\* g holds what Pieces' loop has made of s after each of k rounds.
Cuts(g, s, k) ==
    g = [n \in 0..k |-> IF n = 0 THEN [pos |-> 0, out |-> <<>>] ELSE Cut(s, g[n - 1])]

LEMMA CutsExist ==
    ASSUME NEW s, NEW N \in Nat
    PROVE  \E g : Cuts(g, s, N)
<1> DEFINE at == [pos |-> 0, out |-> <<>>]
           T == {k \in Nat : \E g : Cuts(g, s, k)}
<1>1. 0 \in T
  <2> DEFINE g == [n \in 0..0 |-> at]
  <2>1. Cuts(g, s, 0)
    BY DEF Cuts
  <2> QED BY <2>1
<1>2. ASSUME NEW k \in T PROVE k + 1 \in T
  <2>1. PICK g : Cuts(g, s, k)
    OBVIOUS
  <2> DEFINE h == [n \in 0..(k + 1) |-> IF n = k + 1 THEN Cut(s, g[k]) ELSE g[n]]
  <2>2. k \in Nat
    OBVIOUS
  <2>3. \A n \in 0..(k + 1) : h[n] = IF n = 0 THEN at ELSE Cut(s, h[n - 1])
    <3> SUFFICES ASSUME NEW n \in 0..(k + 1)
                 PROVE  h[n] = IF n = 0 THEN at ELSE Cut(s, h[n - 1])
      OBVIOUS
    <3>1. CASE n = k + 1
      <4>1. n # 0 /\ n - 1 = k /\ k \in 0..(k + 1) /\ k # k + 1
        BY <2>2, <3>1
      <4>2. h[n - 1] = g[k]
        BY <4>1
      <4> QED BY <3>1, <4>1, <4>2
    <3>2. CASE n # k + 1
      <4>1. n \in 0..k /\ (n # 0 => n - 1 \in 0..(k + 1) /\ n - 1 # k + 1)
        BY <2>2, <3>2
      <4>2. g[n] = IF n = 0 THEN at ELSE Cut(s, g[n - 1])
        BY <2>1, <4>1 DEF Cuts
      <4> QED BY <3>2, <4>1, <4>2
    <3> QED BY <3>1, <3>2
  <2>4. Cuts(h, s, k + 1)
    BY <2>3 DEF Cuts
  <2> HIDE DEF h
  <2>5. \E e : Cuts(e, s, k + 1)
    BY <2>4
  <2> QED BY <2>2, <2>5
<1>3. T = Nat
  <2> HIDE DEF T
  <2>1. T \in SUBSET Nat
    BY DEF T
  <2> QED BY <1>1, <1>2, <2>1, AllAreReached
<1>4. N \in T
  BY <1>3
<1> QED BY <1>4

\* The pieces of a text show all of it, each in whole characters.
LEMMA PiecesShowText ==
    ASSUME NEW s, WholeText(s)
    PROVE  Streams(Pieces(s), s)
<1> DEFINE N == Len(s)
           start == [pos |-> 0, out |-> <<>>]
           g == CHOOSE h : Cuts(h, s, N)
           T == {n \in Nat : n <= N => CutUpTo(s, g[n]) /\ (g[n].pos >= n \/ g[n].pos = N)}
<1>1. N \in Nat /\ s \in Seq(Nat \X (Nat \ {0}) \X Nat)
  BY DEF WholeText
<1>2. Cuts(g, s, N)
  <2> HIDE DEF N
  <2>1. \E h : Cuts(h, s, N)
    BY <1>1, CutsExist
  <2> QED BY <2>1
<1>3. Pieces(s) = g[N].out
  BY DEF Pieces, Cuts
<1>4. SubSeq(s, 1, 0) = <<>> /\ SubSeq(s, 1, N) = s
  BY <1>1
<1>5. CutUpTo(s, start)
  <2>1. Streams(<<>>, <<>>)
    BY NothingIsShown DEF Streams
  <2>2. 0 \in 0..Len(s) /\ (0 < Len(s) => s[0 + 1][2] = 1)
    BY DEF WholeText
  <2> QED BY <1>4, <2>1, <2>2 DEF CutUpTo
<1> HIDE DEF g, start, N
<1>6. \A n \in 0..N : g[n] = IF n = 0 THEN start ELSE Cut(s, g[n - 1])
  BY <1>2 DEF Cuts, start
<1>7. 0 \in T
  <2>1. g[0] = start
    BY <1>1, <1>6
  <2>2. start.pos >= 0
    BY DEF start
  <2> QED BY <1>5, <2>1, <2>2
<1>8. ASSUME NEW n \in T PROVE n + 1 \in T
  <2> SUFFICES ASSUME n + 1 <= N
               PROVE  CutUpTo(s, g[n + 1]) /\ (g[n + 1].pos >= n + 1 \/ g[n + 1].pos = N)
    OBVIOUS
  <2>1. n \in Nat /\ n <= N /\ n + 1 \in 0..N /\ n + 1 # 0 /\ (n + 1) - 1 = n
    BY <1>1
  <2>2. CutUpTo(s, g[n]) /\ (g[n].pos >= n \/ g[n].pos = N)
    BY <2>1
  <2>3. g[n + 1] = Cut(s, g[n])
    BY <1>6, <2>1
  <2>4. /\ CutUpTo(s, g[n + 1])
        /\ g[n].pos # N => g[n + 1].pos > g[n].pos
        /\ g[n].pos = N => g[n + 1] = g[n]
    BY <2>2, <2>3, CutGoesOn DEF N
  <2>5. g[n].pos \in Nat /\ g[n + 1].pos \in Nat
    <3>1. g[n].pos \in 0..N /\ g[n + 1].pos \in 0..N
      BY <2>2, <2>4 DEF CutUpTo, N
    <3> QED BY <1>1, <3>1
  <2> QED BY <2>1, <2>2, <2>4, <2>5
<1>9. T = Nat
  <2> HIDE DEF T
  <2>1. T \in SUBSET Nat
    BY DEF T
  <2> QED BY <1>7, <1>8, <2>1, AllAreReached
<1>10. CutUpTo(s, g[N]) /\ (g[N].pos >= N \/ g[N].pos = N)
  <2>1. N \in T
    <3> HIDE DEF T
    <3> QED BY <1>1, <1>9
  <2>2. N <= N => CutUpTo(s, g[N]) /\ (g[N].pos >= N \/ g[N].pos = N)
    BY <2>1
  <2> QED BY <1>1, <2>2
<1>11. g[N].pos = N
  BY <1>1, <1>10 DEF CutUpTo, N
<1> QED BY <1>3, <1>4, <1>10, <1>11 DEF CutUpTo

-----------------------------------------------------------------------------
(* The calls: the invariant                                                *)

\* What StreamIsReassembled, ShownIsAnswer and AgentIsRelayed say of a call.
Reassembled(c) ==
    /\ c.assembled = Contents(c)
    /\ c.pending = Bytes(LineLen * LinesGot(c), c.got)
    /\ c.error <=> \E f \in 1..LinesGot(c) : c.script[f].kind = "error"

ShowsAnswer(out) ==
    ToldBy(out, "done") =>
        /\ ShownBy(out, "delta") = ShownBy(out, "done")
        /\ \A i \in DOMAIN out : out[i].event = "delta" => WholePiece(out[i].bytes)

Relays(c) ==
    /\ IsPrefix(ShownBy(c.out, "chunk"), Bytes(0, c.got))
    /\ ToldBy(c.out, "end") /\ ~ToldBy(c.out, "error") =>
          ShownBy(c.out, "chunk") = Bytes(0, c.got) /\ c.result = "ok"

Replies(c) ==
    ToldBy(c.out, "200") => ShownBy(c.out, "200") = Bytes(0, c.got) /\ c.result = "ok"

ChatInv(c) == /\ Reassembled(c) /\ ShowsAnswer(c.out)
              /\ c.pc = "call" => Reads(c, LinesGot(c))

AgentInv(c) == /\ Relays(c) /\ ~ToldBy(c.out, "done")
               /\ c.pc = "call" => /\ ShownBy(c.out, "chunk") = Bytes(0, c.got)
                                   /\ ~ToldBy(c.out, "end")

JsonInv(c) == /\ Replies(c) /\ ~ToldBy(c.out, "done")
              /\ c.pc = "call" => c.assembled = Bytes(0, c.got) /\ c.out = <<>>

CallInv(c) ==
    /\ c \in Calls
    /\ c.pc = "idle" => c.out = <<>>
    /\ c.kind = "none" => c.pc = "idle"
    /\ c.kind = "chat" => ChatInv(c)
    /\ c.kind = "agent" => AgentInv(c)
    /\ c.kind = "json" => JsonInv(c)

\* c is a chat that ended well, with text for an answer.
Answered(c, text) ==
    /\ c.kind = "chat" /\ c.pc = "over" /\ c.result = "ok"
    /\ \A f \in 1..LinesGot(c) : c.script[f].kind # "error"
    /\ text = Contents(c)

CallsInv ==
    /\ call \in [Requests -> Calls]
    /\ \A r \in Requests : CallInv(call[r])
    /\ cache # NoAnswer => /\ WholeText(cache)
                           /\ \E r \in Requests : Answered(call[r], cache)

-----------------------------------------------------------------------------
(* The calls: the steps of a call                                          *)

LEMMA BytesPrefix ==
    ASSUME NEW a \in Nat, NEW b \in Nat, a <= b
    PROVE  IsPrefix(Bytes(0, a), Bytes(0, b))
<1>1. Len(Bytes(0, a)) = a /\ Len(Bytes(0, b)) = b
  BY BytesAreASeq
<1>2. SubSeq(Bytes(0, b), (0 - 0) + 1, a - 0) = Bytes(0, a)
      /\ SubSeq(Bytes(0, a), (0 - 0) + 1, a - 0) = Bytes(0, a)
  <2>1. 0 \in Nat /\ 0 <= 0 /\ 0 <= a /\ a <= a
    OBVIOUS
  <2> QED BY <2>1, BytesWithin
<1>3. (0 - 0) + 1 = 1 /\ a - 0 = a
  OBVIOUS
<1> QED BY <1>1, <1>2, <1>3 DEF IsPrefix

LEMMA NewCallIsTyped ==
    ASSUME NEW kind \in {"none", "chat", "agent", "json"}, NEW script \in Seq(Frames)
    PROVE  /\ NewCall(kind, script) \in Calls
           /\ LinesGot(NewCall(kind, script)) = 0
           /\ Reads(NewCall(kind, script), 0)
           /\ NewCall(kind, script).assembled = Bytes(0, 0)
           /\ Bytes(0, 0) = <<>>
<1> DEFINE c == NewCall(kind, script)
<1>1. c = [kind |-> kind, script |-> script, pc |-> "call", got |-> 0, pending |-> <<>>,
           assembled |-> <<>>, error |-> FALSE, out |-> <<>>, result |-> "none"]
  BY DEF NewCall
<1> HIDE DEF c
<1>2. c \in Calls
  BY <1>1 DEF Calls, Outcomes
<1>3. LineLen * 0 = 0 /\ LineLen \in Nat /\ LineLen >= 2 /\ Len(script) \in Nat
  BY UpstreamAssumption
<1>4. LinesGot(c) = 0
  <2>1. 0 \in 0..LineLen /\ 0 < LineLen /\ LineLen * 0 + 0 = 0
    BY <1>3
  <2>2. (LineLen * 0 + 0) \div LineLen = 0
    BY <2>1, NewlineEndsLine
  <2> QED BY <1>1, <2>1, <2>2 DEF LinesGot
<1>5. Bytes(0, 0) = <<>>
  BY DEF Bytes
<1>6. Streams(<<>>, <<>>)
  BY NothingIsShown DEF Streams
<1>7. Said(script, 0) = <<>>
  BY <1>3, SaidGrows
<1>8. 0 <= LineLen * Len(script)
  BY <1>3, LinesInOrder
<1>9. Reads(c, 0)
  BY <1>1, <1>2, <1>3, <1>5, <1>6, <1>7, <1>8 DEF Reads
<1> QED BY <1>1, <1>2, <1>4, <1>5, <1>9 DEF c

LEMMA ReaderIsReassembled ==
    ASSUME NEW c, Reads(c, LinesGot(c)), c.kind = "chat", c.pc = "call"
    PROVE  CallInv(c)
<1>1. Contents(c) = Said(c.script, LinesGot(c))
  BY DEF Contents, Said
<1>2. Reassembled(c) /\ c \in Calls
  BY <1>1 DEF Reads, Reassembled
<1>3. ~ToldBy(c.out, "done")
  BY DEF Reads, Streams, ToldBy
<1> QED BY <1>2, <1>3 DEF CallInv, ChatInv, ShowsAnswer

\* The last two events of a chat.
LEMMA StreamEnds ==
    ASSUME NEW out, NEW text \in Seq(Byte), Streams(out, text), NEW last,
           last = Event("done", text) \/ last = Event("error", <<>>)
    PROVE  LET more == out \o <<last, Event("end", <<>>)>>
           IN  more \in Seq(Events) /\ ShowsAnswer(more)
<1> DEFINE end == Event("end", <<>>)
           mid == Append(out, last)
           more == Append(mid, end)
<1>1. /\ last \in Events /\ last.event \in {"done", "error"}
      /\ last.event = "done" => last.bytes = text
  <2>1. "done" \in Names /\ "error" \in Names /\ <<>> \in Seq(Byte)
    BY DEF Names
  <2>2. CASE last = Event("done", text)
    BY <2>1, <2>2, EventIsTyped
  <2>3. CASE last = Event("error", <<>>)
    <3>1. last \in Events /\ last.event = "error"
      BY <2>1, <2>3, EventIsTyped
    <3> QED BY <3>1
  <2> QED BY <2>2, <2>3
<1>2. end \in Events /\ end.event = "end"
  <2>1. "end" \in Names /\ <<>> \in Seq(Byte)
    BY DEF Names
  <2> QED BY <2>1, EventIsTyped
<1> HIDE DEF end
<1>3. /\ out \in Seq(Events) /\ ShownBy(out, "delta") = text /\ ShownBy(out, "done") = <<>>
      /\ \A i \in DOMAIN out : out[i].event = "delta" /\ WholePiece(out[i].bytes)
  BY DEF Streams
<1>4. out \o <<last, end>> = more
  BY <1>1, <1>2, <1>3
<1>5. /\ mid \in Seq(Events)
      /\ \A name : ShownBy(mid, name) = ShownBy(out, name) \o BytesOf(last, name)
      /\ \A name : ToldBy(mid, name) <=> ToldBy(out, name) \/ last.event = name
  BY <1>1, <1>3, EventIsShown
<1>6. /\ more \in Seq(Events)
      /\ \A name : ShownBy(more, name) = ShownBy(mid, name) \o BytesOf(end, name)
      /\ \A name : ToldBy(more, name) <=> ToldBy(mid, name) \/ end.event = name
  <2> HIDE DEF mid
  <2> QED BY <1>2, <1>5, EventIsShown
<1>7. \A i \in DOMAIN more : more[i].event = "delta" => WholePiece(more[i].bytes)
  <2> DEFINE n == Len(out)
  <2>1. n \in Nat /\ Len(mid) = n + 1 /\ mid[n + 1] = last /\ \A i \in 1..n : mid[i] = out[i]
    BY <1>1, <1>3, AppendProperties
  <2>2. /\ Len(more) = Len(mid) + 1 /\ more[Len(mid) + 1] = end
        /\ \A i \in 1..Len(mid) : more[i] = mid[i]
    <3> HIDE DEF mid
    <3> QED BY <1>2, <1>5, AppendProperties
  <2>3. DOMAIN out = 1..n /\ DOMAIN more = 1..(n + 2) /\ more[n + 2] = end
    <3>1. Len(more) = n + 2 /\ DOMAIN out = 1..n
      BY <1>3, <2>1, <2>2
    <3> HIDE DEF mid, more
    <3> QED BY <1>6, <2>1, <2>2, <3>1
  <2> HIDE DEF n, mid, more
  <2>4. \A i \in 1..n : i \in 1..Len(mid) /\ n + 1 \in 1..Len(mid)
    BY <2>1
  <2>5. more[n + 1] = last /\ \A i \in 1..n : more[i] = out[i]
    <3>1. n + 1 \in 1..Len(mid)
      BY <2>1
    <3> QED BY <2>1, <2>2, <2>4, <3>1
  <2>6. \A i \in 1..(n + 2) : i \in 1..n \/ i = n + 1 \/ i = n + 2
    BY <2>1
  <2> QED BY <1>1, <1>2, <1>3, <2>3, <2>5, <2>6
<1> HIDE DEF mid, more
<1>8. ASSUME ToldBy(more, "done") PROVE ShownBy(more, "delta") = ShownBy(more, "done")
  <2>1. ~ToldBy(out, "done")
    BY <1>3 DEF ToldBy
  <2>2. last.event = "done" /\ last.bytes = text
    BY <1>1, <1>2, <1>5, <1>6, <1>8, <2>1
  <2>3. /\ BytesOf(last, "delta") = <<>> /\ BytesOf(last, "done") = text
        /\ BytesOf(end, "delta") = <<>> /\ BytesOf(end, "done") = <<>>
    BY <1>2, <2>2 DEF BytesOf
  <2>4. /\ ShownBy(more, "delta") = (text \o <<>>) \o <<>>
        /\ ShownBy(more, "done") = (<<>> \o text) \o <<>>
    BY <1>3, <1>5, <1>6, <2>3
  <2> QED BY <2>4
<1> QED BY <1>4, <1>6, <1>7, <1>8 DEF ShowsAnswer, end

LEMMA CallEnds ==
    ASSUME NEW c \in Calls, NEW result \in Outcomes, NEW events \in Seq(Events)
    PROVE  LET d == Over(c, result, events)
           IN  /\ d \in Calls /\ d.pc = "over" /\ d.result = result /\ d.out = c.out \o events
               /\ d.kind = c.kind /\ d.script = c.script /\ d.got = c.got
               /\ d.pending = c.pending /\ d.assembled = c.assembled /\ d.error = c.error
               /\ LinesGot(d) = LinesGot(c) /\ Contents(d) = Contents(c)
<1> DEFINE more == c.out \o events
           d == Over(c, result, events)
<1>1. d = [[c EXCEPT !.out = more] EXCEPT !.pc = "over", !.result = result]
  BY DEF Over, Tell, Calls
<1>2. more \in Seq(Events)
  BY DEF Calls
<1> HIDE DEF d, more
<1>3. /\ d \in Calls /\ d.pc = "over" /\ d.result = result /\ d.out = more
      /\ d.kind = c.kind /\ d.script = c.script /\ d.got = c.got
      /\ d.pending = c.pending /\ d.assembled = c.assembled /\ d.error = c.error
  BY <1>1, <1>2 DEF Calls
<1>4. LinesGot(d) = LinesGot(c)
  BY <1>3 DEF LinesGot
<1>5. Contents(d) = Contents(c)
  BY <1>3, <1>4 DEF Contents
<1> QED BY <1>3, <1>4, <1>5 DEF d, more

\* Hit
LEMMA CachedAnswerIsShown ==
    ASSUME NEW text, WholeText(text)
    PROVE  CallInv(Over(NewCall("chat", <<>>), "hit",
                        Pieces(text) \o <<Event("done", text), Event("end", <<>>)>>))
<1> DEFINE c == NewCall("chat", <<>>)
           events == Pieces(text) \o <<Event("done", text), Event("end", <<>>)>>
           d == Over(c, "hit", events)
<1>1. /\ c \in Calls /\ LinesGot(c) = 0 /\ Reads(c, 0) /\ c.out = <<>> /\ c.kind = "chat"
  <2>1. <<>> \in Seq(Frames) /\ "chat" \in {"none", "chat", "agent", "json"}
    OBVIOUS
  <2> QED BY <2>1, NewCallIsTyped DEF NewCall
<1>2. text \in Seq(Byte)
  <2>1. text \in Seq(Nat \X (Nat \ {0}) \X Nat)
    BY DEF WholeText
  <2>2. (Nat \X (Nat \ {0}) \X Nat) \subseteq Byte
    BY DEF Byte
  <2>3. DOMAIN text = 1..Len(text) /\ Len(text) \in Nat /\ \A i \in 1..Len(text) : text[i] \in Byte
    BY <2>1, <2>2
  <2>4. text = [i \in 1..Len(text) |-> text[i]]
    BY <2>1
  <2> QED BY <2>3, <2>4, IsASeq
<1>3. events \in Seq(Events) /\ ShowsAnswer(events)
  <2>1. Streams(Pieces(text), text)
    BY PiecesShowText
  <2> QED BY <1>2, <2>1, StreamEnds
<1> HIDE DEF events, c
<1>4. c.out \o events = events
  BY <1>1, <1>3
<1>5. /\ d \in Calls /\ d.pc = "over" /\ d.out = events /\ d.kind = "chat"
      /\ d.pending = c.pending /\ d.assembled = c.assembled /\ d.error = c.error
      /\ d.got = c.got /\ d.script = c.script
      /\ LinesGot(d) = 0 /\ Contents(d) = Contents(c)
  <2>1. "hit" \in Outcomes
    BY DEF Outcomes
  <2>2. /\ d \in Calls /\ d.pc = "over" /\ d.out = c.out \o events /\ d.kind = c.kind
        /\ d.pending = c.pending /\ d.assembled = c.assembled /\ d.error = c.error
        /\ d.got = c.got /\ d.script = c.script
        /\ LinesGot(d) = LinesGot(c) /\ Contents(d) = Contents(c)
    <3>1. c \in Calls /\ events \in Seq(Events)
      BY <1>1, <1>3
    <3> QED BY <3>1, <2>1, CallEnds
  <2> HIDE DEF d
  <2> QED BY <1>1, <1>4, <2>2
<1> HIDE DEF d
<1>6. Reassembled(d)
  <2>1. Contents(c) = Said(c.script, 0)
    BY <1>1 DEF Contents, Said
  <2> QED BY <1>1, <1>5, <2>1 DEF Reads, Reassembled
<1>7. ChatInv(d)
  BY <1>3, <1>5, <1>6 DEF ChatInv
<1> QED BY <1>5, <1>7 DEF CallInv, c, d, events

\* Miss
LEMMA CallStarts ==
    ASSUME NEW kind \in {"chat", "agent", "json"}, NEW script \in Seq(Frames)
    PROVE  CallInv(NewCall(kind, script)) /\ NewCall(kind, script).pc = "call"
<1> DEFINE c == NewCall(kind, script)
<1>1. /\ c \in Calls /\ LinesGot(c) = 0 /\ Reads(c, 0)
      /\ c.assembled = Bytes(0, 0) /\ Bytes(0, 0) = <<>>
  BY NewCallIsTyped
<1>2. c.kind = kind /\ c.pc = "call" /\ c.out = <<>> /\ c.got = 0
  BY DEF NewCall
<1> HIDE DEF c
<1>3. CASE kind = "chat"
  BY <1>1, <1>2, <1>3, ReaderIsReassembled DEF c
<1>4. /\ ShownBy(c.out, "chunk") = Bytes(0, c.got) /\ ~ToldBy(c.out, "end")
      /\ ~ToldBy(c.out, "200") /\ ~ToldBy(c.out, "done")
  BY <1>1, <1>2, NothingIsShown
<1>5. IsPrefix(ShownBy(c.out, "chunk"), Bytes(0, c.got))
  BY <1>2, <1>4, BytesPrefix
<1>6. AgentInv(c)
  BY <1>4, <1>5 DEF AgentInv, Relays
<1>7. JsonInv(c)
  BY <1>1, <1>2, <1>4 DEF JsonInv, Replies
<1> QED BY <1>1, <1>2, <1>3, <1>6, <1>7 DEF CallInv, c

\* ReceiveChat
LEMMA ChatGoesOn ==
    ASSUME NEW c, CallInv(c), c.kind = "chat", c.pc = "call", NEW k \in 1..Left(c)
    PROVE  CallInv(WriteStreamData(c, k)) /\ WriteStreamData(c, k).pc = "call"
<1> DEFINE d == WriteStreamData(c, k)
           fed == [c EXCEPT !.got = c.got + k]
<1>1. Reads(c, LinesGot(c)) /\ c \in Calls
  BY DEF CallInv, ChatInv
<1>2. Parses(fed, d) /\ Reads(d, LinesGot(d))
  BY <1>1, StreamIsParsed
<1>3. fed.kind = c.kind /\ fed.pc = c.pc
  BY <1>1 DEF Calls
<1> HIDE DEF d, fed
<1>4. d.kind = "chat" /\ d.pc = "call"
  BY <1>2, <1>3 DEF Parses
<1> QED BY <1>2, <1>4, ReaderIsReassembled DEF d

\* EndChat
LEMMA ChatEnds ==
    ASSUME NEW c, CallInv(c), c.kind = "chat", c.pc = "call", NEW result \in Results
    PROVE  LET done == HasAnswer(c, result)
               last == IF done THEN Event("done", Answer(c)) ELSE Event("error", <<>>)
               d == Over(c, result, <<last, Event("end", <<>>)>>)
           IN  /\ CallInv(d)
               /\ done => WholeText(Answer(c)) /\ Answered(d, Answer(c))
<1> DEFINE done == HasAnswer(c, result)
           last == IF done THEN Event("done", c.assembled) ELSE Event("error", <<>>)
           end == Event("end", <<>>)
           events == <<last, end>>
           d == Over(c, result, events)
           m == LinesGot(c)
<1>1. /\ c \in Calls /\ Reads(c, m) /\ Reassembled(c)
      /\ result \in Outcomes
  BY DEF CallInv, ChatInv, Outcomes
<1>2. Streams(c.out, c.assembled) /\ c.assembled \in Seq(Byte) /\ c.out \in Seq(Events)
      /\ c.script \in Seq(Frames)
  BY <1>1 DEF Reads, Calls
<1>3. last \in Events /\ end \in Events
  <2>1. "done" \in Names /\ "error" \in Names /\ "end" \in Names /\ <<>> \in Seq(Byte)
    BY DEF Names
  <2>2. Event("done", c.assembled) \in Events /\ Event("error", <<>>) \in Events /\ end \in Events
    BY <1>2, <2>1, EventIsTyped
  <2> QED BY <2>2
<1>4. last = Event("done", c.assembled) \/ last = Event("error", <<>>)
  OBVIOUS
<1> HIDE DEF last, end
<1>5. events \in Seq(Events)
  BY <1>3
<1>6. c.out \o events \in Seq(Events) /\ ShowsAnswer(c.out \o events)
  BY <1>2, <1>4, StreamEnds DEF end
<1> HIDE DEF events
<1>7. /\ d \in Calls /\ d.pc = "over" /\ d.result = result /\ d.out = c.out \o events
      /\ d.kind = c.kind /\ d.script = c.script /\ d.got = c.got
      /\ d.pending = c.pending /\ d.assembled = c.assembled /\ d.error = c.error
      /\ LinesGot(d) = m /\ Contents(d) = Contents(c)
  <2>1. c \in Calls /\ result \in Outcomes
    BY <1>1
  <2> QED BY <1>5, <2>1, CallEnds
<1> HIDE DEF d, m
<1>8. Reassembled(d)
  BY <1>1, <1>7 DEF Reassembled, m
<1>9. CallInv(d)
  BY <1>6, <1>7, <1>8 DEF CallInv, ChatInv
<1>10. ASSUME done PROVE WholeText(c.assembled) /\ Answered(d, c.assembled)
  <2>1. c.assembled = Said(c.script, m) /\ m \in 0..Len(c.script)
    BY <1>1 DEF Reads
  <2>2. WholeText(c.assembled)
    BY <1>2, <2>1, SaidIsText
  <2>3. result = "ok" /\ ~c.error
    BY <1>10 DEF HasAnswer
  <2>4. \A f \in 1..m : c.script[f].kind # "error"
    BY <1>1, <2>3 DEF Reads
  <2>5. c.assembled = Contents(c)
    BY <1>1 DEF Reassembled
  <2> QED BY <1>7, <2>2, <2>3, <2>4, <2>5 DEF Answered
<1> QED BY <1>9, <1>10 DEF d, events, last, end, Answer

LEMMA BytesAreTyped ==
    ASSUME NEW a \in Nat, NEW b \in Nat, a <= b
    PROVE  Bytes(a, b) \in Seq(Byte)
<1> DEFINE s == Bytes(a, b)
<1>1. s \in Seq(Nat)
  BY BytesAreASeq
<1> HIDE DEF s
<1>2. DOMAIN s = 1..Len(s) /\ Len(s) \in Nat /\ \A i \in 1..Len(s) : s[i] \in Byte
  BY <1>1 DEF Byte
<1>3. s = [i \in 1..Len(s) |-> s[i]]
  BY <1>1
<1>4. s \in Seq(Byte)
  BY <1>2, <1>3, IsASeq
<1> QED BY <1>4 DEF s

LEMMA LeftIsInt ==
    ASSUME NEW c \in Calls
    PROVE  Left(c) \in Int /\ c.got \in Nat /\ \A k \in 1..Left(c) : k \in Nat /\ c.got + k \in Nat
<1>1. c.got \in Nat /\ c.script \in Seq(Frames)
  BY DEF Calls
<1>2. Len(c.script) \in Nat /\ LineLen \in Nat
  BY <1>1, UpstreamAssumption
<1>3. Len(c.script) * LineLen \in Nat
  BY <1>2
<1> QED BY <1>1, <1>3 DEF Left

\* ReceiveAgent
LEMMA AgentGoesOn ==
    ASSUME NEW c, CallInv(c), c.kind = "agent", c.pc = "call", NEW k \in 1..Left(c)
    PROVE  LET d == Tell([c EXCEPT !.got = @ + k], <<Event("chunk", Bytes(c.got, c.got + k))>>)
           IN  CallInv(d) /\ d.pc = "call"
<1> DEFINE e == Event("chunk", Bytes(c.got, c.got + k))
           more == Append(c.out, e)
           n == c.got + k
           d == Tell([c EXCEPT !.got = @ + k], <<e>>)
<1>1. /\ c \in Calls /\ c.out \in Seq(Events)
      /\ ShownBy(c.out, "chunk") = Bytes(0, c.got) /\ ~ToldBy(c.out, "end")
      /\ ~ToldBy(c.out, "done")
  BY DEF CallInv, AgentInv, Calls
<1>2. c.got \in Nat /\ n \in Nat /\ c.got <= n
  BY <1>1, LeftIsInt
<1>3. e \in Events /\ e.event = "chunk" /\ e.bytes = Bytes(c.got, n)
  <2>1. "chunk" \in Names
    BY DEF Names
  <2>2. Bytes(c.got, n) \in Seq(Byte)
    BY <1>2, BytesAreTyped
  <2> QED BY <2>1, <2>2, EventIsTyped
<1>4. d = [[c EXCEPT !.got = n] EXCEPT !.out = c.out \o <<e>>]
  BY <1>1 DEF Tell, Calls
<1> HIDE DEF e
<1>5. /\ more \in Seq(Events)
      /\ \A name : ShownBy(more, name) = ShownBy(c.out, name) \o BytesOf(e, name)
      /\ \A name : ToldBy(more, name) <=> ToldBy(c.out, name) \/ e.event = name
  BY <1>1, <1>3, EventIsShown
<1>6. c.out \o <<e>> = more
  BY <1>1, <1>3, AppendIsConcat
<1>7. Bytes(0, c.got) \o Bytes(c.got, n) = Bytes(0, n)
  <2>1. 0 \in Nat /\ 0 <= c.got
    BY <1>2
  <2> QED BY <1>2, <2>1, BytesFollow
<1> HIDE DEF d, more, n
<1>8. d \in Calls /\ d.kind = "agent" /\ d.pc = "call" /\ d.got = n /\ d.out = more
  BY <1>1, <1>2, <1>4, <1>5, <1>6 DEF Calls
<1>9. /\ ShownBy(more, "chunk") = Bytes(0, n)
      /\ ~ToldBy(more, "end") /\ ~ToldBy(more, "done")
  BY <1>1, <1>3, <1>5, <1>7 DEF BytesOf
<1>10. IsPrefix(ShownBy(more, "chunk"), Bytes(0, n))
  BY <1>2, <1>9, BytesPrefix
<1>11. AgentInv(d)
  BY <1>8, <1>9, <1>10 DEF AgentInv, Relays
<1>12. CallInv(d)
  BY <1>8, <1>11 DEF CallInv
<1> QED BY <1>8, <1>12 DEF d, e, more, n

\* EndAgent, and ConsumerFails after n bytes
LEMMA AgentEnds ==
    ASSUME NEW c, CallInv(c), c.kind = "agent", c.pc = "call", NEW result \in Results,
           NEW n \in Nat, c.got <= n, result = "ok" => n = c.got
    PROVE  CallInv(AfterStream([c EXCEPT !.got = n], result))
<1> DEFINE b == [c EXCEPT !.got = n]
           end == Event("end", <<>>)
           error == Event("error", <<>>)
           told == IF result = "ok" THEN <<>> ELSE <<error>>
           mid == c.out \o told
           more == Append(mid, end)
           d == AfterStream(b, result)
<1>1. /\ c \in Calls /\ c.out \in Seq(Events) /\ c.got \in Nat
      /\ ShownBy(c.out, "chunk") = Bytes(0, c.got) /\ ~ToldBy(c.out, "end")
      /\ ~ToldBy(c.out, "done")
  BY DEF CallInv, AgentInv, Calls
<1>2. b \in Calls /\ b.out = c.out /\ b.kind = "agent" /\ b.got = n
  BY <1>1 DEF Calls
<1>3. /\ end \in Events /\ end.event = "end" /\ end.bytes = <<>>
      /\ error \in Events /\ error.event = "error" /\ error.bytes = <<>>
  <2>1. "end" \in Names /\ "error" \in Names /\ <<>> \in Seq(Byte)
    BY DEF Names
  <2> QED BY <2>1, EventIsTyped
<1>4. d = Over(b, result, told \o <<end>>)
  BY DEF AfterStream
<1> HIDE DEF b, d, end, error
<1>5. /\ mid \in Seq(Events) /\ ShownBy(mid, "chunk") = ShownBy(c.out, "chunk")
      /\ ~ToldBy(mid, "end") /\ ~ToldBy(mid, "done")
      /\ result # "ok" => ToldBy(mid, "error")
  <2>1. CASE result = "ok"
    <3>1. mid = c.out
      BY <1>1, <2>1, ConcatSimplifications
    <3> HIDE DEF mid
    <3> QED BY <1>1, <2>1, <3>1
  <2>2. CASE result # "ok"
    <3>1. mid = Append(c.out, error)
      BY <1>1, <1>3, <2>2, AppendIsConcat
    <3> HIDE DEF mid
    <3>2. /\ mid \in Seq(Events)
          /\ \A name : /\ ShownBy(c.out, name) \in Seq(Byte)
                       /\ ShownBy(mid, name) = ShownBy(c.out, name) \o BytesOf(error, name)
      BY <1>1, <1>3, <3>1, EventIsShown
    <3>3. BytesOf(error, "chunk") = <<>>
      BY <1>3 DEF BytesOf
    <3>4. \A name : ToldBy(mid, name) <=> ToldBy(c.out, name) \/ error.event = name
      BY <1>1, <1>3, <3>1, EventIsShown
    <3>5. ShownBy(mid, "chunk") = ShownBy(c.out, "chunk")
      <4> DEFINE s == ShownBy(c.out, "chunk")
      <4>1. s \in Seq(Byte) /\ ShownBy(mid, "chunk") = s \o <<>>
        BY <3>2, <3>3
      <4> HIDE DEF s
      <4>2. s \o <<>> = s
        BY <4>1, ConcatSimplifications
      <4> QED BY <4>1, <4>2 DEF s
    <3>6. ~ToldBy(mid, "end") /\ ~ToldBy(mid, "done") /\ ToldBy(mid, "error")
      BY <1>1, <1>3, <3>4
    <3>7. mid \in Seq(Events)
      BY <3>2
    <3> QED BY <3>5, <3>6, <3>7
  <2> QED BY <2>1, <2>2
<1>6. told \o <<end>> \in Seq(Events) /\ told \in Seq(Events)
  BY <1>3
<1>7. c.out \o (told \o <<end>>) = more
  <2>1. <<end>> \in Seq(Events)
    BY <1>3
  <2> HIDE DEF told
  <2>2. c.out \o (told \o <<end>>) = mid \o <<end>>
    <3> DEFINE s == c.out
               u == <<end>>
    <3>1. s \in Seq(Events) /\ told \in Seq(Events) /\ u \in Seq(Events)
      BY <1>1, <1>6, <2>1
    <3> HIDE DEF s, u
    <3>2. (s \o told) \o u = s \o (told \o u)
      BY <3>1, ConcatAssociative
    <3> QED BY <3>2 DEF s, u
  <2> HIDE DEF mid
  <2> QED BY <1>3, <1>5, <2>2, AppendIsConcat
<1> HIDE DEF told, mid
<1>8. /\ more \in Seq(Events)
      /\ \A name : /\ ShownBy(mid, name) \in Seq(Byte)
                   /\ ShownBy(more, name) = ShownBy(mid, name) \o BytesOf(end, name)
      /\ \A name : ToldBy(more, name) <=> ToldBy(mid, name) \/ end.event = name
  BY <1>3, <1>5, EventIsShown
<1>9. /\ ShownBy(more, "chunk") = Bytes(0, c.got) /\ ~ToldBy(more, "done")
      /\ ToldBy(more, "error") <=> ToldBy(mid, "error")
  <2>1. BytesOf(end, "chunk") = <<>>
    BY <1>3 DEF BytesOf
  <2> HIDE DEF more
  <2>2. ShownBy(more, "chunk") = ShownBy(mid, "chunk")
    <3> DEFINE s == ShownBy(mid, "chunk")
    <3>1. s \in Seq(Byte) /\ ShownBy(more, "chunk") = s \o <<>>
      BY <1>8, <2>1
    <3> HIDE DEF s
    <3>2. s \o <<>> = s
      BY <3>1, ConcatSimplifications
    <3> QED BY <3>1, <3>2 DEF s
  <2> QED BY <1>1, <1>3, <1>5, <1>8, <2>2
<1>10. /\ d \in Calls /\ d.pc = "over" /\ d.result = result /\ d.out = more
       /\ d.kind = "agent" /\ d.got = n
  <2>1. result \in Outcomes
    BY DEF Outcomes
  <2>2. /\ d \in Calls /\ d.pc = "over" /\ d.result = result /\ d.out = b.out \o (told \o <<end>>)
        /\ d.kind = b.kind /\ d.got = b.got
    <3>1. b \in Calls
      BY <1>2
    <3> QED BY <1>4, <1>6, <2>1, <3>1, CallEnds
  <2> HIDE DEF more
  <2> QED BY <1>2, <1>7, <2>2
<1> HIDE DEF more
<1>11. IsPrefix(Bytes(0, c.got), Bytes(0, n))
  BY <1>1, BytesPrefix
<1>12. AgentInv(d)
  BY <1>1, <1>5, <1>9, <1>10, <1>11 DEF AgentInv, Relays
<1>13. CallInv(d)
  BY <1>10, <1>12 DEF CallInv
<1> QED BY <1>13 DEF d, b

\* ReceiveJson
LEMMA ReplyGoesOn ==
    ASSUME NEW c, CallInv(c), c.kind = "json", c.pc = "call", NEW k \in 1..Left(c)
    PROVE  LET d == [c EXCEPT !.got = @ + k, !.assembled = @ \o Bytes(c.got, c.got + k)]
           IN  CallInv(d) /\ d.pc = "call"
<1> DEFINE n == c.got + k
           text == c.assembled \o Bytes(c.got, n)
           d == [c EXCEPT !.got = n, !.assembled = text]
<1>1. c \in Calls /\ c.assembled = Bytes(0, c.got) /\ c.out = <<>>
  BY DEF CallInv, JsonInv
<1>2. c.got \in Nat /\ n \in Nat /\ c.got <= n
  BY <1>1, LeftIsInt
<1>3. text = Bytes(0, n)
  <2>1. 0 \in Nat /\ 0 <= c.got
    BY <1>2
  <2>2. Bytes(0, c.got) \o Bytes(c.got, n) = Bytes(0, n)
    BY <1>2, <2>1, BytesFollow
  <2> HIDE DEF n
  <2> QED BY <1>1, <2>2
<1>4. Bytes(0, n) \in Seq(Byte)
  <2>1. 0 \in Nat /\ 0 <= n
    BY <1>2
  <2> HIDE DEF n
  <2> QED BY <1>2, <2>1, BytesAreTyped
<1>5. d = [c EXCEPT !.got = @ + k, !.assembled = @ \o Bytes(c.got, c.got + k)]
  BY <1>1 DEF Calls
<1>6. ASSUME NEW b, b \in Seq(Byte), b = text
      PROVE  /\ d \in Calls /\ d.kind = c.kind /\ d.pc = c.pc /\ d.got = n
             /\ d.assembled = b /\ d.out = c.out
  <2> HIDE DEF n, text
  <2> QED BY <1>1, <1>2, <1>6 DEF Calls
<1>7. /\ d \in Calls /\ d.kind = "json" /\ d.pc = "call" /\ d.got = n
      /\ d.assembled = Bytes(0, n) /\ d.out = <<>>
  <2> HIDE DEF n, text, d
  <2> QED BY <1>1, <1>3, <1>4, <1>6
<1> HIDE DEF n, d
<1>8. ~ToldBy(d.out, "200") /\ ~ToldBy(d.out, "done")
  BY <1>7, NothingIsShown
<1>9. JsonInv(d)
  BY <1>7, <1>8 DEF JsonInv, Replies
<1>10. CallInv(d)
  BY <1>7, <1>9 DEF CallInv
<1> QED BY <1>5, <1>7, <1>10

\* EndJson
LEMMA ReplyEnds ==
    ASSUME NEW c, CallInv(c), c.kind = "json", c.pc = "call", NEW result \in Results
    PROVE  CallInv(Over(c, result, <<Reply(c, result)>>))
<1> DEFINE e == Reply(c, result)
           events == <<e>>
           d == Over(c, result, events)
<1>1. c \in Calls /\ c.assembled = Bytes(0, c.got) /\ c.out = <<>> /\ c.assembled \in Seq(Byte)
  BY DEF CallInv, JsonInv, Calls
<1>2. /\ e \in Events
      /\ e.event = "200" => e.bytes = Bytes(0, c.got) /\ result = "ok"
      /\ e.event # "done"
  <2>1. /\ "200" \in Names /\ "400" \in Names /\ "500" \in Names /\ <<>> \in Seq(Byte)
    BY DEF Names
  <2>2. CASE result = "ok"
    <3>1. e = Event("200", c.assembled)
      BY <2>2 DEF Reply
    <3> QED BY <1>1, <2>1, <2>2, <3>1, EventIsTyped
  <2>3. CASE result = "refused"
    <3>1. e = Event("400", c.assembled)
      BY <2>3 DEF Reply
    <3>2. Event("400", c.assembled) \in Events /\ Event("400", c.assembled).event = "400"
      BY <1>1, <2>1, EventIsTyped
    <3> QED BY <3>1, <3>2
  <2>4. CASE result = "failed"
    <3>1. e = Event("500", <<>>)
      BY <2>4 DEF Reply
    <3>2. Event("500", <<>>) \in Events /\ Event("500", <<>>).event = "500"
      BY <2>1, EventIsTyped
    <3> QED BY <3>1, <3>2
  <2> QED BY <2>2, <2>3, <2>4 DEF Results
<1> HIDE DEF e
<1>3. events \in Seq(Events) /\ c.out \o events = Append(<<>>, e)
  <2>1. <<>> \in Seq(Events)
    OBVIOUS
  <2>2. Append(<<>>, e) = <<>> \o <<e>>
    BY <1>2, <2>1, AppendIsConcat
  <2> QED BY <1>1, <1>2, <2>2
<1> HIDE DEF events
<1>4. /\ d \in Calls /\ d.pc = "over" /\ d.result = result /\ d.out = c.out \o events
      /\ d.kind = c.kind /\ d.script = c.script /\ d.got = c.got
      /\ d.pending = c.pending /\ d.assembled = c.assembled /\ d.error = c.error
      /\ LinesGot(d) = LinesGot(c) /\ Contents(d) = Contents(c)
  <2>1. result \in Outcomes
    BY DEF Outcomes
  <2>2. c \in Calls /\ events \in Seq(Events)
    BY <1>1, <1>3
  <2> QED BY <2>1, <2>2, CallEnds
<1> HIDE DEF d
<1>5. /\ \A name : /\ ShownBy(<<>>, name) = <<>> /\ ~ToldBy(<<>>, name)
                   /\ ShownBy(Append(<<>>, e), name) = ShownBy(<<>>, name) \o BytesOf(e, name)
      /\ \A name : ToldBy(Append(<<>>, e), name) <=> ToldBy(<<>>, name) \/ e.event = name
  <2>1. <<>> \in Seq(Events)
    OBVIOUS
  <2> QED BY <1>2, <2>1, EventIsShown, NothingIsShown
<1>6. ASSUME ToldBy(d.out, "200") PROVE ShownBy(d.out, "200") = Bytes(0, d.got) /\ d.result = "ok"
  <2>1. d.out = Append(<<>>, e)
    BY <1>3, <1>4
  <2>2. e.event = "200"
    BY <1>5, <1>6, <2>1
  <2>3. BytesOf(e, "200") = Bytes(0, c.got)
    BY <1>2, <2>2 DEF BytesOf
  <2>4. ShownBy(d.out, "200") = <<>> \o Bytes(0, c.got)
    BY <1>5, <2>1, <2>3
  <2>5. <<>> \o Bytes(0, c.got) = Bytes(0, c.got)
    BY <1>1, ConcatSimplifications
  <2> QED BY <1>2, <1>4, <2>2, <2>4, <2>5
<1>7. ~ToldBy(d.out, "done")
  <2>1. d.out = Append(<<>>, e)
    BY <1>3, <1>4
  <2> QED BY <1>2, <1>5, <2>1
<1>8. JsonInv(d)
  BY <1>4, <1>6, <1>7 DEF JsonInv, Replies
<1>9. CallInv(d)
  BY <1>4, <1>8 DEF CallInv
<1> QED BY <1>9 DEF d, e, events

-----------------------------------------------------------------------------
(* The calls: the steps of the system                                      *)

\* An over call stays as it is, and so does what it answered.
LEMMA CallChanges ==
    ASSUME CallsInv, NEW r \in Requests, NEW d, CallInv(d), call[r].pc # "over",
           call' = [call EXCEPT ![r] = d],
           cache' = cache \/ (WholeText(cache') /\ Answered(d, cache'))
    PROVE  CallsInv'
<1>1. call \in [Requests -> Calls] /\ \A q \in Requests : CallInv(call[q])
  BY DEF CallsInv
<1>2. d \in Calls
  BY DEF CallInv
<1>3. /\ call' \in [Requests -> Calls] /\ call'[r] = d
      /\ \A q \in Requests : q # r => call'[q] = call[q]
  BY <1>1, <1>2
<1>4. \A q \in Requests : CallInv(call'[q])
  BY <1>1, <1>3
<1>5. ASSUME cache' # NoAnswer
      PROVE  WholeText(cache') /\ \E q \in Requests : Answered(call'[q], cache')
  <2>1. CASE WholeText(cache') /\ Answered(d, cache')
    BY <1>3, <2>1
  <2>2. CASE cache' = cache
    <3>1. WholeText(cache') /\ \E q \in Requests : Answered(call[q], cache')
      BY <1>5, <2>2 DEF CallsInv
    <3>2. PICK q \in Requests : Answered(call[q], cache')
      BY <3>1
    <3>3. q # r
      BY <3>2 DEF Answered
    <3> QED BY <1>3, <3>1, <3>2, <3>3
  <2> QED BY <1>5, <2>1, <2>2
<1>6. /\ call' \in [Requests -> Calls] /\ \A q \in Requests : CallInv(call'[q])
      /\ cache' # NoAnswer => WholeText(cache') /\ \E q \in Requests : Answered(call'[q], cache')
  BY <1>3, <1>4, <1>5
<1> QED BY <1>6 DEF CallsInv

LEMMA CallsInvInit ==
    CallsInit => CallsInv
<1> SUFFICES ASSUME CallsInit PROVE CallsInv
  OBVIOUS
<1> DEFINE c == NewCall("none", <<>>)
<1>1. c \in Calls /\ c.kind = "none" /\ c.out = <<>>
  <2>1. <<>> \in Seq(Frames) /\ "none" \in {"none", "chat", "agent", "json"}
    OBVIOUS
  <2> QED BY <2>1, NewCallIsTyped DEF NewCall
<1> HIDE DEF c
<1>2. Idle = [c EXCEPT !.pc = "idle"]
  BY DEF Idle, c
<1>3. Idle \in Calls /\ Idle.pc = "idle" /\ Idle.out = <<>> /\ Idle.kind = "none"
  BY <1>1, <1>2 DEF Calls
<1>4. CallInv(Idle)
  BY <1>3 DEF CallInv
<1> QED BY <1>3, <1>4 DEF CallsInit, CallsInv

LEMMA CallsInvStep ==
    CallsInv /\ [CallsNext]_callVars => CallsInv'
<1> SUFFICES ASSUME CallsInv, [CallsNext]_callVars PROVE CallsInv'
  OBVIOUS
<1>0. /\ \A r \in Requests : CallInv(call[r]) /\ call[r] \in Calls
      /\ cache # NoAnswer => WholeText(cache)
  BY DEF CallsInv, CallInv
<1>1. ASSUME NEW r \in Requests, Hit(r) PROVE CallsInv'
  <2> DEFINE d == Over(NewCall("chat", <<>>), "hit",
                       Pieces(cache) \o <<Event("done", cache), Event("end", <<>>)>>)
  <2>1. CallInv(d)
    <3>1. WholeText(cache)
      BY <1>0, <1>1 DEF Hit
    <3> QED BY <3>1, CachedAnswerIsShown
  <2>2. call[r].pc # "over" /\ call' = [call EXCEPT ![r] = d] /\ cache' = cache
    BY <1>1 DEF Hit
  <2> HIDE DEF d
  <2> QED BY <2>1, <2>2, CallChanges
<1>2. ASSUME NEW r \in Requests, Miss(r) PROVE CallsInv'
  <2>1. PICK n \in 0..MaxLines : \E script \in [1..n -> Frames] :
          call' = [call EXCEPT ![r] = NewCall("chat", script)]
    BY <1>2 DEF Miss
  <2>2. PICK script \in [1..n -> Frames] : call' = [call EXCEPT ![r] = NewCall("chat", script)]
    BY <2>1
  <2>3. script \in Seq(Frames)
    BY <2>2, UpstreamAssumption
  <2> DEFINE d == NewCall("chat", script)
  <2>4. CallInv(d)
    BY <2>3, CallStarts
  <2>5. call[r].pc # "over" /\ call' = [call EXCEPT ![r] = d] /\ cache' = cache
    BY <1>2, <2>2 DEF Miss
  <2> HIDE DEF d
  <2> QED BY <2>4, <2>5, CallChanges
<1>3. ASSUME NEW r \in Requests, ReceiveChat(r) PROVE CallsInv'
  <2>1. call[r].kind = "chat" /\ call[r].pc = "call" /\ cache' = cache
    BY <1>3 DEF ReceiveChat, Calling
  <2>2. PICK k \in 1..Left(call[r]) : call' = [call EXCEPT ![r] = WriteStreamData(call[r], k)]
    BY <1>3 DEF ReceiveChat
  <2> DEFINE c == call[r]
             d == WriteStreamData(c, k)
  <2>3. CallInv(c)
    BY <1>0
  <2>4. CallInv(d)
    <3> HIDE DEF c
    <3> QED BY <2>1, <2>2, <2>3, ChatGoesOn DEF c
  <2>5. call[r].pc # "over" /\ call' = [call EXCEPT ![r] = d]
    BY <2>1, <2>2
  <2> HIDE DEF d
  <2> QED BY <2>1, <2>4, <2>5, CallChanges
<1>4. ASSUME NEW r \in Requests, NEW result \in Results, EndChat(r, result) PROVE CallsInv'
  <2> DEFINE c == call[r]
             done == HasAnswer(c, result)
             last == IF done THEN Event("done", Answer(c)) ELSE Event("error", <<>>)
             d == Over(c, result, <<last, Event("end", <<>>)>>)
  <2>1. c.kind = "chat" /\ c.pc = "call"
    BY <1>4 DEF EndChat, Calling
  <2>2. call' = [call EXCEPT ![r] = d] /\ cache' = IF done THEN Answer(c) ELSE cache
    BY <1>4 DEF EndChat
  <2>3. CallInv(c)
    BY <1>0
  <2>4. CallInv(d) /\ (done => WholeText(Answer(c)) /\ Answered(d, Answer(c)))
    <3> QED BY <2>1, <2>3, ChatEnds
  <2> HIDE DEF d, done
  <2>5. cache' = cache \/ (WholeText(cache') /\ Answered(d, cache'))
    BY <2>2, <2>4
  <2> QED BY <2>1, <2>2, <2>4, <2>5, CallChanges
<1>5. ASSUME NEW r \in Requests, NEW kind \in {"agent", "json"}, StartAgent(r, kind) PROVE CallsInv'
  <2>1. PICK n \in 0..MaxLines :
          call' = [call EXCEPT ![r] =
                      NewCall(kind, [i \in 1..n |-> [kind |-> "skip", width |-> 0]])]
    BY <1>5 DEF StartAgent
  <2> DEFINE script == [i \in 1..n |-> [kind |-> "skip", width |-> 0]]
             d == NewCall(kind, script)
  <2>2. script \in Seq(Frames)
    <3>1. n \in Nat /\ [kind |-> "skip", width |-> 0] \in Frames
      BY <2>1, UpstreamAssumption DEF Frames
    <3> QED BY <3>1
  <2> HIDE DEF script
  <2>3. CallInv(d)
    BY <2>2, CallStarts
  <2>4. call[r].pc # "over" /\ call' = [call EXCEPT ![r] = d] /\ cache' = cache
    BY <1>5, <2>1 DEF StartAgent, script
  <2> HIDE DEF d
  <2> QED BY <2>3, <2>4, CallChanges
<1>6. ASSUME NEW r \in Requests, ReceiveAgent(r) PROVE CallsInv'
  <2>1. call[r].kind = "agent" /\ call[r].pc = "call" /\ cache' = cache
    BY <1>6 DEF ReceiveAgent, Calling
  <2> DEFINE c == call[r]
  <2>2. PICK k \in 1..Left(c) :
          call' = [call EXCEPT ![r] =
              Tell([c EXCEPT !.got = @ + k], <<Event("chunk", Bytes(c.got, c.got + k))>>)]
    BY <1>6 DEF ReceiveAgent
  <2> DEFINE d == Tell([c EXCEPT !.got = @ + k], <<Event("chunk", Bytes(c.got, c.got + k))>>)
  <2>3. CallInv(c)
    BY <1>0
  <2>4. CallInv(d)
    <3> QED BY <2>1, <2>2, <2>3, AgentGoesOn
  <2> HIDE DEF d
  <2> QED BY <2>1, <2>2, <2>4, CallChanges DEF d
<1>7. ASSUME NEW r \in Requests, ConsumerFails(r) PROVE CallsInv'
  <2>1. call[r].kind = "agent" /\ call[r].pc = "call" /\ cache' = cache
    BY <1>7 DEF ConsumerFails, Calling
  <2> DEFINE c == call[r]
  <2>2. PICK k \in 1..Left(c) :
          call' = [call EXCEPT ![r] = AfterStream([c EXCEPT !.got = @ + k], "failed")]
    BY <1>7 DEF ConsumerFails
  <2> DEFINE n == c.got + k
             d == AfterStream([c EXCEPT !.got = n], "failed")
  <2>3. CallInv(c) /\ c \in Calls
    BY <1>0
  <2>4. n \in Nat /\ c.got <= n /\ [c EXCEPT !.got = @ + k] = [c EXCEPT !.got = n]
    BY <2>2, <2>3, LeftIsInt DEF Calls
  <2>5. CallInv(d)
    <3> HIDE DEF n
    <3>1. "failed" \in Results /\ "failed" # "ok"
      BY DEF Results
    <3> QED BY <2>1, <2>3, <2>4, <3>1, AgentEnds
  <2>6. call[r].pc # "over" /\ call' = [call EXCEPT ![r] = d]
    BY <2>1, <2>2, <2>4
  <2> HIDE DEF d
  <2> QED BY <2>1, <2>5, <2>6, CallChanges
<1>8. ASSUME NEW r \in Requests, NEW result \in Results, EndAgent(r, result) PROVE CallsInv'
  <2> DEFINE c == call[r]
             d == AfterStream(c, result)
  <2>1. c.kind = "agent" /\ c.pc = "call" /\ cache' = cache /\ call' = [call EXCEPT ![r] = d]
    BY <1>8 DEF EndAgent, Calling
  <2>2. CallInv(c) /\ c \in Calls
    BY <1>0
  <2>3. c.got \in Nat /\ c.got <= c.got /\ c = [c EXCEPT !.got = c.got]
    BY <2>2 DEF Calls
  <2>4. CallInv(AfterStream([c EXCEPT !.got = c.got], result))
    <3> HIDE DEF c
    <3> QED BY <2>1, <2>2, <2>3, AgentEnds
  <2>5. CallInv(d)
    <3> HIDE DEF c
    <3> QED BY <2>3, <2>4
  <2> HIDE DEF d
  <2> QED BY <2>1, <2>5, CallChanges
<1>9. ASSUME NEW r \in Requests, ReceiveJson(r) PROVE CallsInv'
  <2>1. call[r].kind = "json" /\ call[r].pc = "call" /\ cache' = cache
    BY <1>9 DEF ReceiveJson, Calling
  <2> DEFINE c == call[r]
  <2>2. PICK k \in 1..Left(c) :
          call' = [call EXCEPT ![r] =
              [c EXCEPT !.got = @ + k, !.assembled = @ \o Bytes(c.got, c.got + k)]]
    BY <1>9 DEF ReceiveJson
  <2> DEFINE d == [c EXCEPT !.got = @ + k, !.assembled = @ \o Bytes(c.got, c.got + k)]
  <2>3. CallInv(c)
    BY <1>0
  <2>4. CallInv(d)
    <3> QED BY <2>1, <2>2, <2>3, ReplyGoesOn
  <2>5. call' = [call EXCEPT ![r] = d]
    BY <2>2
  <2> HIDE DEF d
  <2> QED BY <2>1, <2>4, <2>5, CallChanges
<1>10. ASSUME NEW r \in Requests, NEW result \in Results, EndJson(r, result) PROVE CallsInv'
  <2> DEFINE c == call[r]
             d == Over(c, result, <<Reply(c, result)>>)
  <2>1. c.kind = "json" /\ c.pc = "call" /\ cache' = cache /\ call' = [call EXCEPT ![r] = d]
    BY <1>10 DEF EndJson, Calling
  <2>2. CallInv(c)
    BY <1>0
  <2>3. CallInv(d)
    <3> QED BY <2>1, <2>2, ReplyEnds
  <2> HIDE DEF d
  <2> QED BY <2>1, <2>3, CallChanges
<1>11. CASE Evict
  BY <1>11 DEF Evict, CallsInv
<1>12. CASE UNCHANGED callVars
  BY <1>12 DEF callVars, CallsInv
<1> QED BY <1>1, <1>2, <1>3, <1>4, <1>5, <1>6, <1>7, <1>8, <1>9, <1>10, <1>11, <1>12 DEF CallsNext

-----------------------------------------------------------------------------
(* The calls: the theorems                                                 *)

\* The inductive invariant: each call is where writeStreamData, writeStream or
\* writeString left it after the bytes it has received (OpenAIClient.cc:37-111,
\* AgentClient.cc:73-172), and an entry of the cache is the answer of a chat that
\* ended well, in whole characters (HttpServer.cc:386-391).
THEOREM CallsInvariant == CallsSpec => []CallsInv
<1> QED BY CallsInvInit, CallsInvStep, PTL DEF CallsSpec

\* However libcurl cuts the stream, writeStreamData has taken each complete line
\* once and in order and keeps the beginning of the next (OpenAIClient.cc:37-111).
THEOREM StreamIsAlwaysReassembled == CallsSpec => []StreamIsReassembled
<1>1. CallsInv => StreamIsReassembled
  BY DEF CallsInv, CallInv, ChatInv, Reassembled, StreamIsReassembled
<1> QED BY <1>1, CallsInvariant, PTL

\* A chat that is done has shown the answer of its history, in whole characters,
\* from the model or cut anew from the cache (HttpServer.cc:46-55, 343-399).
THEOREM ShownIsAlwaysAnswer == CallsSpec => []ShownIsAnswer
<1>1. CallsInv => ShownIsAnswer
  <2> SUFFICES ASSUME CallsInv, NEW r \in Requests, Told(call[r], "done")
               PROVE  /\ Shown(call[r], "delta") = Shown(call[r], "done")
                      /\ \A i \in DOMAIN call[r].out :
                            call[r].out[i].event = "delta" => WholePiece(call[r].out[i].bytes)
    BY DEF ShownIsAnswer, WholePiece
  <2> DEFINE c == call[r]
  <2>1. CallInv(c) /\ c \in Calls
    BY DEF CallsInv, CallInv
  <2>2. \A name : Shown(c, name) = ShownBy(c.out, name) /\ Told(c, name) = ToldBy(c.out, name)
    BY OutShows
  <2> HIDE DEF c
  <2>3. ShowsAnswer(c.out)
    <3>1. CASE c.kind = "chat"
      BY <2>1, <3>1 DEF CallInv, ChatInv
    <3>2. CASE c.kind = "none"
      BY <2>1, <3>2, NothingIsShown DEF CallInv, ShowsAnswer
    <3>3. CASE c.kind \in {"agent", "json"}
      BY <2>1, <3>3 DEF CallInv, AgentInv, JsonInv, ShowsAnswer
    <3> QED BY <2>1, <3>1, <3>2, <3>3 DEF Calls
  <2> QED BY <2>2, <2>3 DEF ShowsAnswer, c
<1> QED BY <1>1, CallsInvariant, PTL

\* The cache only ever holds what a stream said that ended without an error,
\* and without one among its events (HttpServer.cc:386-391, OpenAIClient.cc:288-307).
THEOREM CacheAlwaysHoldsGoodAnswers == CallsSpec => []CacheHoldsGoodAnswers
<1>1. CallsInv => CacheHoldsGoodAnswers
  BY DEF CallsInv, Answered, CacheHoldsGoodAnswers
<1> QED BY <1>1, CallsInvariant, PTL

\* An agent stream passes on what the agent sent, in order; ended without an
\* error event it is whole, and so is a reply with status 200
\* (AgentClient.cc:73-172, HttpServer.cc:206-256).
THEOREM AgentIsAlwaysRelayed == CallsSpec => []AgentIsRelayed
<1>1. CallsInv => AgentIsRelayed
  <2> SUFFICES ASSUME CallsInv, NEW r \in Requests
               PROVE  /\ call[r].kind = "agent" => Relays(call[r])
                      /\ call[r].kind = "json" => Replies(call[r])
    BY OutShows DEF AgentIsRelayed, Relays, Replies
  <2> QED BY DEF CallsInv, CallInv, AgentInv, JsonInv
<1> QED BY <1>1, CallsInvariant, PTL
=============================================================================
