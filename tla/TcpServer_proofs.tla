-------------------------- MODULE TcpServer_proofs --------------------------
(***************************************************************************)
(* A connection of TcpServer goes through six stages, for any number of    *)
(* connections, I/O loops and messages.  The invariant says what each      *)
(* stage means for the ledger, the poller, the contexts and the counters,  *)
(* and which functor may still be queued in it: the one that leads to the  *)
(* next stage, once, in the loop that has to run it.  From that follows    *)
(* that no channel dangles, that contexts match connections, and that      *)
(* every step implements a step of ConnLifecycle or leaves it unchanged.   *)
(***************************************************************************)
EXTENDS TcpServer, SequenceTheorems, TLAPS

AllLoops == 0..MaxSubLoops
Ops == {"establish", "remove", "destroy", "respond"}
Functors == [op : Ops, conn : Conns]
F(op, c) == [op |-> op, conn |-> c]
Mail == [AllLoops -> Seq(Functors)]

\* What a stage says of a connection.
Stands(c, states, i, u, d, owned, parsed) ==
    /\ state[c] \in states
    /\ index[c] = i
    /\ ups[c] = u /\ downs[c] = d
    /\ c \in ledger <=> owned
    /\ c \in contexts <=> parsed

Fresh(c)        == Stands(c, {"none"}, "new", 0, 0, FALSE, FALSE)
Establishing(c) == Stands(c, {"connecting"}, "new", 0, 0, TRUE, FALSE)
Up(c)           == Stands(c, {"connected", "disconnecting"}, "added", 1, 0, TRUE, TRUE)
Closing(c)      == Stands(c, {"disconnected"}, "deleted", 1, 1, TRUE, FALSE)
Removed(c)      == Stands(c, {"disconnected"}, "deleted", 1, 1, FALSE, FALSE)
Gone(c)         == Stands(c, {"disconnected"}, "new", 1, 1, FALSE, FALSE)

Typed ==
    /\ numSub \in 0..MaxSubLoops
    /\ nextConnId \in Nat
    /\ next \in Nat /\ (numSub > 0 => next < numSub)
    /\ ledger \subseteq Conns
    /\ loopOf \in [Conns -> Loops]
    /\ state \in [Conns -> {"none", "connecting", "connected", "disconnecting",
                            "disconnected"}]
    /\ index \in [Conns -> {"new", "added", "deleted"}]
    /\ contexts \subseteq Conns
    /\ mail \in Mail
    /\ tasks \in [Conns -> Nat]
    /\ leaving \in [Conns -> Nat]
    /\ ups \in [Conns -> Nat]
    /\ downs \in [Conns -> Nat]

InStage ==
    \A c \in Conns : IF Accepted(c)
                     THEN Establishing(c) \/ Up(c) \/ Closing(c) \/ Removed(c) \/ Gone(c)
                     ELSE Fresh(c)

\* A functor is queued only in the stage it ends, in the loop that runs it.
Due(l, op, c) ==
    /\ Accepted(c) /\ l \in Loops
    /\ op = "establish" => Establishing(c) /\ l = loopOf[c]
    /\ op = "remove" => Closing(c) /\ l = Base
    /\ op = "destroy" => Removed(c) /\ l = loopOf[c]
    /\ op = "respond" => ups[c] = 1

Holds(box, f) == \E i \in 1..Len(box) : box[i] = f

MailIsDue ==
    \A l \in AllLoops : \A f \in Functors : Holds(mail[l], f) => Due(l, f.op, f.conn)

Once(boxes) ==
    \A l \in AllLoops : \A i, j \in 1..Len(boxes[l]) :
        boxes[l][i] = boxes[l][j] /\ boxes[l][i].op # "respond" => i = j

\* The object of a removed connection lives in its last functor.
DestroyIsQueued ==
    \A c \in Conns : Removed(c) => Holds(mail[loopOf[c]], F("destroy", c))

TasksAreServed ==
    \A c \in Conns : /\ leaving[c] <= tasks[c]
                     /\ tasks[c] > 0 => ups[c] = 1

IInv == /\ Typed
        /\ InStage
        /\ MailIsDue
        /\ Once(mail)
        /\ DestroyIsQueued
        /\ TasksAreServed

-----------------------------------------------------------------------------
(* The mailboxes.                                                           *)

\* Running a functor takes it out of its mailbox, and nothing else.
LEMMA RestHolds ==
    ASSUME mail \in Mail, Once(mail), NEW l \in AllLoops, NEW h, mail[l] # <<>>,
           Head(mail[l]) = h
    PROVE  /\ Rest(l) \in Mail /\ Once(Rest(l))
           /\ h \in Functors /\ Holds(mail[l], h)
           /\ \A k \in AllLoops : \A f \in Functors :
                 /\ Holds(Rest(l)[k], f) => Holds(mail[k], f)
                 /\ Holds(mail[k], f) => Holds(Rest(l)[k], f) \/ (k = l /\ f = h)
           /\ h.op # "respond" => ~Holds(Rest(l)[l], h)
<1> DEFINE b == Rest(l)
           t == Tail(mail[l])
<1>1. /\ mail[l] \in Seq(Functors)
      /\ Len(mail[l]) \in Nat \ {0}
      /\ Head(mail[l]) = mail[l][1]
  BY EmptySeq DEF Mail
<1>2. /\ Head(mail[l]) \in Functors /\ t \in Seq(Functors)
      /\ Len(t) = Len(mail[l]) - 1
      /\ \A i \in 1..Len(t) : t[i] = mail[l][i + 1]
  BY <1>1, HeadTailProperties
<1>3. /\ b \in Mail
      /\ b[l] = t
      /\ \A k \in AllLoops : k # l => b[k] = mail[k]
  BY <1>2 DEF Mail, Rest
<1> HIDE DEF b, t
<1>4. Once(b)
  <2> SUFFICES ASSUME NEW k \in AllLoops, NEW i \in 1..Len(b[k]), NEW j \in 1..Len(b[k]),
                      b[k][i] = b[k][j], b[k][i].op # "respond"
               PROVE  i = j
    BY Zenon DEF Once
  <2>1. CASE k = l
    <3>1. /\ i + 1 \in 1..Len(mail[l]) /\ j + 1 \in 1..Len(mail[l])
          /\ b[k][i] = mail[l][i + 1] /\ b[k][j] = mail[l][j + 1]
      BY <1>1, <1>2, <1>3, <2>1
    <3>2. i + 1 = j + 1
      BY <3>1, Zenon DEF Once
    <3>3. i \in Int /\ j \in Int
      OBVIOUS
    <3>4. QED
      BY <3>2, <3>3
  <2>2. CASE k # l
    <3>1. b[k] = mail[k]
      BY <1>3, <2>2
    <3>2. QED
      BY <3>1, Zenon DEF Once
  <2>3. QED
    BY <2>1, <2>2
<1>5. Holds(mail[l], h) /\ h \in Functors
  BY <1>1, <1>2 DEF Holds
<1>6. ASSUME NEW k \in AllLoops, NEW f \in Functors, Holds(b[k], f)
      PROVE  Holds(mail[k], f)
  <2>1. PICK i \in 1..Len(b[k]) : b[k][i] = f
    BY <1>6 DEF Holds
  <2>2. CASE k = l
    <3>1. i + 1 \in 1..Len(mail[l]) /\ mail[l][i + 1] = f
      BY <1>1, <1>2, <1>3, <2>1, <2>2
    <3>2. QED
      BY <2>2, <3>1 DEF Holds
  <2>3. CASE k # l
    BY <1>3, <1>6, <2>3
  <2>4. QED
    BY <2>2, <2>3
<1>7. ASSUME NEW k \in AllLoops, NEW f \in Functors, Holds(mail[k], f), ~(k = l /\ f = h)
      PROVE  Holds(b[k], f)
  <2>1. PICK i \in 1..Len(mail[k]) : mail[k][i] = f
    BY <1>7 DEF Holds
  <2>2. CASE k = l
    <3>1. i # 1
      BY <1>1, <1>7, <2>1, <2>2
    <3>2. i - 1 \in 1..Len(t) /\ (i - 1) + 1 = i
      BY <1>1, <1>2, <2>1, <2>2, <3>1
    <3>3. t[i - 1] = f
      BY <1>2, <2>1, <2>2, <3>2
    <3>4. QED
      BY <1>3, <2>2, <3>2, <3>3 DEF Holds
  <2>3. CASE k # l
    BY <1>3, <1>7, <2>3
  <2>4. QED
    BY <2>2, <2>3
<1>8. ASSUME h.op # "respond", Holds(b[l], h) PROVE FALSE
  <2>1. PICK i \in 1..Len(t) : t[i] = h
    BY <1>3, <1>8 DEF Holds
  <2>2. i + 1 \in 1..Len(mail[l]) /\ 1 \in 1..Len(mail[l]) /\ mail[l][i + 1] = mail[l][1]
    BY <1>1, <1>2, <2>1
  <2>3. mail[l][1].op # "respond"
    BY <1>1, <1>8
  <2>4. i + 1 = 1
    BY <2>2, <2>3, Zenon DEF Once
  <2>5. QED
    BY <2>4
<1>9. QED
  BY <1>3, <1>4, <1>5, <1>6, <1>7, <1>8 DEF b

\* Queueing a functor adds it, and nothing else.
LEMMA SentHolds ==
    ASSUME NEW b \in Mail, Once(b), NEW l \in AllLoops, NEW op \in Ops, NEW c \in Conns,
           op = "respond" \/ ~Holds(b[l], F(op, c))
    PROVE  /\ Sent(b, l, op, c) \in Mail /\ Once(Sent(b, l, op, c))
           /\ \A k \in AllLoops : \A f \in Functors :
                 Holds(Sent(b, l, op, c)[k], f) <=> Holds(b[k], f) \/ (k = l /\ f = F(op, c))
<1> DEFINE s == Sent(b, l, op, c)
           g == F(op, c)
           e == Append(b[l], g)
<1>1. b[l] \in Seq(Functors) /\ Len(b[l]) \in Nat
  BY LenProperties DEF Mail
<1>2. g \in Functors /\ g.op = op
  BY DEF F, Functors
<1>3. s = [b EXCEPT ![l] = e]
  BY Zenon DEF Sent, F
<1> HIDE DEF g
<1>4. /\ e \in Seq(Functors)
      /\ Len(e) = Len(b[l]) + 1
      /\ \A i \in 1..Len(b[l]) : e[i] = b[l][i]
      /\ e[Len(b[l]) + 1] = g
  BY <1>1, <1>2, AppendProperties
<1> HIDE DEF e
<1>5. /\ s \in Mail
      /\ s[l] = e
      /\ \A k \in AllLoops : k # l => s[k] = b[k]
  BY <1>3, <1>4 DEF Mail
<1> HIDE DEF s
<1>6. Once(s)
  <2> SUFFICES ASSUME NEW k \in AllLoops, NEW i \in 1..Len(s[k]), NEW j \in 1..Len(s[k]),
                      s[k][i] = s[k][j], s[k][i].op # "respond"
               PROVE  i = j
    BY Zenon DEF Once
  <2>1. CASE k # l
    <3>1. s[k] = b[k]
      BY <1>5, <2>1
    <3>2. QED
      BY <3>1, Zenon DEF Once
  <2>2. CASE k = l
    <3> DEFINE n == Len(b[l])
    <3>1. /\ n \in Nat /\ i \in 1..(n + 1) /\ j \in 1..(n + 1)
          /\ e[i] = e[j] /\ e[i].op # "respond"
      BY <1>1, <1>4, <1>5, <2>2
    <3>2. CASE i \in 1..n /\ j \in 1..n
      <4>1. b[l][i] = b[l][j] /\ b[l][i].op # "respond"
        BY <1>4, <3>1, <3>2
      <4>2. QED
        BY <3>2, <4>1, Zenon DEF Once
    <3>3. CASE i = n + 1 /\ j = n + 1
      BY <3>3
    <3>4. ASSUME (i = n + 1 /\ j \in 1..n) \/ (j = n + 1 /\ i \in 1..n) PROVE FALSE
      <4>1. e[i] = g /\ e[j] = g
        BY <1>4, <3>1, <3>4
      <4>2. PICK x \in 1..n : b[l][x] = g
        BY <1>4, <3>4, <4>1
      <4>3. Holds(b[l], g)
        BY <4>2 DEF Holds
      <4>4. op # "respond"
        BY <1>2, <3>1, <4>1
      <4>5. QED
        BY <4>3, <4>4 DEF g
    <3>5. QED
      BY <3>1, <3>2, <3>3, <3>4
  <2>3. QED
    BY <2>1, <2>2
<1>7. ASSUME NEW k \in AllLoops, NEW f \in Functors
      PROVE  Holds(s[k], f) <=> Holds(b[k], f) \/ (k = l /\ f = g)
  <2>1. CASE k # l
    BY <1>5, <2>1
  <2>2. CASE k = l
    <3> DEFINE n == Len(b[l])
    <3>1. n \in Nat /\ Len(s[k]) = n + 1 /\ s[k] = e
      BY <1>1, <1>4, <1>5, <2>2
    <3>2. ASSUME Holds(s[k], f) PROVE Holds(b[k], f) \/ f = g
      <4>1. PICK i \in 1..(n + 1) : e[i] = f
        BY <3>1, <3>2 DEF Holds
      <4>2. CASE i \in 1..n
        <5>1. b[l][i] = f
          BY <1>4, <4>1, <4>2
        <5>2. QED
          BY <2>2, <4>2, <5>1 DEF Holds
      <4>3. CASE i = n + 1
        BY <1>4, <4>1, <4>3
      <4>4. QED
        BY <3>1, <4>2, <4>3
    <3>3. ASSUME Holds(b[k], f) PROVE Holds(s[k], f)
      <4>1. PICK i \in 1..n : b[l][i] = f
        BY <2>2, <3>3 DEF Holds
      <4>2. i \in 1..Len(s[k]) /\ s[k][i] = f
        BY <1>4, <3>1, <4>1
      <4>3. QED
        BY <4>2 DEF Holds
    <3>4. ASSUME f = g PROVE Holds(s[k], f)
      <4>1. n + 1 \in 1..Len(s[k]) /\ s[k][n + 1] = f
        BY <1>4, <3>1, <3>4
      <4>2. QED
        BY <4>1 DEF Holds
    <3>5. QED
      BY <2>2, <3>2, <3>3, <3>4
  <2>3. QED
    BY <2>1, <2>2
<1>8. QED
  BY <1>5, <1>6, <1>7 DEF s, g

-----------------------------------------------------------------------------
(* One connection moves at a time.                                          *)

\* A step leaves connection d where it is.
Quiet(d) == /\ state'[d] = state[d] /\ index'[d] = index[d]
            /\ ups'[d] = ups[d] /\ downs'[d] = downs[d]
            /\ d \in ledger' <=> d \in ledger
            /\ d \in contexts' <=> d \in contexts
            /\ loopOf'[d] = loopOf[d]
            /\ Accepted(d)' <=> Accepted(d)
            /\ tasks'[d] = tasks[d] /\ leaving'[d] = leaving[d]

\* A step changes nothing for the connections other than c.
OthersQuiet(c) ==
    /\ numSub' = numSub
    /\ \A d \in Conns \ {c} : Quiet(d)
    /\ \A l \in AllLoops : \A f \in Functors :
          f.conn # c => (Holds(mail'[l], f) <=> Holds(mail[l], f))

\* What a step has to make of connection c.
MovesRightly(c) ==
    /\ (IF Accepted(c)
        THEN Establishing(c) \/ Up(c) \/ Closing(c) \/ Removed(c) \/ Gone(c)
        ELSE Fresh(c))'
    /\ \A l \in AllLoops : \A op \in Ops : Holds(mail'[l], F(op, c)) => Due(l, op, c)'
    /\ Removed(c)' => Holds(mail'[loopOf'[c]], F("destroy", c))
    /\ leaving'[c] <= tasks'[c]
    /\ tasks'[c] > 0 => ups'[c] = 1

LEMMA QuietStays ==
    ASSUME NEW d \in Conns, Quiet(d), numSub' = numSub
    PROVE  /\ Fresh(d)' <=> Fresh(d)
           /\ Establishing(d)' <=> Establishing(d)
           /\ Up(d)' <=> Up(d)
           /\ Closing(d)' <=> Closing(d)
           /\ Removed(d)' <=> Removed(d)
           /\ Gone(d)' <=> Gone(d)
           /\ \A l \in AllLoops : \A op \in Ops : Due(l, op, d)' <=> Due(l, op, d)
<1>1. ASSUME NEW states, NEW i, NEW u, NEW w, NEW o, NEW p
      PROVE  Stands(d, states, i, u, w, o, p)' <=> Stands(d, states, i, u, w, o, p)
  BY DEF Quiet, Stands
<1>2. /\ Fresh(d)' <=> Fresh(d)
      /\ Establishing(d)' <=> Establishing(d)
      /\ Up(d)' <=> Up(d)
  BY <1>1 DEF Fresh, Establishing, Up
<1>3. /\ Closing(d)' <=> Closing(d)
      /\ Removed(d)' <=> Removed(d)
      /\ Gone(d)' <=> Gone(d)
  BY <1>1 DEF Closing, Removed, Gone
<1>4. ASSUME NEW l \in AllLoops, NEW op \in Ops PROVE Due(l, op, d)' <=> Due(l, op, d)
  BY <1>2, <1>3 DEF Due, Quiet, Loops
<1>5. QED
  BY <1>2, <1>3, <1>4

LEMMA FunctorIsF ==
    ASSUME NEW f \in Functors
    PROVE  f.op \in Ops /\ f.conn \in Conns /\ f = F(f.op, f.conn)
BY DEF Functors, F

LEMMA FIsFunctor ==
    ASSUME NEW op \in Ops, NEW c \in Conns
    PROVE  F(op, c) \in Functors /\ F(op, c).op = op /\ F(op, c).conn = c
BY DEF Functors, F

LEMMA LoopsAreLoops ==
    ASSUME Typed
    PROVE  /\ Loops \subseteq AllLoops
           /\ Base \in Loops
           /\ \A c \in Conns : loopOf[c] \in Loops /\ loopOf[c] \in AllLoops
<1>1. numSub \in 0..MaxSubLoops /\ loopOf \in [Conns -> Loops]
  BY DEF Typed
<1>2. Loops \subseteq AllLoops /\ Base \in Loops
  BY <1>1, BoundsAssumption DEF Loops, AllLoops, Base
<1>3. QED
  BY <1>1, <1>2

LEMMA OneMoves ==
    ASSUME IInv, NEW c \in Conns, OthersQuiet(c), MovesRightly(c), Typed', Once(mail')
    PROVE  IInv'
<1>1. \A d \in Conns \ {c} : Quiet(d)
  BY DEF OthersQuiet
<1>2. InStage'
  <2> SUFFICES ASSUME NEW d \in Conns
               PROVE  (IF Accepted(d)
                       THEN Establishing(d) \/ Up(d) \/ Closing(d) \/ Removed(d) \/ Gone(d)
                       ELSE Fresh(d))'
    BY DEF InStage
  <2>1. CASE d = c
    BY <2>1 DEF MovesRightly
  <2>2. CASE d # c
    <3>1. Quiet(d) /\ numSub' = numSub
      BY <1>1, <2>2 DEF OthersQuiet
    <3>2. Accepted(d)' <=> Accepted(d)
      BY <3>1 DEF Quiet
    <3>3. IF Accepted(d)
          THEN Establishing(d) \/ Up(d) \/ Closing(d) \/ Removed(d) \/ Gone(d)
          ELSE Fresh(d)
      BY DEF IInv, InStage
    <3>4. QED
      BY <3>1, <3>2, <3>3, QuietStays
  <2>3. QED
    BY <2>1, <2>2
<1>3. MailIsDue'
  <2> SUFFICES ASSUME NEW l \in AllLoops, NEW f \in Functors, Holds(mail'[l], f)
               PROVE  Due(l, f.op, f.conn)'
    BY DEF MailIsDue
  <2>1. f.op \in Ops /\ f.conn \in Conns /\ f = F(f.op, f.conn)
    BY FunctorIsF
  <2>2. CASE f.conn = c
    BY <2>1, <2>2 DEF MovesRightly
  <2>3. CASE f.conn # c
    <3>1. Quiet(f.conn) /\ numSub' = numSub /\ Holds(mail[l], f)
      BY <1>1, <2>1, <2>3 DEF OthersQuiet
    <3>2. Due(l, f.op, f.conn)
      BY <3>1 DEF IInv, MailIsDue
    <3>3. QED
      BY <2>1, <3>1, <3>2, QuietStays
  <2>4. QED
    BY <2>2, <2>3
<1>4. DestroyIsQueued'
  <2> SUFFICES ASSUME NEW d \in Conns, Removed(d)'
               PROVE  Holds(mail'[loopOf'[d]], F("destroy", d))
    BY DEF DestroyIsQueued
  <2>1. CASE d = c
    BY <2>1 DEF MovesRightly
  <2>2. CASE d # c
    <3>1. Quiet(d) /\ numSub' = numSub
      BY <1>1, <2>2 DEF OthersQuiet
    <3>2. Removed(d) /\ loopOf'[d] = loopOf[d]
      BY <3>1, QuietStays DEF Quiet
    <3>3. Holds(mail[loopOf[d]], F("destroy", d))
      BY <3>2 DEF IInv, DestroyIsQueued
    <3>4. loopOf[d] \in AllLoops
      BY LoopsAreLoops DEF IInv
    <3>5. F("destroy", d) \in Functors /\ F("destroy", d).conn = d
      BY FIsFunctor DEF Ops
    <3>6. Holds(mail'[loopOf[d]], F("destroy", d))
      BY <2>2, <3>3, <3>4, <3>5 DEF OthersQuiet
    <3>7. QED
      BY <3>2, <3>6
  <2>3. QED
    BY <2>1, <2>2
<1>5. TasksAreServed'
  <2> SUFFICES ASSUME NEW d \in Conns
               PROVE  leaving'[d] <= tasks'[d] /\ (tasks'[d] > 0 => ups'[d] = 1)
    BY DEF TasksAreServed
  <2>1. CASE d = c
    BY <2>1 DEF MovesRightly
  <2>2. CASE d # c
    BY <1>1, <2>2 DEF Quiet, IInv, TasksAreServed
  <2>3. QED
    BY <2>1, <2>2
<1>6. QED
  BY <1>2, <1>3, <1>4, <1>5 DEF IInv

\* Running a functor of connection c: those of the others stay where they are.
LEMMA PopEffect ==
    ASSUME IInv, NEW c \in Conns, NEW op \in Ops, NEW l \in Loops, NextIs(l, op, c)
    PROVE  /\ l \in AllLoops /\ Due(l, op, c) /\ Holds(mail[l], F(op, c))
           /\ Rest(l) \in Mail /\ Once(Rest(l))
           /\ \A k \in AllLoops : \A f \in Functors :
                 f.conn # c => (Holds(Rest(l)[k], f) <=> Holds(mail[k], f))
           /\ \A k \in AllLoops : \A o \in Ops :
                 /\ Holds(Rest(l)[k], F(o, c)) => Due(k, o, c)
                 /\ Holds(mail[k], F(o, c)) /\ o # op => Holds(Rest(l)[k], F(o, c))
           /\ op # "respond" => ~Holds(Rest(l)[l], F(op, c))
<1>1. l \in AllLoops /\ mail \in Mail /\ Once(mail)
  BY LoopsAreLoops DEF IInv, Typed
<1> DEFINE h == F(op, c)
<1>2. mail[l] # <<>> /\ Head(mail[l]) = h
  BY DEF NextIs, F
<1>3. h \in Functors /\ h.op = op /\ h.conn = c
  BY FIsFunctor
<1> HIDE DEF h
<1>4. /\ Rest(l) \in Mail /\ Once(Rest(l))
      /\ Holds(mail[l], h)
      /\ \A k \in AllLoops : \A f \in Functors :
            /\ Holds(Rest(l)[k], f) => Holds(mail[k], f)
            /\ Holds(mail[k], f) => Holds(Rest(l)[k], f) \/ (k = l /\ f = h)
      /\ h.op # "respond" => ~Holds(Rest(l)[l], h)
  BY <1>1, <1>2, RestHolds
<1>5. ASSUME NEW k \in AllLoops, NEW o \in Ops, Holds(mail[k], F(o, c))
      PROVE  Due(k, o, c)
  <2>1. F(o, c) \in Functors /\ F(o, c).op = o /\ F(o, c).conn = c
    BY FIsFunctor
  <2>2. QED
    BY <1>5, <2>1 DEF IInv, MailIsDue
<1>6. Due(l, op, c)
  BY <1>1, <1>4, <1>5 DEF h
<1>7. ASSUME NEW k \in AllLoops, NEW o \in Ops, Holds(Rest(l)[k], F(o, c))
      PROVE  Due(k, o, c)
  <2>1. F(o, c) \in Functors
    BY FIsFunctor
  <2>2. Holds(mail[k], F(o, c))
    BY <1>4, <1>7, <2>1
  <2>3. QED
    BY <1>5, <2>2
<1>8. ASSUME NEW k \in AllLoops, NEW f \in Functors, f.conn # c
      PROVE  Holds(Rest(l)[k], f) <=> Holds(mail[k], f)
  BY <1>3, <1>4, <1>8
<1>9. ASSUME NEW k \in AllLoops, NEW o \in Ops, Holds(mail[k], F(o, c)), o # op
      PROVE  Holds(Rest(l)[k], F(o, c))
  <2>1. F(o, c) \in Functors /\ F(o, c).op = o
    BY FIsFunctor
  <2>2. F(o, c) # h
    BY <1>3, <1>9, <2>1
  <2>3. QED
    BY <1>4, <1>9, <2>1, <2>2
<1>10. QED
  BY <1>1, <1>3, <1>4, <1>6, <1>7, <1>8, <1>9 DEF h

\* Queueing a functor for connection c: those of the others stay where they are.
LEMMA PushEffect ==
    ASSUME NEW b \in Mail, Once(b), NEW c \in Conns, NEW op \in Ops, NEW l \in AllLoops,
           op = "respond" \/ ~Holds(b[l], F(op, c))
    PROVE  /\ Sent(b, l, op, c) \in Mail /\ Once(Sent(b, l, op, c))
           /\ Holds(Sent(b, l, op, c)[l], F(op, c))
           /\ \A k \in AllLoops : \A f \in Functors :
                 f.conn # c => (Holds(Sent(b, l, op, c)[k], f) <=> Holds(b[k], f))
           /\ \A k \in AllLoops : \A o \in Ops :
                 /\ Holds(Sent(b, l, op, c)[k], F(o, c))
                       => Holds(b[k], F(o, c)) \/ (k = l /\ o = op)
                 /\ Holds(b[k], F(o, c)) => Holds(Sent(b, l, op, c)[k], F(o, c))
<1>1. /\ Sent(b, l, op, c) \in Mail /\ Once(Sent(b, l, op, c))
      /\ \A k \in AllLoops : \A f \in Functors :
            Holds(Sent(b, l, op, c)[k], f) <=> Holds(b[k], f) \/ (k = l /\ f = F(op, c))
  BY SentHolds
<1>2. ASSUME NEW o \in Ops
      PROVE  F(o, c) \in Functors /\ F(o, c).conn = c /\ F(o, c).op = o
  BY FIsFunctor
<1>3. QED
  BY <1>1, <1>2

\* What is known of the functors of a connection that may be queued.
LEMMA QueuedIsDue ==
    ASSUME IInv, NEW c \in Conns, NEW k \in AllLoops, NEW o \in Ops, Holds(mail[k], F(o, c))
    PROVE  Due(k, o, c)
<1>1. F(o, c) \in Functors /\ F(o, c).op = o /\ F(o, c).conn = c
  BY FIsFunctor
<1>2. QED
  BY <1>1 DEF IInv, MailIsDue

\* A connection that somebody refers to has not been freed.
LEMMA OwnedOrQueuedIsReferenced ==
    ASSUME NEW c \in Conns,
           \/ c \in ledger
           \/ tasks[c] > 0
           \/ \E l \in Loops, op \in Ops : Holds(mail[l], F(op, c))
    PROVE  Referenced(c) /\ ~Freed(c)
<1>1. ASSUME NEW l \in Loops, NEW op \in Ops, Holds(mail[l], F(op, c)) PROVE Mentions(l, c)
  <2>1. PICK i \in 1..Len(mail[l]) : mail[l][i] = F(op, c)
    BY <1>1 DEF Holds
  <2>2. mail[l][i].conn = c
    BY <2>1, FIsFunctor
  <2>3. QED
    BY <2>2 DEF Mentions
<1>2. QED
  BY <1>1 DEF Referenced, Freed

-----------------------------------------------------------------------------
(* The actions, one by one: each moves one connection, rightly, and makes   *)
(* of it what ConnLifecycle allows.                                         *)

\* The object is there when the step is made, and it outlives a callback.
Promised(c) ==
    /\ ~Freed(c)
    /\ \/ ups' = ups /\ downs' = downs
       \/ ups[c] = 0 /\ ups' = [ups EXCEPT ![c] = 1] /\ downs' = downs /\ ~Freed(c)'
       \/ /\ ups[c] = 1 /\ downs[c] = 0
          /\ downs' = [downs EXCEPT ![c] = 1] /\ ups' = ups /\ ~Freed(c)'

Moves(c) == /\ OthersQuiet(c)
            /\ MovesRightly(c)
            /\ Typed' /\ Once(mail')
            /\ Promised(c)

\* Running a functor that changes at most the connection's own entries.
LEMMA RunRespondMoves ==
    ASSUME IInv, NEW c \in Conns, NEW l \in Loops, RunRespond(l, c)
    PROVE  Moves(c)
<1>1. /\ "respond" \in Ops /\ NextIs(l, "respond", c) /\ mail' = Rest(l)
      /\ UNCHANGED <<serverVars, ledger, index, contexts, held, peerVars, ups, downs>>
      /\ \/ state' = state
         \/ state[c] = "connected" /\ state' = [state EXCEPT ![c] = "disconnecting"]
  BY DEF RunRespond, Ops
<1>2. /\ l \in AllLoops /\ Due(l, "respond", c) /\ Holds(mail[l], F("respond", c))
      /\ mail' \in Mail /\ Once(mail')
      /\ \A k \in AllLoops : \A f \in Functors :
            f.conn # c => (Holds(mail'[k], f) <=> Holds(mail[k], f))
      /\ \A k \in AllLoops : \A o \in Ops :
            /\ Holds(mail'[k], F(o, c)) => Due(k, o, c)
            /\ Holds(mail[k], F(o, c)) /\ o # "respond" => Holds(mail'[k], F(o, c))
  BY <1>1, PopEffect
<1>3. Typed'
  BY <1>1, <1>2 DEF IInv, Typed, serverVars, held, Loops
<1>4. OthersQuiet(c)
  <2>1. \A d \in Conns \ {c} : Quiet(d)
    BY <1>1 DEF IInv, Typed, Quiet, serverVars, held, Accepted
  <2>2. QED
    BY <1>1, <1>2, <2>1 DEF OthersQuiet, serverVars
<1>5. /\ Establishing(c)' <=> Establishing(c)
      /\ Up(c)' <=> Up(c)
      /\ Closing(c)' <=> Closing(c)
      /\ Removed(c)' <=> Removed(c)
      /\ Gone(c)' <=> Gone(c)
      /\ Fresh(c)' <=> Fresh(c)
  BY <1>1 DEF IInv, Typed, Establishing, Up, Closing, Removed, Gone, Fresh, Stands
<1>6. MovesRightly(c)
  <2>1. \A k \in AllLoops : \A o \in Ops : Due(k, o, c)' <=> Due(k, o, c)
    BY <1>1, <1>5 DEF Due, serverVars, Accepted, Loops
  <2>2. Removed(c)' => Holds(mail'[loopOf'[c]], F("destroy", c))
    <3> SUFFICES ASSUME Removed(c) PROVE Holds(mail'[loopOf[c]], F("destroy", c))
      BY <1>1, <1>5 DEF serverVars
    <3>1. Holds(mail[loopOf[c]], F("destroy", c)) /\ loopOf[c] \in AllLoops
      BY LoopsAreLoops DEF IInv, DestroyIsQueued
    <3>2. "destroy" \in Ops /\ "destroy" # "respond"
      BY DEF Ops
    <3>3. QED
      BY <1>2, <3>1, <3>2
  <2>3. QED
    BY <1>1, <1>2, <1>5, <2>1, <2>2
       DEF MovesRightly, IInv, InStage, TasksAreServed, serverVars, held, Accepted
<1>7. Promised(c)
  BY <1>1, <1>2, OwnedOrQueuedIsReferenced DEF Promised
<1>8. QED
  BY <1>2, <1>3, <1>4, <1>6, <1>7 DEF Moves

LEMMA RunDestroyMoves ==
    ASSUME IInv, NEW c \in Conns, NEW l \in Loops, RunDestroy(l, c)
    PROVE  Moves(c)
<1>1. "destroy" \in Ops /\ NextIs(l, "destroy", c) /\ mail' = Rest(l) /\ "destroy" # "respond"
  BY DEF RunDestroy, Ops
<1>2. /\ l \in AllLoops /\ Due(l, "destroy", c) /\ Holds(mail[l], F("destroy", c))
      /\ mail' \in Mail /\ Once(mail')
      /\ \A k \in AllLoops : \A f \in Functors :
            f.conn # c => (Holds(mail'[k], f) <=> Holds(mail[k], f))
      /\ \A k \in AllLoops : \A o \in Ops : Holds(mail'[k], F(o, c)) => Due(k, o, c)
      /\ ~Holds(mail'[l], F("destroy", c))
  BY <1>1, PopEffect
<1>3. Removed(c) /\ l = loopOf[c] /\ Accepted(c)
  BY <1>2 DEF Due
<1>4. state[c] = "disconnected"
  BY <1>3 DEF Removed, Stands
<1>5. /\ UNCHANGED <<serverVars, ledger, held, peerVars, state, contexts, ups, downs>>
      /\ index' = [index EXCEPT ![c] = "new"]
  BY <1>4 DEF RunDestroy, ConnectDestroyed, RemoveChannel
<1>6. Typed'
  BY <1>2, <1>5 DEF IInv, Typed, serverVars, held, Loops
<1>7. OthersQuiet(c)
  <2>1. \A d \in Conns \ {c} : Quiet(d)
    BY <1>5 DEF IInv, Typed, Quiet, serverVars, held, Accepted
  <2>2. QED
    BY <1>2, <1>5, <2>1 DEF OthersQuiet, serverVars
<1>8. Gone(c)' /\ ~Removed(c)'
  BY <1>3, <1>5 DEF IInv, Typed, Gone, Removed, Stands
<1>9. ASSUME NEW k \in AllLoops, NEW o \in Ops, Holds(mail'[k], F(o, c))
      PROVE  Due(k, o, c)'
  <2>1. Due(k, o, c) /\ ~(k = l /\ o = "destroy")
    BY <1>2, <1>9
  <2>2. o = "respond"
    BY <1>3, <2>1 DEF Due, Removed, Establishing, Closing, Stands, Ops
  <2>3. QED
    BY <1>5, <2>1, <2>2 DEF Due, serverVars, Accepted, Loops
<1>10. MovesRightly(c)
  BY <1>3, <1>5, <1>8, <1>9 DEF MovesRightly, IInv, TasksAreServed, serverVars, held, Accepted
<1>11. Promised(c)
  BY <1>1, <1>2, <1>5, OwnedOrQueuedIsReferenced DEF Promised
<1>12. QED
  BY <1>2, <1>6, <1>7, <1>10, <1>11 DEF Moves

LEMMA RunEstablishMoves ==
    ASSUME IInv, NEW c \in Conns, NEW l \in Loops, RunEstablish(l, c)
    PROVE  Moves(c)
<1>1. /\ "establish" \in Ops /\ NextIs(l, "establish", c) /\ mail' = Rest(l)
      /\ "establish" # "respond"
  BY DEF RunEstablish, Ops
<1>2. /\ l \in AllLoops /\ Due(l, "establish", c) /\ Holds(mail[l], F("establish", c))
      /\ mail' \in Mail /\ Once(mail')
      /\ \A k \in AllLoops : \A f \in Functors :
            f.conn # c => (Holds(mail'[k], f) <=> Holds(mail[k], f))
      /\ \A k \in AllLoops : \A o \in Ops : Holds(mail'[k], F(o, c)) => Due(k, o, c)
      /\ ~Holds(mail'[l], F("establish", c))
  BY <1>1, PopEffect
<1>3. Establishing(c) /\ l = loopOf[c] /\ Accepted(c)
  BY <1>2 DEF Due
<1>4. /\ UNCHANGED <<serverVars, ledger, held, peerVars, downs>>
      /\ state' = [state EXCEPT ![c] = "connected"]
      /\ index' = [index EXCEPT ![c] = "added"]
      /\ contexts' = contexts \cup {c}
      /\ ups' = [ups EXCEPT ![c] = @ + 1]
  <2>1. UpdateChannel(c, TRUE) => index' = [index EXCEPT ![c] = "added"]
    BY DEF UpdateChannel
  <2>2. QED
    BY <2>1 DEF RunEstablish, ConnectEstablished, ConnectionCallback
<1>5. ups[c] = 0 /\ ups' = [ups EXCEPT ![c] = 1]
  <2>1. ups[c] = 0
    BY <1>3 DEF Establishing, Stands
  <2>2. QED
    BY <1>4, <2>1
<1>6. Typed'
  BY <1>2, <1>4, <1>5 DEF IInv, Typed, serverVars, held, Loops
<1>7. OthersQuiet(c)
  <2>1. \A d \in Conns \ {c} : Quiet(d)
    BY <1>4, <1>5 DEF IInv, Typed, Quiet, serverVars, held, Accepted
  <2>2. QED
    BY <1>2, <1>4, <2>1 DEF OthersQuiet, serverVars
<1>8. Up(c)' /\ ~Removed(c)' /\ ups'[c] = 1
  BY <1>3, <1>4, <1>5 DEF IInv, Typed, Up, Establishing, Removed, Stands
<1>9. ASSUME NEW k \in AllLoops, NEW o \in Ops, Holds(mail'[k], F(o, c))
      PROVE  FALSE
  <2>1. Due(k, o, c) /\ ~(k = l /\ o = "establish")
    BY <1>2, <1>9
  <2>2. QED
    BY <1>3, <2>1 DEF Due, Removed, Establishing, Closing, Stands, Ops
<1>10. MovesRightly(c)
  BY <1>3, <1>4, <1>8, <1>9 DEF MovesRightly, IInv, TasksAreServed, serverVars, held, Accepted
<1>11. c \in ledger /\ c \in ledger'
  BY <1>3, <1>4 DEF Establishing, Stands
<1>12. ~Freed(c) /\ ~Freed(c)'
  BY <1>11 DEF Freed, Referenced
<1>13. Promised(c)
  BY <1>4, <1>5, <1>12 DEF Promised
<1>14. QED
  BY <1>2, <1>6, <1>7, <1>10, <1>13 DEF Moves

LEMMA RunRemoveMoves ==
    ASSUME IInv, NEW c \in Conns, NEW l \in Loops, RunRemove(l, c)
    PROVE  Moves(c)
<1>1. /\ "remove" \in Ops /\ NextIs(l, "remove", c)
      /\ mail' = Sent(Rest(l), loopOf[c], "destroy", c)
      /\ "remove" # "respond" /\ "destroy" \in Ops
      /\ ledger' = ledger \ {c}
      /\ UNCHANGED <<serverVars, state, index, contexts, held, peerVars, ups, downs>>
  BY DEF RunRemove, RemoveConnectionInLoop, Ops
<1>2. /\ l \in AllLoops /\ Due(l, "remove", c) /\ Holds(mail[l], F("remove", c))
      /\ Rest(l) \in Mail /\ Once(Rest(l))
      /\ \A k \in AllLoops : \A f \in Functors :
            f.conn # c => (Holds(Rest(l)[k], f) <=> Holds(mail[k], f))
      /\ \A k \in AllLoops : \A o \in Ops : Holds(Rest(l)[k], F(o, c)) => Due(k, o, c)
      /\ ~Holds(Rest(l)[l], F("remove", c))
  BY <1>1, PopEffect
<1>3. Closing(c) /\ l = Base /\ Accepted(c)
  BY <1>2 DEF Due
<1>4. loopOf[c] \in Loops /\ loopOf[c] \in AllLoops
  BY LoopsAreLoops DEF IInv
<1>5. ~Holds(Rest(l)[loopOf[c]], F("destroy", c))
  <2>1. Holds(Rest(l)[loopOf[c]], F("destroy", c)) => Due(loopOf[c], "destroy", c)
    BY <1>1, <1>2, <1>4
  <2>2. QED
    BY <1>3, <2>1 DEF Due, Removed, Closing, Stands
<1>6. /\ mail' \in Mail /\ Once(mail')
      /\ Holds(mail'[loopOf[c]], F("destroy", c))
      /\ \A k \in AllLoops : \A f \in Functors :
            f.conn # c => (Holds(mail'[k], f) <=> Holds(Rest(l)[k], f))
      /\ \A k \in AllLoops : \A o \in Ops :
            Holds(mail'[k], F(o, c))
               => Holds(Rest(l)[k], F(o, c)) \/ (k = loopOf[c] /\ o = "destroy")
  BY <1>1, <1>2, <1>4, <1>5, PushEffect
<1>7. Typed'
  BY <1>1, <1>6 DEF IInv, Typed, serverVars, held, Loops
<1>8. OthersQuiet(c)
  <2>1. \A d \in Conns \ {c} : Quiet(d)
    BY <1>1 DEF IInv, Typed, Quiet, serverVars, held, Accepted
  <2>2. QED
    BY <1>1, <1>2, <1>6, <2>1 DEF OthersQuiet, serverVars
<1>9. Removed(c)'
  BY <1>1, <1>3 DEF IInv, Typed, Closing, Removed, Stands
<1>10. ASSUME NEW k \in AllLoops, NEW o \in Ops, Holds(mail'[k], F(o, c))
       PROVE  Due(k, o, c)'
  <2>1. CASE k = loopOf[c] /\ o = "destroy"
    BY <1>1, <1>3, <1>4, <1>9, <2>1 DEF Due, serverVars, Accepted, Loops
  <2>2. CASE Holds(Rest(l)[k], F(o, c))
    <3>1. Due(k, o, c) /\ ~(k = l /\ o = "remove")
      BY <1>2, <2>2
    <3>2. o = "respond"
      BY <1>3, <3>1 DEF Due, Removed, Establishing, Closing, Stands, Ops
    <3>3. QED
      BY <1>1, <3>1, <3>2 DEF Due, serverVars, Accepted, Loops
  <2>3. QED
    BY <1>6, <1>10, <2>1, <2>2
<1>11. MovesRightly(c)
  BY <1>1, <1>3, <1>6, <1>9, <1>10
     DEF MovesRightly, IInv, TasksAreServed, serverVars, held, Accepted
<1>12. Promised(c)
  BY <1>1, <1>2, OwnedOrQueuedIsReferenced DEF Promised
<1>13. QED
  BY <1>6, <1>7, <1>8, <1>11, <1>12 DEF Moves

\* Only a connection that is up has its channel in epoll.
LEMMA ReadableIsUp ==
    ASSUME IInv, NEW c \in Conns, index[c] = "added"
    PROVE  Up(c) /\ Accepted(c)
BY DEF IInv, InStage, Fresh, Establishing, Closing, Removed, Gone, Stands

LEMMA HandleMessageMoves ==
    ASSUME IInv, NEW c \in Conns, HandleMessage(c)
    PROVE  Moves(c)
<1>1. /\ index[c] = "added"
      /\ contexts' = contexts \cup {c}
      /\ tasks' = [tasks EXCEPT ![c] = @ + 1]
      /\ UNCHANGED <<serverVars, ledger, state, index, mail, leaving, ups, downs>>
  BY DEF HandleMessage, Readable
<1>2. Up(c) /\ Accepted(c)
  BY <1>1, ReadableIsUp
<1>3. c \in contexts /\ contexts' = contexts /\ ups[c] = 1 /\ c \in ledger
  BY <1>1, <1>2 DEF Up, Stands
<1>4. tasks' \in [Conns -> Nat] /\ leaving[c] <= tasks[c] /\ leaving[c] \in Nat /\ tasks[c] \in Nat
  BY <1>1 DEF IInv, Typed, TasksAreServed
<1>5. leaving'[c] <= tasks'[c]
  BY <1>1, <1>4 DEF IInv, Typed
<1>6. Typed' /\ Once(mail')
  BY <1>1, <1>3, <1>4 DEF IInv, Typed, serverVars, Loops
<1>7. OthersQuiet(c)
  <2>1. \A d \in Conns \ {c} : Quiet(d)
    BY <1>1, <1>3 DEF IInv, Typed, Quiet, serverVars, Accepted
  <2>2. QED
    BY <1>1, <2>1 DEF OthersQuiet, serverVars
<1>8. Up(c)' /\ ~Removed(c)'
  BY <1>1, <1>2, <1>3 DEF Up, Removed, Stands
<1>9. ASSUME NEW k \in AllLoops, NEW o \in Ops, Holds(mail'[k], F(o, c))
      PROVE  Due(k, o, c)'
  <2>1. Due(k, o, c)
    BY <1>1, <1>9, QueuedIsDue
  <2>2. o = "respond"
    BY <1>2, <2>1 DEF Due, Up, Removed, Establishing, Closing, Stands, Ops
  <2>3. QED
    BY <1>1, <2>1, <2>2 DEF Due, serverVars, Accepted, Loops
<1>10. MovesRightly(c)
  BY <1>1, <1>2, <1>3, <1>5, <1>8, <1>9 DEF MovesRightly, serverVars, Accepted
<1>11. Promised(c)
  BY <1>1, <1>3, OwnedOrQueuedIsReferenced DEF Promised
<1>12. QED
  BY <1>6, <1>7, <1>10, <1>11 DEF Moves

LEMMA HandleCloseMoves ==
    ASSUME IInv, NEW c \in Conns, HandleClose(c)
    PROVE  Moves(c)
<1>1. /\ index[c] = "added"
      /\ state' = [state EXCEPT ![c] = "disconnected"]
      /\ index' = [index EXCEPT ![c] = "deleted"]
      /\ contexts' = contexts \ {c}
      /\ downs' = [downs EXCEPT ![c] = @ + 1]
      /\ UNCHANGED <<serverVars, held, peerVars, ups>>
  <2>1. index[c] = "added" /\ UpdateChannel(c, FALSE) /\ ConnectionCallback(c, "disconnected")
    BY DEF HandleClose, Readable
  <2>2. index' = [index EXCEPT ![c] = "deleted"]
    BY <2>1 DEF UpdateChannel
  <2>3. QED
    BY <2>1, <2>2 DEF HandleClose, ConnectionCallback
<1>2. Up(c) /\ Accepted(c)
  BY <1>1, ReadableIsUp
<1>3. ups[c] = 1 /\ downs[c] = 0 /\ c \in ledger /\ downs' = [downs EXCEPT ![c] = 1]
  <2>1. ups[c] = 1 /\ downs[c] = 0 /\ c \in ledger
    BY <1>2 DEF Up, Stands
  <2>2. QED
    BY <1>1, <2>1
<1>4. ASSUME NEW k \in AllLoops, NEW o \in Ops, Holds(mail[k], F(o, c))
      PROVE  o = "respond" /\ k \in Loops
  <2>1. Due(k, o, c)
    BY <1>4, QueuedIsDue
  <2>2. QED
    BY <1>2, <2>1 DEF Due, Up, Removed, Establishing, Closing, Stands, Ops
<1>5. /\ loopOf[c] \in Loops /\ Base \in Loops /\ Base \in AllLoops
      /\ mail \in Mail /\ Once(mail)
      /\ "remove" \in Ops /\ "destroy" \in Ops /\ "remove" # "respond" /\ "destroy" # "respond"
  BY LoopsAreLoops DEF IInv, Typed, Ops
<1>6. \E op \in {"remove", "destroy"} :
         /\ mail' = Sent(mail, Base, op, c)
         /\ op = "destroy" => loopOf[c] = Base /\ ledger' = ledger \ {c}
         /\ op = "remove" => ledger' = ledger
  BY DEF HandleClose, RemoveConnectionInLoop
<1>7. PICK op \in {"remove", "destroy"} :
         /\ mail' = Sent(mail, Base, op, c)
         /\ op = "destroy" => loopOf[c] = Base /\ ledger' = ledger \ {c}
         /\ op = "remove" => ledger' = ledger
  BY <1>6
<1>8. op \in Ops /\ op # "respond" /\ ~Holds(mail[Base], F(op, c))
  BY <1>4, <1>5
<1>9. /\ mail' \in Mail /\ Once(mail')
      /\ Holds(mail'[Base], F(op, c))
      /\ \A k \in AllLoops : \A f \in Functors :
            f.conn # c => (Holds(mail'[k], f) <=> Holds(mail[k], f))
      /\ \A k \in AllLoops : \A o \in Ops :
            Holds(mail'[k], F(o, c)) => Holds(mail[k], F(o, c)) \/ (k = Base /\ o = op)
  BY <1>5, <1>7, <1>8, PushEffect
<1>10. ledger' \subseteq Conns /\ \A d \in Conns \ {c} : d \in ledger' <=> d \in ledger
  BY <1>7 DEF IInv, Typed
<1>11. Typed'
  BY <1>1, <1>3, <1>9, <1>10 DEF IInv, Typed, serverVars, held, Loops
<1>12. OthersQuiet(c)
  <2>1. \A d \in Conns \ {c} : Quiet(d)
    BY <1>1, <1>3, <1>10 DEF IInv, Typed, Quiet, serverVars, held, Accepted
  <2>2. QED
    BY <1>1, <1>9, <2>1 DEF OthersQuiet, serverVars
<1>13. /\ op = "destroy" => Removed(c)'
       /\ op = "remove" => Closing(c)' /\ ~Removed(c)'
  BY <1>1, <1>2, <1>3, <1>7 DEF IInv, Typed, Up, Closing, Removed, Stands
<1>14. ASSUME NEW k \in AllLoops, NEW o \in Ops, Holds(mail'[k], F(o, c))
       PROVE  Due(k, o, c)'
  <2>1. CASE k = Base /\ o = op
    BY <1>1, <1>2, <1>5, <1>7, <1>13, <2>1 DEF Due, serverVars, Accepted, Loops
  <2>2. CASE Holds(mail[k], F(o, c))
    BY <1>1, <1>2, <1>3, <1>4, <2>2 DEF Due, serverVars, Accepted, Loops
  <2>3. QED
    BY <1>9, <1>14, <2>1, <2>2
<1>15. MovesRightly(c)
  <2>1. Removed(c)' => Holds(mail'[loopOf'[c]], F("destroy", c))
    BY <1>1, <1>7, <1>9, <1>13 DEF serverVars
  <2>2. leaving'[c] <= tasks'[c] /\ (tasks'[c] > 0 => ups'[c] = 1)
    BY <1>1, <1>3 DEF IInv, TasksAreServed, held
  <2>3. Accepted(c)'
    BY <1>1, <1>2 DEF Accepted, serverVars
  <2>4. QED
    BY <1>7, <1>13, <1>14, <2>1, <2>2, <2>3 DEF MovesRightly
<1>16. ~Freed(c) /\ ~Freed(c)'
  <2>1. ~Freed(c)
    BY <1>3, OwnedOrQueuedIsReferenced
  <2>2. Mentions(Base, c)'
    <3>1. PICK i \in 1..Len(mail'[Base]) : mail'[Base][i] = F(op, c)
      BY <1>9 DEF Holds
    <3>2. mail'[Base][i].conn = c
      BY <3>1, <1>8, FIsFunctor
    <3>3. QED
      BY <3>2 DEF Mentions
  <2>3. Base \in Loops'
    BY <1>1, <1>5 DEF serverVars, Loops
  <2>4. QED
    BY <2>1, <2>2, <2>3 DEF Freed, Referenced
<1>17. Promised(c)
  BY <1>1, <1>3, <1>16 DEF Promised
<1>18. QED
  BY <1>9, <1>11, <1>12, <1>15, <1>17 DEF Moves

LEMMA WorkerRespondsMoves ==
    ASSUME IInv, NEW c \in Conns, WorkerResponds(c)
    PROVE  Moves(c)
<1>1. /\ tasks[c] > leaving[c]
      /\ leaving' = [leaving EXCEPT ![c] = @ + 1]
      /\ mail' = Sent(mail, loopOf[c], "respond", c)
      /\ UNCHANGED <<serverVars, ledger, state, index, contexts, tasks, ups, downs>>
  BY DEF WorkerResponds
<1>2. tasks[c] \in Nat /\ leaving[c] \in Nat /\ leaving \in [Conns -> Nat]
  BY DEF IInv, Typed
<1>3. /\ leaving'[c] <= tasks'[c]
      /\ leaving' \in [Conns -> Nat]
      /\ tasks[c] > 0
      /\ \A d \in Conns \ {c} : leaving'[d] = leaving[d]
  BY <1>1, <1>2
<1>4. ups[c] = 1
  BY <1>3 DEF IInv, TasksAreServed
<1>5. Accepted(c)
  BY <1>4 DEF IInv, InStage, Fresh, Stands
<1>6. loopOf[c] \in Loops /\ loopOf[c] \in AllLoops /\ "respond" \in Ops
      /\ mail \in Mail /\ Once(mail)
  BY LoopsAreLoops DEF IInv, Typed, Ops
<1>7. /\ mail' \in Mail /\ Once(mail')
      /\ \A k \in AllLoops : \A f \in Functors :
            f.conn # c => (Holds(mail'[k], f) <=> Holds(mail[k], f))
      /\ \A k \in AllLoops : \A o \in Ops :
            /\ Holds(mail'[k], F(o, c))
                  => Holds(mail[k], F(o, c)) \/ (k = loopOf[c] /\ o = "respond")
            /\ Holds(mail[k], F(o, c)) => Holds(mail'[k], F(o, c))
  BY <1>1, <1>6, PushEffect
<1>8. Typed'
  BY <1>1, <1>3, <1>7 DEF IInv, Typed, serverVars, Loops
<1>9. OthersQuiet(c)
  <2>1. \A d \in Conns \ {c} : Quiet(d)
    BY <1>1, <1>3 DEF IInv, Typed, Quiet, serverVars, Accepted
  <2>2. QED
    BY <1>1, <1>7, <2>1 DEF OthersQuiet, serverVars
<1>10. /\ Establishing(c)' <=> Establishing(c)
       /\ Up(c)' <=> Up(c)
       /\ Closing(c)' <=> Closing(c)
       /\ Removed(c)' <=> Removed(c)
       /\ Gone(c)' <=> Gone(c)
  BY <1>1 DEF Establishing, Up, Closing, Removed, Gone, Stands
<1>11. ASSUME NEW k \in AllLoops, NEW o \in Ops, Holds(mail'[k], F(o, c))
       PROVE  Due(k, o, c)'
  <2>1. CASE k = loopOf[c] /\ o = "respond"
    BY <1>1, <1>4, <1>5, <1>6, <2>1 DEF Due, serverVars, Accepted, Loops
  <2>2. CASE Holds(mail[k], F(o, c))
    <3>1. Due(k, o, c)
      BY <2>2, QueuedIsDue
    <3>2. QED
      BY <1>1, <1>10, <3>1 DEF Due, serverVars, Accepted, Loops
  <2>3. QED
    BY <1>7, <1>11, <2>1, <2>2
<1>12. MovesRightly(c)
  <2>1. ASSUME Removed(c)' PROVE Holds(mail'[loopOf'[c]], F("destroy", c))
    <3>1. Holds(mail[loopOf[c]], F("destroy", c)) /\ "destroy" \in Ops
      BY <1>10, <2>1 DEF IInv, DestroyIsQueued, Ops
    <3>2. QED
      BY <1>1, <1>6, <1>7, <3>1 DEF serverVars
  <2>2. QED
    BY <1>1, <1>3, <1>4, <1>5, <1>10, <1>11, <2>1
       DEF MovesRightly, IInv, InStage, serverVars, Accepted
<1>13. Promised(c)
  BY <1>1, <1>3, OwnedOrQueuedIsReferenced DEF Promised
<1>14. QED
  BY <1>7, <1>8, <1>9, <1>12, <1>13 DEF Moves

LEMMA WorkerReleasesMoves ==
    ASSUME IInv, NEW c \in Conns, WorkerReleases(c)
    PROVE  Moves(c)
<1>1. /\ leaving[c] > 0
      /\ leaving' = [leaving EXCEPT ![c] = @ - 1]
      /\ tasks' = [tasks EXCEPT ![c] = @ - 1]
      /\ UNCHANGED <<serverVars, ledger, state, index, contexts, mail, ups, downs>>
  BY DEF WorkerReleases
<1>2. /\ tasks[c] \in Nat /\ leaving[c] \in Nat /\ leaving[c] <= tasks[c]
      /\ leaving \in [Conns -> Nat] /\ tasks \in [Conns -> Nat]
      /\ tasks[c] > 0 => ups[c] = 1
  BY DEF IInv, Typed, TasksAreServed
<1>3. /\ tasks[c] > 0 /\ ups[c] = 1
      /\ leaving'[c] <= tasks'[c]
      /\ leaving' \in [Conns -> Nat] /\ tasks' \in [Conns -> Nat]
      /\ \A d \in Conns \ {c} : leaving'[d] = leaving[d] /\ tasks'[d] = tasks[d]
  BY <1>1, <1>2
<1>4. Accepted(c)
  BY <1>3 DEF IInv, InStage, Fresh, Stands
<1>5. Typed' /\ Once(mail')
  BY <1>1, <1>3 DEF IInv, Typed, serverVars, Loops
<1>6. OthersQuiet(c)
  <2>1. \A d \in Conns \ {c} : Quiet(d)
    BY <1>1, <1>3 DEF IInv, Typed, Quiet, serverVars, Accepted
  <2>2. QED
    BY <1>1, <2>1 DEF OthersQuiet, serverVars
<1>7. /\ Establishing(c)' <=> Establishing(c)
      /\ Up(c)' <=> Up(c)
      /\ Closing(c)' <=> Closing(c)
      /\ Removed(c)' <=> Removed(c)
      /\ Gone(c)' <=> Gone(c)
  BY <1>1 DEF Establishing, Up, Closing, Removed, Gone, Stands
<1>8. ASSUME NEW k \in AllLoops, NEW o \in Ops, Holds(mail'[k], F(o, c))
      PROVE  Due(k, o, c)'
  <2>1. Due(k, o, c)
    BY <1>1, <1>8, QueuedIsDue
  <2>2. QED
    BY <1>1, <1>7, <2>1 DEF Due, serverVars, Accepted, Loops
<1>9. MovesRightly(c)
  <2>1. Removed(c)' => Holds(mail'[loopOf'[c]], F("destroy", c))
    BY <1>1, <1>7 DEF IInv, DestroyIsQueued, serverVars
  <2>2. QED
    BY <1>1, <1>3, <1>4, <1>7, <1>8, <2>1
       DEF MovesRightly, IInv, InStage, serverVars, Accepted
<1>10. Promised(c)
  BY <1>1, <1>3, OwnedOrQueuedIsReferenced DEF Promised
<1>11. QED
  BY <1>5, <1>6, <1>9, <1>10 DEF Moves

\* The round robin stays within the I/O loops.
LEMMA NextLoopIsALoop ==
    ASSUME Typed
    PROVE  /\ GetNextLoop \in Loops
           /\ AdvanceNext \in Nat /\ (numSub > 0 => AdvanceNext < numSub)
<1>1. numSub \in Nat /\ next \in Nat /\ (numSub > 0 => next < numSub)
  BY BoundsAssumption DEF Typed
<1>2. CASE numSub = 0
  BY <1>1, <1>2 DEF GetNextLoop, AdvanceNext, Loops, Base
<1>3. CASE numSub > 0
  <2>1. PICK n \in Nat, m \in Nat : n = next /\ m = numSub
    BY <1>1
  <2>2. m > 0 /\ n < m
    BY <1>1, <1>3, <2>1
  <2>3. (n + 1) % m \in 0..(m - 1)
    BY <2>2
  <2>4. n + 1 \in 0..m
    BY <2>2
  <2>5. QED
    BY <1>3, <2>1, <2>2, <2>3, <2>4 DEF GetNextLoop, AdvanceNext, Loops, Base
<1>4. QED
  BY <1>1, <1>2, <1>3

LEMMA NewConnectionMoves ==
    ASSUME IInv, NewConnection
    PROVE  nextConnId \in Conns /\ Moves(nextConnId)
<1>1. PICK c \in Conns : c = nextConnId
  BY DEF NewConnection
<1>2. PICK l \in Loops : l = GetNextLoop
  BY NextLoopIsALoop DEF IInv
<1>3. /\ nextConnId' = c + 1
      /\ next' = AdvanceNext
      /\ ledger' = ledger \cup {c}
      /\ loopOf' = [loopOf EXCEPT ![c] = l]
      /\ numSub' = numSub
      /\ UNCHANGED held
      /\ \/ l = Base /\ ConnectEstablished(c) /\ UNCHANGED mail
         \/ /\ l # Base
            /\ state' = [state EXCEPT ![c] = "connecting"]
            /\ mail' = Sent(mail, l, "establish", c)
            /\ UNCHANGED <<index, contexts, ups, downs>>
  BY <1>1, <1>2 DEF NewConnection
<1>4. /\ ~Accepted(c) /\ Fresh(c)
      /\ Accepted(c)'
      /\ \A d \in Conns \ {c} : Accepted(d)' <=> Accepted(d)
  <2>1. c \in Nat /\ \A d \in Conns : d \in Nat
    BY BoundsAssumption DEF Conns
  <2>2. ~Accepted(c) /\ Accepted(c)'
    BY <1>1, <1>3, <2>1 DEF Accepted
  <2>3. Fresh(c)
    BY <2>2 DEF IInv, InStage
  <2>4. \A d \in Conns \ {c} : Accepted(d)' <=> Accepted(d)
    BY <1>1, <1>3, <2>1 DEF Accepted
  <2>5. QED
    BY <2>2, <2>3, <2>4
<1>5. ASSUME NEW k \in AllLoops, NEW o \in Ops, Holds(mail[k], F(o, c))
      PROVE  FALSE
  <2>1. Due(k, o, c)
    BY <1>5, QueuedIsDue
  <2>2. QED
    BY <1>4, <2>1 DEF Due
<1>6. /\ tasks[c] = 0 /\ leaving[c] = 0 /\ tasks' = tasks /\ leaving' = leaving
  BY <1>3, <1>4 DEF IInv, Typed, TasksAreServed, Fresh, Stands, held
<1>7. /\ next' \in Nat /\ (numSub' > 0 => next' < numSub')
      /\ nextConnId' \in Nat
      /\ loopOf' \in [Conns -> Loops'] /\ loopOf'[c] = l
      /\ \A d \in Conns \ {c} : loopOf'[d] = loopOf[d]
      /\ ledger' \subseteq Conns /\ c \in ledger'
      /\ \A d \in Conns \ {c} : d \in ledger' <=> d \in ledger
      /\ l \in AllLoops /\ mail \in Mail /\ Once(mail)
  <2>1. next' \in Nat /\ (numSub' > 0 => next' < numSub')
    BY <1>3, NextLoopIsALoop DEF IInv
  <2>2. loopOf' \in [Conns -> Loops'] /\ loopOf'[c] = l
        /\ \A d \in Conns \ {c} : loopOf'[d] = loopOf[d]
    BY <1>3 DEF IInv, Typed, Loops
  <2>3. nextConnId' \in Nat
    BY <1>3, BoundsAssumption DEF Conns
  <2>4. QED
    BY <1>3, <2>1, <2>2, <2>3, LoopsAreLoops DEF IInv, Typed
<1>8. ~Freed(c) /\ ~Freed(c)'
  BY <1>4, <1>7 DEF Freed, Referenced
<1>9. CASE l = Base /\ ConnectEstablished(c) /\ UNCHANGED mail
  <2>1. /\ state' = [state EXCEPT ![c] = "connected"]
        /\ index' = [index EXCEPT ![c] = "added"]
        /\ contexts' = contexts \cup {c}
        /\ ups' = [ups EXCEPT ![c] = @ + 1]
        /\ downs' = downs /\ mail' = mail
    <3>1. UpdateChannel(c, TRUE) => index' = [index EXCEPT ![c] = "added"]
      BY DEF UpdateChannel
    <3>2. QED
      BY <1>9, <3>1 DEF ConnectEstablished, ConnectionCallback
  <2>2. ups[c] = 0 /\ ups' = [ups EXCEPT ![c] = 1]
    <3>1. ups[c] = 0
      BY <1>4 DEF Fresh, Stands
    <3>2. QED
      BY <2>1, <3>1
  <2>3. Typed' /\ Once(mail')
    BY <1>3, <1>6, <1>7, <2>1, <2>2 DEF IInv, Typed
  <2>4. OthersQuiet(c)
    <3>1. \A d \in Conns \ {c} : Quiet(d)
      BY <1>4, <1>6, <1>7, <2>1, <2>2 DEF IInv, Typed, Quiet
    <3>2. QED
      BY <1>3, <2>1, <3>1 DEF OthersQuiet
  <2>5. Up(c)' /\ ~Removed(c)' /\ ups'[c] = 1
    BY <1>4, <1>7, <2>1, <2>2 DEF IInv, Typed, Up, Fresh, Removed, Stands
  <2>6. MovesRightly(c)
    BY <1>4, <1>5, <1>6, <2>1, <2>5 DEF MovesRightly
  <2>7. Promised(c)
    BY <1>8, <2>1, <2>2 DEF Promised
  <2>8. QED
    BY <1>1, <2>3, <2>4, <2>6, <2>7 DEF Moves
<1>10. CASE /\ l # Base
            /\ state' = [state EXCEPT ![c] = "connecting"]
            /\ mail' = Sent(mail, l, "establish", c)
            /\ UNCHANGED <<index, contexts, ups, downs>>
  <2>1. "establish" \in Ops /\ ~Holds(mail[l], F("establish", c))
    BY <1>5, <1>7 DEF Ops
  <2>2. /\ mail' \in Mail /\ Once(mail')
        /\ \A k \in AllLoops : \A f \in Functors :
              f.conn # c => (Holds(mail'[k], f) <=> Holds(mail[k], f))
        /\ \A k \in AllLoops : \A o \in Ops :
              Holds(mail'[k], F(o, c)) => Holds(mail[k], F(o, c)) \/ (k = l /\ o = "establish")
    BY <1>7, <1>10, <2>1, PushEffect
  <2>3. Typed'
    BY <1>3, <1>6, <1>7, <1>10, <2>2 DEF IInv, Typed
  <2>4. OthersQuiet(c)
    <3>1. \A d \in Conns \ {c} : Quiet(d)
      BY <1>4, <1>6, <1>7, <1>10 DEF IInv, Typed, Quiet
    <3>2. QED
      BY <1>3, <2>2, <3>1 DEF OthersQuiet
  <2>5. Establishing(c)' /\ ~Removed(c)'
    BY <1>4, <1>7, <1>10 DEF IInv, Typed, Establishing, Fresh, Removed, Stands
  <2>6. ASSUME NEW k \in AllLoops, NEW o \in Ops, Holds(mail'[k], F(o, c))
        PROVE  Due(k, o, c)'
    <3>1. k = l /\ o = "establish"
      BY <1>5, <2>2, <2>6
    <3>2. QED
      BY <1>3, <1>4, <1>7, <2>5, <3>1 DEF Due, Loops
  <2>7. MovesRightly(c)
    BY <1>4, <1>6, <2>5, <2>6 DEF MovesRightly
  <2>8. Promised(c)
    BY <1>8, <1>10 DEF Promised
  <2>9. QED
    BY <1>1, <2>2, <2>3, <2>4, <2>7, <2>8 DEF Moves
<1>11. QED
  BY <1>3, <1>9, <1>10

-----------------------------------------------------------------------------
(* The invariant.                                                           *)

placeVars == <<numSub, nextConnId, next, ledger, loopOf, state, index, contexts,
               mail, tasks, leaving, ups, downs>>

LEMMA EveryStepMoves ==
    ASSUME IInv, [Next]_vars
    PROVE  (\E c \in Conns : Moves(c)) \/ UNCHANGED placeVars
<1>1. CASE Start
  BY <1>1 DEF Start, held, placeVars
<1>2. CASE NewConnection
  BY <1>2, NewConnectionMoves
<1>3. ASSUME NEW l \in Loops, LoopStep(l)
      PROVE  \E c \in Conns : Moves(c)
  BY <1>3, RunEstablishMoves, RunRemoveMoves, RunDestroyMoves, RunRespondMoves,
     HandleMessageMoves, HandleCloseMoves DEF LoopStep, RunFunctor
<1>4. ASSUME NEW c \in Conns, WorkerResponds(c) \/ WorkerReleases(c)
      PROVE  Moves(c)
  BY <1>4, WorkerRespondsMoves, WorkerReleasesMoves
<1>5. ASSUME NEW c \in Conns, PeerSend(c) \/ PeerClose(c)
      PROVE  UNCHANGED placeVars
  BY <1>5 DEF PeerSend, PeerClose, serverVars, held, placeVars
<1>6. CASE UNCHANGED vars
  BY <1>6 DEF vars, placeVars
<1>7. QED
  BY <1>1, <1>2, <1>3, <1>4, <1>5, <1>6 DEF Next

LEMMA IdleKeepsIInv ==
    ASSUME IInv, UNCHANGED placeVars
    PROVE  IInv'
<1>1. Typed' /\ Once(mail)'
  BY DEF IInv, Typed, Once, placeVars, Loops
<1>2. ASSUME NEW d \in Conns
      PROVE  Quiet(d) /\ numSub' = numSub
  BY DEF placeVars, Quiet, Accepted
<1>3. InStage' /\ TasksAreServed' /\ DestroyIsQueued'
  BY DEF IInv, InStage, TasksAreServed, DestroyIsQueued, placeVars, Accepted, Fresh,
         Establishing, Up, Closing, Removed, Gone, Stands
<1>4. MailIsDue'
  <2> SUFFICES ASSUME NEW l \in AllLoops, NEW f \in Functors, Holds(mail'[l], f)
               PROVE  Due(l, f.op, f.conn)'
    BY DEF MailIsDue
  <2>1. Holds(mail[l], f)
    BY DEF placeVars
  <2>2. f.op \in Ops /\ f.conn \in Conns
    BY FunctorIsF
  <2>3. QED
    BY <1>2, <2>1, <2>2, QuietStays DEF IInv, MailIsDue
<1>5. QED
  BY <1>1, <1>3, <1>4 DEF IInv

LEMMA InitIInv == Init => IInv
<1> SUFFICES ASSUME Init PROVE IInv
  OBVIOUS
<1>1. <<>> \in Seq(Functors) /\ Len(<<>>) = 0
  BY EmptySeq
<1>2. mail \in Mail /\ \A l \in AllLoops : mail[l] = <<>>
  BY <1>1 DEF Init, Mail, AllLoops
<1>3. 0 \in Loops /\ numSub \in 0..MaxSubLoops
  BY BoundsAssumption DEF Init, Loops, Base
<1>4. Typed
  BY <1>2, <1>3 DEF Init, Typed, Base
<1>5. InStage
  <2>1. \A c \in Conns : ~Accepted(c)
    BY BoundsAssumption DEF Init, Accepted, Conns
  <2>2. \A c \in Conns : Fresh(c)
    BY DEF Init, Fresh, Stands
  <2>3. QED
    BY <2>1, <2>2 DEF InStage
<1>6. MailIsDue /\ Once(mail)
  BY <1>1, <1>2 DEF MailIsDue, Once, Holds
<1>7. DestroyIsQueued /\ TasksAreServed
  BY DEF Init, DestroyIsQueued, TasksAreServed, Removed, Stands
<1>8. QED
  BY <1>4, <1>5, <1>6, <1>7 DEF IInv

LEMMA NextIInv == IInv /\ [Next]_vars => IInv'
<1> SUFFICES ASSUME IInv, [Next]_vars PROVE IInv'
  OBVIOUS
<1>1. CASE UNCHANGED placeVars
  BY <1>1, IdleKeepsIInv
<1>2. ASSUME NEW c \in Conns, Moves(c) PROVE IInv'
  BY <1>2, OneMoves DEF Moves
<1>3. QED
  BY <1>1, <1>2, EveryStepMoves

\* Whatever the peers, the workers and the loops do, in whatever order.
THEOREM ConnectionInvariant == Spec => []IInv
<1>1. Init => IInv
  BY InitIInv
<1>2. IInv /\ [Next]_vars => IInv'
  BY NextIInv
<1>3. QED
  BY <1>1, <1>2, PTL DEF Spec

\* A channel that a poller knows belongs to an object that somebody owns, and a
\* connection that is up is owned by the ledger (TcpServer.cc:200-271,
\* TcpConnection.cc:168-270).
THEOREM NoChannelDangles == Spec => []NoDanglingChannel
<1>1. IInv => NoDanglingChannel
  <2> SUFFICES ASSUME IInv, NEW c \in Conns
               PROVE  /\ index[c] # "new" => Referenced(c)
                      /\ IsUp(c) => c \in ledger
    BY DEF NoDanglingChannel
  <2>1. Fresh(c) \/ Establishing(c) \/ Up(c) \/ Closing(c) \/ Removed(c) \/ Gone(c)
    BY DEF IInv, InStage
  <2>2. CASE Removed(c)
    <3>1. Holds(mail[loopOf[c]], F("destroy", c)) /\ loopOf[c] \in Loops /\ "destroy" \in Ops
      BY <2>2, LoopsAreLoops DEF IInv, DestroyIsQueued, Ops
    <3>2. Referenced(c)
      BY <3>1, OwnedOrQueuedIsReferenced
    <3>3. QED
      BY <2>2, <3>2 DEF Removed, Stands, IsUp
  <2>3. CASE Establishing(c) \/ Up(c) \/ Closing(c)
    <3>1. c \in ledger
      BY <2>3 DEF Establishing, Up, Closing, Stands
    <3>2. QED
      BY <3>1 DEF Referenced
  <2>4. CASE Fresh(c) \/ Gone(c)
    BY <2>4 DEF Fresh, Gone, Stands, IsUp
  <2>5. QED
    BY <2>1, <2>2, <2>3, <2>4
<1>2. QED
  BY <1>1, ConnectionInvariant, PTL

\* HttpServer has a context for exactly the connections that are up
\* (HttpServer.cc:87-106, 441-451).
THEOREM ContextsAlwaysMatch == Spec => []ContextsMatchConnections
<1>1. IInv => ContextsMatchConnections
  BY DEF IInv, InStage, ContextsMatchConnections, IsUp, Fresh, Establishing, Up,
         Closing, Removed, Gone, Stands
<1>2. QED
  BY <1>1, ConnectionInvariant, PTL

-----------------------------------------------------------------------------
(* The refinement.                                                          *)

LEMMA FreedIsDown ==
    ASSUME IInv', NEW c \in Conns, Freed(c)'
    PROVE  downs'[c] = 1
<1>1. Accepted(c)' /\ c \notin ledger'
  BY DEF Freed, Referenced
<1>2. QED
  BY <1>1 DEF IInv, InStage, Establishing, Up, Closing, Removed, Gone, Stands

LEMMA OthersStayFreed ==
    ASSUME IInv, IInv', NEW c \in Conns, OthersQuiet(c), NEW d \in Conns, d # c
    PROVE  Freed(d)' <=> Freed(d)
<1>1. Quiet(d) /\ numSub' = numSub
  BY DEF OthersQuiet
<1>2. mail \in Mail /\ mail' \in Mail /\ Loops \subseteq AllLoops
  BY LoopsAreLoops DEF IInv, Typed
<1>3. ASSUME NEW l \in Loops PROVE Mentions(l, d)' <=> Mentions(l, d)
  <2>1. l \in AllLoops /\ mail[l] \in Seq(Functors) /\ mail'[l] \in Seq(Functors)
    BY <1>2 DEF Mail
  <2>2. \A f \in Functors : f.conn = d => (Holds(mail'[l], f) <=> Holds(mail[l], f))
    BY <2>1 DEF OthersQuiet
  <2>3. \A i \in 1..Len(mail[l]) : mail[l][i] \in Functors
    BY <2>1, ElementOfSeq
  <2>4. \A i \in 1..Len(mail'[l]) : mail'[l][i] \in Functors
    BY <2>1, ElementOfSeq
  <2>5. ASSUME Mentions(l, d) PROVE Mentions(l, d)'
    <3>1. PICK i \in 1..Len(mail[l]) : mail[l][i].conn = d
      BY <2>5 DEF Mentions
    <3>2. PICK f \in Functors : f = mail[l][i]
      BY <2>3
    <3>3. Holds(mail'[l], f)
      BY <2>2, <3>1, <3>2 DEF Holds
    <3>4. QED
      BY <3>1, <3>2, <3>3 DEF Holds, Mentions
  <2>6. ASSUME Mentions(l, d)' PROVE Mentions(l, d)
    <3>1. PICK i \in 1..Len(mail'[l]) : mail'[l][i].conn = d
      BY <2>6 DEF Mentions
    <3>2. PICK f \in Functors : f = mail'[l][i]
      BY <2>4
    <3>3. Holds(mail[l], f)
      BY <2>2, <3>1, <3>2 DEF Holds
    <3>4. QED
      BY <3>1, <3>2, <3>3 DEF Holds, Mentions
  <2>7. QED
    BY <2>5, <2>6
<1>4. Loops' = Loops
  BY <1>1 DEF Loops
<1>5. Referenced(d)' <=> Referenced(d)
  BY <1>1, <1>3, <1>4 DEF Referenced, Quiet
<1>6. QED
  BY <1>1, <1>5 DEF Freed, Quiet

\* A move is one event of ConnLifecycle, or none.
LEMMA MoveRefines ==
    ASSUME IInv, IInv', NEW c \in Conns, OthersQuiet(c), Promised(c)
    PROVE  [Lifecycle!Next]_(Lifecycle!vars)
<1> DEFINE freed == {d \in Conns : Freed(d)}
<1>1. \A d \in Conns : d # c => (Freed(d)' <=> Freed(d))
  BY OthersStayFreed
<1>2. freed' = {d \in Conns : Freed(d)'}
  OBVIOUS
<1>3. ~Freed(c) /\ c \notin freed
  BY DEF Promised
<1>4. CASE ~Freed(c)' /\ ups' = ups /\ downs' = downs
  <2>1. freed' = freed
    BY <1>1, <1>2, <1>3, <1>4
  <2>2. QED
    BY <1>4, <2>1 DEF Lifecycle!vars
<1>5. CASE Freed(c)' /\ ups' = ups /\ downs' = downs
  <2>1. freed' = freed \cup {c}
    BY <1>1, <1>2, <1>3, <1>5
  <2>2. downs[c] = 1
    BY <1>5, FreedIsDown
  <2>3. Lifecycle!Free(c)
    BY <1>3, <1>5, <2>1, <2>2 DEF Lifecycle!Free
  <2>4. QED
    BY <2>3 DEF Lifecycle!Next
<1>6. CASE ups[c] = 0 /\ ups' = [ups EXCEPT ![c] = 1] /\ downs' = downs /\ ~Freed(c)'
  <2>1. freed' = freed
    BY <1>1, <1>2, <1>3, <1>6
  <2>2. Lifecycle!Up(c)
    BY <1>6, <2>1 DEF Lifecycle!Up
  <2>3. QED
    BY <2>2 DEF Lifecycle!Next
<1>7. CASE /\ ups[c] = 1 /\ downs[c] = 0
           /\ downs' = [downs EXCEPT ![c] = 1] /\ ups' = ups /\ ~Freed(c)'
  <2>1. freed' = freed
    BY <1>1, <1>2, <1>3, <1>7
  <2>2. Lifecycle!Down(c)
    BY <1>7, <2>1 DEF Lifecycle!Down
  <2>3. QED
    BY <2>2 DEF Lifecycle!Next
<1>8. QED
  BY <1>4, <1>5, <1>6, <1>7 DEF Promised

\* Every connection is reported up once, then down once, and its object goes
\* only after that: the server implements ConnLifecycle (TcpServer.cc:200-271,
\* TcpConnection.cc:168-270).
THEOREM ServerRefinesLifecycle == Spec => RefinesConnLifecycle
<1>1. Init => Lifecycle!Init
  <2> SUFFICES ASSUME Init PROVE Lifecycle!Init
    OBVIOUS
  <2>1. \A c \in Conns : ~Freed(c)
    BY BoundsAssumption DEF Init, Freed, Accepted, Conns
  <2>2. QED
    BY <2>1 DEF Init, Lifecycle!Init
<1>2. IInv /\ IInv' /\ [Next]_vars => [Lifecycle!Next]_(Lifecycle!vars)
  <2> SUFFICES ASSUME IInv, IInv', [Next]_vars
               PROVE  [Lifecycle!Next]_(Lifecycle!vars)
    OBVIOUS
  <2>1. ASSUME NEW c \in Conns, Moves(c) PROVE [Lifecycle!Next]_(Lifecycle!vars)
    BY <2>1, MoveRefines DEF Moves
  <2>2. CASE UNCHANGED placeVars
    <3>1. \A d \in Conns : Freed(d)' <=> Freed(d)
      BY <2>2 DEF placeVars, Freed, Referenced, Accepted, Mentions, Loops
    <3>2. QED
      BY <2>2, <3>1 DEF placeVars, Lifecycle!vars
  <2>3. QED
    BY <2>1, <2>2, EveryStepMoves
<1>3. QED
  BY <1>1, <1>2, ConnectionInvariant, PTL DEF Spec, RefinesConnLifecycle, Lifecycle!Spec
=============================================================================
