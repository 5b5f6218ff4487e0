-------------------------- MODULE Reminders_proofs --------------------------
(***************************************************************************)
(* Reminders fire at most once, and late at most once per process, for any *)
(* number of processes and reminders, with every crash, lost job, missed   *)
(* run and restart that the module allows.                                 *)
(***************************************************************************)
EXTENDS Reminders, FiniteSetTheorems, TLAPS

PCs == {"idle", "called", "seen", "selected", "fired"}

LEMMA AtIsFinite ==
    ASSUME NEW r, NEW pc
    PROVE  /\ At(r, pc) \subseteq Procs
           /\ IsFiniteSet(At(r, pc))
           /\ Cardinality(At(r, pc)) \in Nat
           /\ Cardinality(Procs) \in Nat
           /\ Cardinality(At(r, pc)) <= Cardinality(Procs)
<1>1. At(r, pc) \subseteq Procs
  BY DEF At
<1>2. QED
  BY <1>1, ReminderAssumption, FS_Subset, FS_CardinalityType

LEMMA AtIsFinitePrime ==
    ASSUME NEW r, NEW pc
    PROVE  /\ IsFiniteSet(At(r, pc)')
           /\ Cardinality(At(r, pc)') \in Nat
           /\ Cardinality(At(r, pc)') <= Cardinality(Procs)
<1>1. At(r, pc)' \subseteq Procs
  BY DEF At
<1>2. QED
  BY <1>1, ReminderAssumption, FS_Subset, FS_CardinalityType

\* Where the runs are after one of them moves.
LEMMA RunMoves ==
    ASSUME TypeOK, NEW p \in Procs, NEW r \in Reminders, NEW pc \in PCs,
           RunGoesTo(p, r, pc)
    PROVE  /\ run' \in [Procs -> [Reminders -> PCs]]
           /\ \A s \in Reminders, q \in PCs :
                 At(s, q)' = IF s # r THEN At(s, q)
                             ELSE IF q = pc THEN At(s, q) \cup {p}
                             ELSE At(s, q) \ {p}
<1>1. run \in [Procs -> [Reminders -> PCs]]
  BY DEF TypeOK, PCs
<1>2. run' \in [Procs -> [Reminders -> PCs]]
  BY <1>1 DEF RunGoesTo
<1>3. \A o \in Procs, s \in Reminders :
         run'[o][s] = IF o = p /\ s = r THEN pc ELSE run[o][s]
  BY <1>1 DEF RunGoesTo
<1>4. QED
  BY <1>2, <1>3 DEF At

\* A run that leaves a place, or comes to another, adds to no place behind it.
LEMMA NoMoreAt ==
    ASSUME NEW r, NEW pc, At(r, pc)' \subseteq At(r, pc)
    PROVE  Cardinality(At(r, pc)') <= Cardinality(At(r, pc))
BY AtIsFinite, FS_Subset

LEMMA EventsKept ==
    ASSUME IInv, UNCHANGED <<notes, events>>,
           \A r \in Reminders : At(r, "fired")' \subseteq At(r, "fired")
    PROVE  EventsAreBacked'
<1> SUFFICES ASSUME NEW r \in Reminders
             PROVE  events'[r] + Cardinality(At(r, "fired")') <= notes'[r]
  BY DEF EventsAreBacked
<1>1. events'[r] = events[r] /\ notes'[r] = notes[r]
      /\ events[r] \in Nat /\ notes[r] \in Nat
  BY DEF IInv, TypeOK
<1>2. events[r] + Cardinality(At(r, "fired")) <= notes[r]
  BY DEF IInv, EventsAreBacked
<1>3. Cardinality(At(r, "fired")') <= Cardinality(At(r, "fired"))
  BY NoMoreAt
<1>4. /\ Cardinality(At(r, "fired")) \in Nat
      /\ Cardinality(At(r, "fired")') \in Nat
  BY AtIsFinite, AtIsFinitePrime
<1>5. QED
  BY <1>1, <1>2, <1>3, <1>4

\* The bound of one reminder: nothing more has selected it, or nobody has
\* cancelled it.
LEMMA LateKept ==
    ASSUME IInv, NEW r \in Reminders, late'[r] = late[r],
           status[r] = "cancelled" => status'[r] = "cancelled",
           \/ At(r, "selected")' \subseteq At(r, "selected")
           \/ status[r] # "cancelled"
    PROVE  /\ (r \in Once \/ status'[r] # "cancelled") => late'[r] = 0
           /\ late'[r] + Cardinality(At(r, "selected")') <= Cardinality(Procs)
<1>1. /\ late[r] \in Nat
      /\ (r \in Once \/ status[r] # "cancelled") => late[r] = 0
      /\ late[r] + Cardinality(At(r, "selected")) <= Cardinality(Procs)
  BY DEF IInv, TypeOK, LateIsBounded
<1>2. /\ Cardinality(Procs) \in Nat
      /\ Cardinality(At(r, "selected")) \in Nat
      /\ Cardinality(At(r, "selected")') \in Nat
      /\ Cardinality(At(r, "selected")') <= Cardinality(Procs)
  BY AtIsFinite, AtIsFinitePrime
<1>3. late'[r] + Cardinality(At(r, "selected")') <= Cardinality(Procs)
  <2>1. CASE At(r, "selected")' \subseteq At(r, "selected")
    <3>1. Cardinality(At(r, "selected")') <= Cardinality(At(r, "selected"))
      BY <2>1, NoMoreAt
    <3>2. QED
      BY <1>1, <1>2, <3>1
  <2>2. CASE status[r] # "cancelled"
    BY <1>1, <1>2, <2>2
  <2>3. QED
    BY <2>1, <2>2
<1>4. QED
  BY <1>1, <1>3

\* A step that leaves the rows alone and takes no run to "selected" or "fired".
LEMMA RowsKept ==
    ASSUME IInv, UNCHANGED <<status, notes, events, late>>,
           \A r \in Reminders : /\ At(r, "fired")' \subseteq At(r, "fired")
                                /\ At(r, "selected")' \subseteq At(r, "selected")
    PROVE  FiresAtMostOnce' /\ EventsAreBacked' /\ LateIsBounded'
<1>1. FiresAtMostOnce'
  BY DEF IInv, FiresAtMostOnce
<1>2. EventsAreBacked'
  BY EventsKept
<1>3. LateIsBounded'
  BY LateKept DEF LateIsBounded
<1>4. QED
  BY <1>1, <1>2, <1>3

\* Such a step of one run.
LEMMA RunMovesFreely ==
    ASSUME IInv, UNCHANGED <<status, notes, events, late>>,
           NEW p \in Procs, NEW r \in Reminders,
           NEW pc \in PCs \ {"selected", "fired"}, RunGoesTo(p, r, pc)
    PROVE  FiresAtMostOnce' /\ EventsAreBacked' /\ LateIsBounded'
<1>1. \A s \in Reminders : /\ At(s, "fired")' \subseteq At(s, "fired")
                           /\ At(s, "selected")' \subseteq At(s, "selected")
  <2>1. "fired" \in PCs /\ "selected" \in PCs /\ pc \in PCs /\ TypeOK
    BY DEF PCs, IInv
  <2>2. QED
    BY <2>1, RunMoves
<1>2. QED
  BY <1>1, RowsKept

-----------------------------------------------------------------------------
LEMMA InitIInv == Init => IInv
<1> SUFFICES ASSUME Init PROVE IInv
  OBVIOUS
<1>1. TypeOK
  BY DEF Init, TypeOK
<1>2. FiresAtMostOnce
  BY DEF Init, FiresAtMostOnce, Once
<1>3. ASSUME NEW r \in Reminders, NEW pc \in {"selected", "fired"}
      PROVE  Cardinality(At(r, pc)) = 0
  <2>1. At(r, pc) = {}
    BY <1>3 DEF Init, At
  <2>2. QED
    BY <2>1, FS_EmptySet
<1>4. EventsAreBacked
  BY <1>3 DEF Init, EventsAreBacked
<1>5. LateIsBounded
  <2>1. Cardinality(Procs) \in Nat
    BY ReminderAssumption, FS_CardinalityType
  <2>2. QED
    BY <1>3, <2>1 DEF Init, LateIsBounded
<1>6. QED
  BY <1>1, <1>2, <1>4, <1>5 DEF IInv

\* The transaction of Commit: the claim is lost, or the reminder is notified.
LoseClaim(p, r) ==
    /\ RunGoesTo(p, r, "idle")
    /\ UNCHANGED <<notes, late, status>>

Fire(p, r) ==
    /\ RunGoesTo(p, r, "fired")
    /\ r \in Once => status[r] = "scheduled"
    /\ notes' = [notes EXCEPT ![r] = @ + 1]
    /\ late' = IF status[r] = "cancelled" THEN [late EXCEPT ![r] = @ + 1] ELSE late
    /\ status' = IF r \in Once THEN [status EXCEPT ![r] = "completed"] ELSE status

LEMMA CommitCases ==
    ASSUME NEW p, NEW r, Commit(p, r)
    PROVE  /\ run[p][r] = "selected"
           /\ UNCHANGED <<events, due, proc, jobs, toRestore, creating,
                          removing, faulty>>
           /\ LoseClaim(p, r) \/ Fire(p, r)
<1>1. CASE r \in Once /\ status[r] # "scheduled"
  BY <1>1 DEF Commit, LoseClaim
<1>2. CASE ~(r \in Once /\ status[r] # "scheduled")
  BY <1>2 DEF Commit, Notify, Fire
<1>3. QED
  BY <1>1, <1>2

LEMMA TypeKept == TypeOK /\ [Next]_vars => TypeOK'
<1> SUFFICES ASSUME TypeOK, [Next]_vars PROVE TypeOK'
  OBVIOUS
<1> USE DEF TypeOK
<1>1. ASSUME NEW p \in Procs, NEW r \in Reminders
      PROVE  /\ Create(p, r) => TypeOK'
             /\ Schedule(p, r) => TypeOK'
             /\ RemoveJob(p, r) => TypeOK'
             /\ Misfire(p, r) => TypeOK'
  <2>1. Create(p, r) => TypeOK'
    BY <1>1 DEF Create
  <2>2. Schedule(p, r) => TypeOK'
    BY <1>1 DEF Schedule, db
  <2>3. RemoveJob(p, r) => TypeOK'
    BY <1>1 DEF RemoveJob, db
  <2>4. Misfire(p, r) => TypeOK'
    BY <1>1 DEF Misfire, db
  <2>5. QED
    BY <2>1, <2>2, <2>3, <2>4
<1>2. ASSUME NEW p \in Procs, NEW r \in Reminders
      PROVE  /\ Dispatch(p, r) => TypeOK'
             /\ GetReminder(p, r) => TypeOK'
             /\ Select(p, r) => TypeOK'
             /\ AddEvent(p, r) => TypeOK'
             /\ RunFails(p, r) => TypeOK'
             /\ Restore(p, r) => TypeOK'
  <2>1. Dispatch(p, r) => TypeOK'
    BY <1>2, SMTT(30) DEF Dispatch, RunGoesTo, db
  <2>2. GetReminder(p, r) => TypeOK'
    BY <1>2 DEF GetReminder, RunGoesTo, db
  <2>3. Select(p, r) => TypeOK'
    BY <1>2 DEF Select, RunGoesTo, db
  <2>4. AddEvent(p, r) => TypeOK'
    BY <1>2 DEF AddEvent, RunGoesTo
  <2>5. RunFails(p, r) => TypeOK'
    BY <1>2 DEF RunFails, RunGoesTo, db
  <2>6. Restore(p, r) => TypeOK'
    <3>1. Restore(p, r) /\ RunGoesTo(p, r, "called") /\ UNCHANGED jobs => TypeOK'
      BY <1>2 DEF Restore, RunGoesTo, db
    <3>2. Restore(p, r) /\ UNCHANGED run /\ jobs' = [jobs EXCEPT ![p] = @ \cup {r}]
            => TypeOK'
      BY <1>2 DEF Restore, db
    <3>3. QED
      BY <3>1, <3>2 DEF Restore
  <2>7. QED
    BY <2>1, <2>2, <2>3, <2>4, <2>5, <2>6
<1>3. ASSUME NEW p \in Procs, NEW r \in Reminders, Commit(p, r)
      PROVE  TypeOK'
  <2>1. UNCHANGED <<events, due, proc, jobs, toRestore, creating, removing, faulty>>
    BY <1>3, CommitCases
  <2>2. CASE LoseClaim(p, r)
    BY <1>3, <2>1, <2>2 DEF LoseClaim, RunGoesTo
  <2>3. CASE Fire(p, r)
    <3>1. run' \in [Procs -> [Reminders -> {"idle", "called", "seen", "selected", "fired"}]]
      BY <1>3, <2>3 DEF Fire, RunGoesTo
    <3>2. notes' \in [Reminders -> Nat] /\ late' \in [Reminders -> Nat]
      BY <1>3, <2>3 DEF Fire
    <3>3. status' \in [Reminders -> {"absent", "scheduled", "completed", "cancelled"}]
      BY <1>3, <2>3 DEF Fire
    <3>4. QED
      BY <2>1, <3>1, <3>2, <3>3
  <2>4. QED
    BY <1>3, <2>2, <2>3, CommitCases
<1>4. ASSUME NEW r \in Reminders
      PROVE  /\ \A owner \in BOOLEAN : Cancel(r, owner) => TypeOK'
             /\ TimePasses(r) => TypeOK'
  BY <1>4, ReminderAssumption DEF Cancel, TimePasses, db
<1>5. ASSUME NEW p \in Procs
      PROVE  /\ Start(p) => TypeOK'
             /\ Resume(p) => TypeOK'
             /\ Down(p) => TypeOK'
  <2>1. Start(p) => TypeOK'
    BY <1>5 DEF Start, Scheduled, db
  <2>2. Resume(p) => TypeOK'
    BY <1>5 DEF Resume, db
  <2>3. Down(p) => TypeOK'
    BY <1>5 DEF Down, db
  <2>4. QED
    BY <2>1, <2>2, <2>3
<1>6. CASE UNCHANGED vars
  BY <1>6 DEF vars
<1>7. QED
  BY <1>1, <1>2, <1>3, <1>4, <1>5, <1>6 DEF Next, RunStep

\* The steps that change neither the rows nor a run.
LEMMA FrameKeeps ==
    ASSUME IInv, UNCHANGED <<status, notes, events, run, late>>
    PROVE  FiresAtMostOnce' /\ EventsAreBacked' /\ LateIsBounded'
<1>1. \A r, q : At(r, q)' = At(r, q)
  BY DEF At
<1>2. QED
  BY <1>1, RowsKept

LEMMA SelectKeeps ==
    ASSUME IInv, NEW p \in Procs, NEW r \in Reminders, Select(p, r)
    PROVE  FiresAtMostOnce' /\ EventsAreBacked' /\ LateIsBounded'
<1>1. CASE status[r] # "scheduled"
  BY <1>1, RunMovesFreely DEF Select, db, PCs
<1>2. CASE status[r] = "scheduled"
  <2>1. RunGoesTo(p, r, "selected") /\ UNCHANGED <<status, notes, events, late>>
    BY <1>2 DEF Select, db
  <2>2. \A s \in Reminders :
           /\ At(s, "fired")' \subseteq At(s, "fired")
           /\ s # r => At(s, "selected")' = At(s, "selected")
    <3>1. "fired" \in PCs /\ "selected" \in PCs /\ TypeOK
      BY DEF PCs, IInv
    <3>2. QED
      BY <2>1, <3>1, RunMoves
  <2>3. FiresAtMostOnce'
    BY <2>1 DEF IInv, FiresAtMostOnce
  <2>4. EventsAreBacked'
    BY <2>1, <2>2, EventsKept
  <2>5. LateIsBounded'
    <3> SUFFICES ASSUME NEW s \in Reminders
                 PROVE /\ (s \in Once \/ status'[s] # "cancelled") => late'[s] = 0
                       /\ late'[s] + Cardinality(At(s, "selected")') <= Cardinality(Procs)
      BY DEF LateIsBounded
    <3>1. late'[s] = late[s] /\ status'[s] = status[s]
      BY <2>1
    <3>2. \/ At(s, "selected")' \subseteq At(s, "selected")
          \/ status[s] # "cancelled"
      BY <1>2, <2>2
    <3>3. QED
      BY <3>1, <3>2, LateKept
  <2>6. QED
    BY <2>3, <2>4, <2>5
<1>3. QED
  BY <1>1, <1>2

LEMMA AddEventKeeps ==
    ASSUME IInv, NEW p \in Procs, NEW r \in Reminders, AddEvent(p, r)
    PROVE  FiresAtMostOnce' /\ EventsAreBacked' /\ LateIsBounded'
<1>1. /\ run[p][r] = "fired" /\ p \in At(r, "fired")
      /\ RunGoesTo(p, r, "idle")
      /\ events' = [events EXCEPT ![r] = @ + 1]
      /\ UNCHANGED <<status, notes, late>>
  BY DEF AddEvent, At
<1>2. \A s \in Reminders :
         /\ At(s, "fired")' = IF s = r THEN At(s, "fired") \ {p} ELSE At(s, "fired")
         /\ At(s, "selected")' \subseteq At(s, "selected")
  <2>1. {"fired", "selected", "idle"} \subseteq PCs /\ TypeOK
    BY DEF PCs, IInv
  <2>2. QED
    BY <1>1, <2>1, RunMoves
<1>3. FiresAtMostOnce'
  BY <1>1 DEF IInv, FiresAtMostOnce
<1>4. LateIsBounded'
  BY <1>1, <1>2, LateKept DEF LateIsBounded
<1>5. EventsAreBacked'
  <2> SUFFICES ASSUME NEW s \in Reminders
               PROVE  events'[s] + Cardinality(At(s, "fired")') <= notes'[s]
    BY DEF EventsAreBacked
  <2>1. /\ events[s] + Cardinality(At(s, "fired")) <= notes[s]
        /\ events[s] \in Nat /\ notes[s] \in Nat /\ notes'[s] = notes[s]
        /\ events'[s] = IF s = r THEN events[s] + 1 ELSE events[s]
    BY <1>1 DEF IInv, TypeOK, EventsAreBacked
  <2>2. Cardinality(At(s, "fired")) \in Nat
    BY AtIsFinite
  <2>3. Cardinality(At(s, "fired")') =
           IF s = r THEN Cardinality(At(s, "fired")) - 1 ELSE Cardinality(At(s, "fired"))
    <3>1. IsFiniteSet(At(s, "fired"))
      BY AtIsFinite
    <3>2. Cardinality(At(s, "fired") \ {p}) =
             IF p \in At(s, "fired") THEN Cardinality(At(s, "fired")) - 1
                                     ELSE Cardinality(At(s, "fired"))
      BY <3>1, FS_RemoveElement
    <3>3. QED
      BY <1>1, <1>2, <3>2
  <2>4. QED
    BY <2>1, <2>2, <2>3
<1>6. QED
  BY <1>3, <1>4, <1>5

\* A notification is paid for by the claim, by the event to come, and, after a
\* cancel, by one run less that had selected the row.
LEMMA FireKeeps ==
    ASSUME IInv, NEW p \in Procs, NEW r \in Reminders,
           run[p][r] = "selected", UNCHANGED events, Fire(p, r)
    PROVE  FiresAtMostOnce' /\ EventsAreBacked' /\ LateIsBounded'
<1>1. \A s \in Reminders :
         /\ At(s, "fired")' = IF s = r THEN At(s, "fired") \cup {p} ELSE At(s, "fired")
         /\ At(s, "selected")' = IF s = r THEN At(s, "selected") \ {p}
                                          ELSE At(s, "selected")
  <2>1. {"fired", "selected"} \subseteq PCs /\ TypeOK /\ RunGoesTo(p, r, "fired")
    BY DEF PCs, IInv, Fire
  <2>2. QED
    BY <2>1, RunMoves
<1>2. /\ status \in [Reminders -> {"absent", "scheduled", "completed", "cancelled"}]
      /\ notes \in [Reminders -> Nat] /\ late \in [Reminders -> Nat]
      /\ events \in [Reminders -> Nat]
  BY DEF IInv, TypeOK
<1>3. \A s \in Reminders :
         /\ notes'[s] = IF s = r THEN notes[s] + 1 ELSE notes[s]
         /\ status'[s] = IF s = r /\ r \in Once THEN "completed" ELSE status[s]
         /\ late'[s] = IF s = r /\ status[s] = "cancelled" THEN late[s] + 1 ELSE late[s]
  BY <1>2 DEF Fire
<1>4. r \in Once => status[r] = "scheduled"
  BY DEF Fire
<1>5. FiresAtMostOnce'
  <2> SUFFICES ASSUME NEW s \in Once
               PROVE  notes'[s] = IF status'[s] = "completed" THEN 1 ELSE 0
    BY DEF FiresAtMostOnce
  <2>1. s \in Reminders /\ notes[s] = IF status[s] = "completed" THEN 1 ELSE 0
    BY DEF IInv, FiresAtMostOnce, Once
  <2>2. QED
    BY <1>3, <1>4, <2>1
<1>6. EventsAreBacked'
  <2> SUFFICES ASSUME NEW s \in Reminders
               PROVE  events'[s] + Cardinality(At(s, "fired")') <= notes'[s]
    BY DEF EventsAreBacked
  <2>1. events[s] + Cardinality(At(s, "fired")) <= notes[s]
    BY DEF IInv, EventsAreBacked
  <2>2. IsFiniteSet(At(s, "fired")) /\ Cardinality(At(s, "fired")) \in Nat
    BY AtIsFinite
  <2>3. Cardinality(At(s, "fired") \cup {p}) <= Cardinality(At(s, "fired")) + 1
    <3>1. Cardinality(At(s, "fired") \cup {p}) =
             IF p \in At(s, "fired") THEN Cardinality(At(s, "fired"))
                                     ELSE Cardinality(At(s, "fired")) + 1
      BY <2>2, FS_AddElement
    <3>2. QED
      BY <2>2, <3>1
  <2>4. /\ s = r => Cardinality(At(s, "fired")') <= Cardinality(At(s, "fired")) + 1
        /\ s # r => Cardinality(At(s, "fired")') = Cardinality(At(s, "fired"))
    BY <1>1, <2>3
  <2>5. Cardinality(At(s, "fired")') \in Nat /\ events'[s] = events[s]
        /\ events[s] \in Nat /\ notes[s] \in Nat
    BY <1>2, AtIsFinitePrime
  <2>6. QED
    BY <1>3, <2>1, <2>2, <2>4, <2>5
<1>7. LateIsBounded'
  <2> SUFFICES ASSUME NEW s \in Reminders
               PROVE /\ (s \in Once \/ status'[s] # "cancelled") => late'[s] = 0
                     /\ late'[s] + Cardinality(At(s, "selected")') <= Cardinality(Procs)
    BY DEF LateIsBounded
  <2>1. CASE s # r \/ status[s] # "cancelled"
    <3>1. late'[s] = late[s]
      BY <1>3, <2>1
    <3>2. status[s] = "cancelled" => status'[s] = "cancelled"
      BY <1>3, <2>1
    <3>3. \/ At(s, "selected")' \subseteq At(s, "selected")
          \/ status[s] # "cancelled"
      BY <1>1, <2>1
    <3>4. QED
      BY <3>1, <3>2, <3>3, LateKept
  <2>2. CASE s = r /\ status[s] = "cancelled"
    <3>1. s \notin Once /\ status'[s] = "cancelled" /\ late'[s] = late[s] + 1
      BY <1>3, <1>4, <2>2
    <3>2. late[s] \in Nat /\ late[s] + Cardinality(At(s, "selected")) <= Cardinality(Procs)
      BY <1>2 DEF IInv, LateIsBounded
    <3>3. IsFiniteSet(At(s, "selected")) /\ Cardinality(At(s, "selected")) \in Nat
          /\ Cardinality(Procs) \in Nat
      BY AtIsFinite
    <3>4. p \in At(s, "selected")
      BY <2>2 DEF At
    <3>5. Cardinality(At(s, "selected") \ {p}) = Cardinality(At(s, "selected")) - 1
      BY <3>3, <3>4, FS_RemoveElement
    <3>6. Cardinality(At(s, "selected")') = Cardinality(At(s, "selected")) - 1
      BY <1>1, <2>2, <3>5
    <3>7. QED
      BY <3>1, <3>2, <3>3, <3>6
  <2>3. QED
    BY <2>1, <2>2
<1>8. QED
  BY <1>5, <1>6, <1>7

LEMMA CommitKeeps ==
    ASSUME IInv, NEW p \in Procs, NEW r \in Reminders, Commit(p, r)
    PROVE  FiresAtMostOnce' /\ EventsAreBacked' /\ LateIsBounded'
<1>1. /\ run[p][r] = "selected"
      /\ UNCHANGED events
      /\ LoseClaim(p, r) \/ Fire(p, r)
  BY CommitCases
<1>2. CASE LoseClaim(p, r)
  BY <1>1, <1>2, RunMovesFreely DEF LoseClaim, PCs
<1>3. CASE Fire(p, r)
  BY <1>1, <1>3, FireKeeps
<1>4. QED
  BY <1>1, <1>2, <1>3

\* create and cancel only touch a row that nobody has notified, or a daily one.
LEMMA StatusChanges ==
    ASSUME IInv, NEW r \in Reminders, NEW st \in {"scheduled", "cancelled"},
           status[r] \in {"absent", "scheduled"},
           status' = [status EXCEPT ![r] = st],
           UNCHANGED <<notes, events, run, late>>
    PROVE  FiresAtMostOnce' /\ EventsAreBacked' /\ LateIsBounded'
<1>0. \A s, q : At(s, q)' = At(s, q)
  BY DEF At
<1>1. \A s \in Reminders : status'[s] = IF s = r THEN st ELSE status[s]
  BY DEF IInv, TypeOK
<1>2. FiresAtMostOnce'
  <2> SUFFICES ASSUME NEW s \in Once
               PROVE  notes'[s] = IF status'[s] = "completed" THEN 1 ELSE 0
    BY DEF FiresAtMostOnce
  <2>1. s \in Reminders /\ notes[s] = IF status[s] = "completed" THEN 1 ELSE 0
    BY DEF IInv, FiresAtMostOnce, Once
  <2>2. QED
    BY <1>1, <2>1
<1>3. EventsAreBacked'
  BY <1>0, EventsKept
<1>4. LateIsBounded'
  <2>1. \A s \in Reminders : /\ late'[s] = late[s]
                             /\ status[s] = "cancelled" => status'[s] = "cancelled"
    BY <1>1
  <2>2. QED
    BY <1>0, <2>1, LateKept DEF LateIsBounded
<1>5. QED
  BY <1>2, <1>3, <1>4

LEMMA DownKeeps ==
    ASSUME IInv, NEW p \in Procs, Down(p)
    PROVE  FiresAtMostOnce' /\ EventsAreBacked' /\ LateIsBounded'
<1>1. run' = [run EXCEPT ![p] = [r \in Reminders |-> "idle"]]
      /\ UNCHANGED <<status, notes, events, late>>
  BY DEF Down, db
<1>2. \A r \in Reminders : /\ At(r, "fired")' \subseteq At(r, "fired")
                           /\ At(r, "selected")' \subseteq At(r, "selected")
  BY <1>1 DEF IInv, TypeOK, At
<1>3. QED
  BY <1>1, <1>2, RowsKept

-----------------------------------------------------------------------------
LEMMA NextIInv == IInv /\ [Next]_vars => IInv'
<1> SUFFICES ASSUME IInv, [Next]_vars
             PROVE  FiresAtMostOnce' /\ EventsAreBacked' /\ LateIsBounded'
  BY TypeKept DEF IInv
<1> DEFINE Kept == FiresAtMostOnce' /\ EventsAreBacked' /\ LateIsBounded'
<1>1. ASSUME NEW p \in Procs, NEW r \in Reminders, Create(p, r) PROVE Kept
  BY <1>1, StatusChanges DEF Create
<1>2. ASSUME NEW r \in Reminders, NEW owner \in BOOLEAN, Cancel(r, owner) PROVE Kept
  <2>1. CASE owner /\ status[r] = "scheduled"
    BY <1>2, <2>1, StatusChanges DEF Cancel
  <2>2. CASE ~(owner /\ status[r] = "scheduled")
    BY <1>2, <2>2, FrameKeeps DEF Cancel
  <2>3. QED
    BY <2>1, <2>2
<1>3. ASSUME NEW p \in Procs, NEW r \in Reminders,
             Schedule(p, r) \/ RemoveJob(p, r) \/ Misfire(p, r) PROVE Kept
  BY <1>3, FrameKeeps DEF Schedule, RemoveJob, Misfire, db
<1>4. ASSUME NEW r \in Reminders, TimePasses(r) PROVE Kept
  BY <1>4, FrameKeeps DEF TimePasses, db
<1>5. ASSUME NEW p \in Procs, NEW r \in Reminders, Dispatch(p, r) PROVE Kept
  BY <1>5, RunMovesFreely DEF Dispatch, db, PCs
<1>6. ASSUME NEW p \in Procs, NEW r \in Reminders, GetReminder(p, r) PROVE Kept
  BY <1>6, RunMovesFreely DEF GetReminder, db, PCs
<1>7. ASSUME NEW p \in Procs, NEW r \in Reminders, Select(p, r) PROVE Kept
  BY <1>7, SelectKeeps
<1>8. ASSUME NEW p \in Procs, NEW r \in Reminders, Commit(p, r) PROVE Kept
  BY <1>8, CommitKeeps
<1>9. ASSUME NEW p \in Procs, NEW r \in Reminders, AddEvent(p, r) PROVE Kept
  BY <1>9, AddEventKeeps
<1>10. ASSUME NEW p \in Procs, NEW r \in Reminders, RunFails(p, r) PROVE Kept
  BY <1>10, RunMovesFreely DEF RunFails, db, PCs
<1>11. ASSUME NEW p \in Procs, NEW r \in Reminders, Restore(p, r) PROVE Kept
  <2>1. CASE RunGoesTo(p, r, "called")
    BY <1>11, <2>1, RunMovesFreely DEF Restore, db, PCs
  <2>2. CASE UNCHANGED run
    BY <1>11, <2>2, FrameKeeps DEF Restore, db
  <2>3. QED
    BY <1>11, <2>1, <2>2 DEF Restore
<1>12. ASSUME NEW p \in Procs, Start(p) \/ Resume(p) PROVE Kept
  BY <1>12, FrameKeeps DEF Start, Resume, db
<1>13. ASSUME NEW p \in Procs, Down(p) PROVE Kept
  BY <1>13, DownKeeps
<1>14. CASE UNCHANGED vars
  BY <1>14, FrameKeeps DEF vars
<1>15. QED
  BY <1>1, <1>2, <1>3, <1>4, <1>5, <1>6, <1>7, <1>8, <1>9, <1>10, <1>11, <1>12,
     <1>13, <1>14 DEF Next, RunStep

\* Once reminders notify exactly when they are completed, learning events have
\* their notifications, and late runs are counted (service.py:84-99,
\* database.py:443-466), for any number of processes, reminders and crashes.
THEOREM ReminderInvariant == Spec => []IInv
<1>1. Init => IInv
  BY InitIInv
<1>2. IInv /\ [Next]_vars => IInv'
  BY NextIInv
<1>3. QED
  BY <1>1, <1>2, PTL DEF Spec

\* A once reminder notifies exactly when it is completed, and once; after a
\* successful cancel it does not notify, and a daily one at most once per process
\* (database.py:443-466).
THEOREM RemindersFireAsPromised == Spec => []FiresAsPromised
<1>1. IInv => LateRunsAreFew
  <2> SUFFICES ASSUME IInv, NEW r \in Reminders
               PROVE  late[r] <= IF r \in Daily THEN Cardinality(Procs) ELSE 0
    BY DEF LateRunsAreFew
  <2>1. /\ late[r] \in Nat
        /\ r \in Once => late[r] = 0
        /\ late[r] + Cardinality(At(r, "selected")) <= Cardinality(Procs)
    BY DEF IInv, TypeOK, LateIsBounded
  <2>2. Cardinality(At(r, "selected")) \in Nat /\ Cardinality(Procs) \in Nat
    BY AtIsFinite
  <2>3. QED
    BY <2>1, <2>2 DEF Once
<1>2. IInv => FiresAsPromised
  BY <1>1 DEF IInv, FiresAsPromised
<1>3. QED
  BY <1>2, ReminderInvariant, PTL
=============================================================================
