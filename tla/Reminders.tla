------------------------------ MODULE Reminders -------------------------------
(***************************************************************************)
(* The persistent reminders of the Python agent:                           *)
(* agent/backend/app/scheduling/service.py and the reminder transactions   *)
(* of agent/backend/app/db/database.py.                                    *)
(*                                                                         *)
(* Two kinds of process serve the one SQLite file: the web application and *)
(* the standalone MCP server.  Each has a ReminderService, whose scheduler *)
(* keeps its jobs in memory; only the database survives a process.  Each   *)
(* committed transaction, and each SELECT outside one, is a step, so the   *)
(* threads of both processes interleave between them.  (Python's sqlite3   *)
(* opens a transaction at the first INSERT or UPDATE: the SELECT of        *)
(* fire_reminder is not in the transaction that follows it.)               *)
(***************************************************************************)
EXTENDS Naturals, FiniteSets

CONSTANTS Procs,      \* the processes that run a ReminderService
          Web,        \* the one that serves the route that cancels
          Reminders,  \* the reminders that may be created
          Daily,      \* those that repeat every day
          MaxDaily    \* bound: firings of one daily reminder

ASSUME ReminderAssumption == /\ IsFiniteSet(Procs) /\ Web \in Procs
                             /\ Daily \subseteq Reminders
                             /\ MaxDaily \in Nat

Once == Reminders \ Daily

VARIABLES status,     \* the status column, "absent" before the INSERT
          due,        \* the reminders whose run_at has passed
          notes,      \* rows of notifications, per reminder
          events,     \* reminder_fired rows of learning_events, per reminder
          proc,       \* each process: down, restoring or up
          jobs,       \* the jobs of each process's scheduler
          toRestore,  \* what _restore_jobs has listed and not yet visited
          run,        \* where each process is in run_now of each reminder
          creating,   \* <<p, r>>: create between the INSERT and _schedule
          removing,   \* <<p, r>>: cancel between the UPDATE and remove_job
          faulty,     \* ghost: a process ended, or a run was missed or failed
          late        \* ghost: notifications inserted after a cancel

db == <<status, notes, events>>
vars == <<status, due, notes, events, proc, jobs, toRestore, run,
          creating, removing, faulty, late>>

Init == /\ status = [r \in Reminders |-> "absent"]
        /\ due = {}
        /\ notes = [r \in Reminders |-> 0]
        /\ events = [r \in Reminders |-> 0]
        /\ proc = [p \in Procs |-> "down"]
        /\ jobs = [p \in Procs |-> {}]
        /\ toRestore = [p \in Procs |-> {}]
        /\ run = [p \in Procs |-> [r \in Reminders |-> "idle"]]
        /\ creating = {}
        /\ removing = {}
        /\ faulty = FALSE
        /\ late = [r \in Reminders |-> 0]

Scheduled == {r \in Reminders : status[r] = "scheduled"}
Running(r) == {p \in Procs : run[p][r] # "idle"}
At(r, pc) == {p \in Procs : run[p][r] = pc}     \* the runs of r that are there
RunGoesTo(p, r, pc) == run' = [run EXCEPT ![p][r] = pc]

-----------------------------------------------------------------------------
(* create and cancel                                                        *)

Mut_CreateNeverSchedules(p, r) ==
    /\ proc[p] = "up"
    /\ status[r] = "absent"
    /\ status' = [status EXCEPT ![r] = "scheduled"]
    /\ UNCHANGED <<due, notes, events, proc, jobs, toRestore, run, creating,
                   removing, faulty, late>>

Create(p, r) ==
    /\ proc[p] = "up"
    /\ status[r] = "absent"
    /\ status' = [status EXCEPT ![r] = "scheduled"]
    /\ creating' = creating \cup {<<p, r>>}
    /\ UNCHANGED <<due, notes, events, proc, jobs, toRestore, run, removing,
                   faulty, late>>

Schedule(p, r) ==
    /\ <<p, r>> \in creating
    /\ creating' = creating \ {<<p, r>>}
    /\ jobs' = [jobs EXCEPT ![p] = @ \cup {r}]
    /\ UNCHANGED <<db, due, proc, toRestore, run, removing, faulty, late>>

\* The UPDATE names the user: another user's call, or one that comes too
\* late, changes no row and leaves the job alone.
Cancel(r, owner) ==
    /\ proc[Web] = "up"
    /\ status[r] # "absent"
    /\ IF owner /\ status[r] = "scheduled"
         THEN /\ status' = [status EXCEPT ![r] = "cancelled"]
              /\ removing' = removing \cup {<<Web, r>>}
         ELSE UNCHANGED <<status, removing>>
    /\ UNCHANGED <<due, notes, events, proc, jobs, toRestore, run, creating,
                   faulty, late>>

\* remove_job; that there is no such job is ignored.
RemoveJob(p, r) ==
    /\ <<p, r>> \in removing
    /\ removing' = removing \ {<<p, r>>}
    /\ jobs' = [jobs EXCEPT ![p] = @ \ {r}]
    /\ UNCHANGED <<db, due, proc, toRestore, run, creating, faulty, late>>

-----------------------------------------------------------------------------
(* The scheduler: a job whose time has come is handed to its thread pool.   *)

TimePasses(r) ==
    /\ r \in Once \cap Scheduled
    /\ r \notin due
    /\ due' = due \cup {r}
    /\ UNCHANGED <<db, proc, jobs, toRestore, run, creating, removing, faulty,
                   late>>

\* A date job leaves the scheduler when it is handed over, a daily one stays;
\* no job has two runs at a time (max_instances).
Dispatch(p, r) ==
    /\ proc[p] = "up"
    /\ r \in jobs[p]
    /\ run[p][r] = "idle"
    /\ IF r \in Daily
         THEN notes[r] + Cardinality(Running(r)) < MaxDaily /\ UNCHANGED jobs
         ELSE r \in due /\ jobs' = [jobs EXCEPT ![p] = @ \ {r}]
    /\ RunGoesTo(p, r, "called")
    /\ UNCHANGED <<db, due, proc, toRestore, creating, removing, faulty, late>>

\* More than misfire_grace_time late, the run is skipped; the date job is gone.
Misfire(p, r) ==
    /\ proc[p] = "up"
    /\ r \in jobs[p] \cap Once \cap due
    /\ jobs' = [jobs EXCEPT ![p] = @ \ {r}]
    /\ faulty' = TRUE
    /\ UNCHANGED <<db, due, proc, toRestore, run, creating, removing, late>>

-----------------------------------------------------------------------------
(* run_now and fire_reminder                                                *)

GetReminder(p, r) ==
    /\ run[p][r] = "called"
    /\ RunGoesTo(p, r, IF status[r] = "scheduled" THEN "seen" ELSE "idle")
    /\ UNCHANGED <<db, due, proc, jobs, toRestore, creating, removing, faulty,
                   late>>

Select(p, r) ==
    /\ run[p][r] = "seen"
    /\ RunGoesTo(p, r, IF status[r] = "scheduled" THEN "selected" ELSE "idle")
    /\ UNCHANGED <<db, due, proc, jobs, toRestore, creating, removing, faulty,
                   late>>

Notify(r) ==
    /\ notes' = [notes EXCEPT ![r] = @ + 1]
    /\ late' = IF status[r] = "cancelled" THEN [late EXCEPT ![r] = @ + 1]
                                          ELSE late

Mut_CommitUnguarded(p, r) ==
    /\ run[p][r] = "selected"
    /\ Notify(r)
    /\ status' = IF r \in Once THEN [status EXCEPT ![r] = "completed"]
                               ELSE status
    /\ RunGoesTo(p, r, "fired")
    /\ UNCHANGED <<events, due, proc, jobs, toRestore, creating, removing,
                   faulty>>

\* The transaction: a once reminder is claimed by the UPDATE that still finds
\* it scheduled, and notified with it; a daily one is notified unconditionally.
Commit(p, r) ==
    /\ run[p][r] = "selected"
    /\ IF r \in Once /\ status[r] # "scheduled"
         THEN RunGoesTo(p, r, "idle") /\ UNCHANGED <<notes, late, status>>
         ELSE /\ Notify(r)
              /\ status' = IF r \in Once
                             THEN [status EXCEPT ![r] = "completed"] ELSE status
              /\ RunGoesTo(p, r, "fired")
    /\ UNCHANGED <<events, due, proc, jobs, toRestore, creating, removing,
                   faulty>>

AddEvent(p, r) ==
    /\ run[p][r] = "fired"
    /\ events' = [events EXCEPT ![r] = @ + 1]
    /\ RunGoesTo(p, r, "idle")
    /\ UNCHANGED <<status, notes, due, proc, jobs, toRestore, creating,
                   removing, faulty, late>>

\* The database stays locked for the 15 s of busy_timeout: the call raises,
\* and the scheduler logs it.
RunFails(p, r) ==
    /\ proc[p] = "up"
    /\ run[p][r] # "idle"
    /\ RunGoesTo(p, r, "idle")
    /\ faulty' = TRUE
    /\ UNCHANGED <<db, due, proc, jobs, toRestore, creating, removing, late>>

-----------------------------------------------------------------------------
(* start, with the scheduler paused until every listed reminder is visited  *)

Start(p) ==
    /\ proc[p] = "down"
    /\ proc' = [proc EXCEPT ![p] = "restoring"]
    /\ toRestore' = [toRestore EXCEPT ![p] = Scheduled]
    /\ UNCHANGED <<db, due, jobs, run, creating, removing, faulty, late>>

RestoreIsFree(p) == \A r \in Reminders : run[p][r] = "idle"

Mut_RestoreOnlySchedules(p, r) ==
    /\ r \in toRestore[p]
    /\ RestoreIsFree(p)
    /\ toRestore' = [toRestore EXCEPT ![p] = @ \ {r}]
    /\ jobs' = [jobs EXCEPT ![p] = @ \cup {r}]
    /\ UNCHANGED <<db, due, proc, run, creating, removing, faulty, late>>

\* An overdue once reminder runs at once, in the caller: as a job its lateness
\* could exceed misfire_grace_time.
Restore(p, r) ==
    /\ r \in toRestore[p]
    /\ RestoreIsFree(p)
    /\ toRestore' = [toRestore EXCEPT ![p] = @ \ {r}]
    /\ IF r \in Once \cap due
         THEN RunGoesTo(p, r, "called") /\ UNCHANGED jobs
         ELSE jobs' = [jobs EXCEPT ![p] = @ \cup {r}] /\ UNCHANGED run
    /\ UNCHANGED <<db, due, proc, creating, removing, faulty, late>>

Resume(p) ==
    /\ proc[p] = "restoring"
    /\ toRestore[p] = {}
    /\ RestoreIsFree(p)
    /\ proc' = [proc EXCEPT ![p] = "up"]
    /\ UNCHANGED <<db, due, jobs, toRestore, run, creating, removing, faulty,
                   late>>

\* The process ends, by close() or by a crash, or because start() raised: its
\* jobs and whatever its threads had under way are gone.  (The runs that
\* close() lets finish are those that finish before this step.)
Down(p) ==
    /\ proc[p] # "down"
    /\ proc' = [proc EXCEPT ![p] = "down"]
    /\ jobs' = [jobs EXCEPT ![p] = {}]
    /\ toRestore' = [toRestore EXCEPT ![p] = {}]
    /\ run' = [run EXCEPT ![p] = [r \in Reminders |-> "idle"]]
    /\ creating' = {c \in creating : c[1] # p}
    /\ removing' = {c \in removing : c[1] # p}
    /\ faulty' = TRUE
    /\ UNCHANGED <<db, due, late>>

-----------------------------------------------------------------------------
RunStep(p, r) == \/ GetReminder(p, r)
                 \/ Select(p, r)
                 \/ Commit(p, r)
                 \/ AddEvent(p, r)

Next == \/ \E p \in Procs, r \in Reminders :
              \/ Create(p, r) \/ Schedule(p, r) \/ RemoveJob(p, r)
              \/ Dispatch(p, r) \/ Misfire(p, r)
              \/ RunStep(p, r) \/ RunFails(p, r)
              \/ Restore(p, r)
        \/ \E r \in Reminders :
              \/ \E owner \in BOOLEAN : Cancel(r, owner)
              \/ TimePasses(r)
        \/ \E p \in Procs : Start(p) \/ Resume(p) \/ Down(p)

\* Threads are scheduled and the scheduler hands over what is due.  Nothing is
\* assumed of who starts a process, creates, cancels, or lets time pass.
Spec == /\ Init
        /\ [][Next]_vars
        /\ \A p \in Procs, r \in Reminders :
              /\ WF_vars(Schedule(p, r))
              /\ WF_vars(RunStep(p, r))
              /\ WF_vars(r \in Once /\ Dispatch(p, r))
              /\ WF_vars(Restore(p, r))
        /\ \A p \in Procs : WF_vars(Resume(p))

-----------------------------------------------------------------------------
TypeOK ==
    /\ status \in [Reminders -> {"absent", "scheduled", "completed", "cancelled"}]
    /\ due \subseteq Once
    /\ notes \in [Reminders -> Nat]
    /\ events \in [Reminders -> Nat]
    /\ proc \in [Procs -> {"down", "restoring", "up"}]
    /\ jobs \in [Procs -> SUBSET Reminders]
    /\ toRestore \in [Procs -> SUBSET Reminders]
    /\ run \in [Procs -> [Reminders ->
                   {"idle", "called", "seen", "selected", "fired"}]]
    /\ creating \subseteq Procs \X Reminders
    /\ removing \subseteq Procs \X Reminders
    /\ faulty \in BOOLEAN
    /\ late \in [Reminders -> Nat]

\* A once reminder notifies exactly when it is completed, and once, whichever
\* processes and threads race to fire or to cancel it and whichever of them
\* die on the way (the guarded UPDATE and the INSERT share a transaction,
\* database.py:443-466).
FiresAtMostOnce ==
    \A r \in Once : notes[r] = IF status[r] = "completed" THEN 1 ELSE 0

\* Every reminder_fired learning event belongs to a notification of its own:
\* a run that lost the claim logs nothing (service.py:93-99).  (The converse
\* fails: a process that ends between the two transactions loses the event.)
EventsAreBacked ==
    \A r \in Reminders : events[r] + Cardinality(At(r, "fired")) <= notes[r]

\* Whoever notifies after the cancel had selected the row before it, and no
\* run selects it again.
LateIsBounded ==
    \A r \in Reminders :
        /\ (r \in Once \/ status[r] # "cancelled") => late[r] = 0
        /\ late[r] + Cardinality(At(r, "selected")) <= Cardinality(Procs)

IInv == TypeOK /\ FiresAtMostOnce /\ EventsAreBacked /\ LateIsBounded

\* After a cancel that succeeded a daily reminder may still notify, but only
\* by runs that had read it before: one per process (database.py:446-466).
LateRunsAreFew ==
    \A r \in Reminders :
        late[r] <= IF r \in Daily THEN Cardinality(Procs) ELSE 0

\* A reminder notifies when it should and no more often: a once reminder once,
\* and after a cancel nobody but who had read the row before.
FiresAsPromised == FiresAtMostOnce /\ LateRunsAreFew

\* Without a fault, a once reminder whose time has come is fired or cancelled.
DueIsSettled ==
    \A r \in Once :
        (r \in Scheduled /\ r \in due) ~> (r \notin Scheduled \/ faulty)

\* A restart makes up for whatever was missed: an overdue once reminder that a
\* starting process has listed is fired or cancelled unless that process ends
\* (the branch of _restore_jobs that runs it, service.py:101-106).
RestartRecovers ==
    \A p \in Procs, r \in Once :
        (r \in toRestore[p] /\ r \in due) ~>
            (r \notin Scheduled \/ proc[p] = "down")
=============================================================================
