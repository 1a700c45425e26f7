-------------------------- MODULE BackgroundTasks --------------------------
(***************************************************************************)
(* Shell commands that run in the background (rara-background-tasks and    *)
(* tools/bash.rs): a store with two maps under two locks (the records and  *)
(* the senders that stop a task), one runner per task that copies the      *)
(* output of the child and waits for it, and the calls that stop one task  *)
(* or all of them.  The maps are never locked together, so every operation *)
(* on both has a step between them.  Output, commands and paths are left   *)
(* out; a runner may fail at any write of its log.                         *)
(***************************************************************************)
EXTENDS FiniteSets

CONSTANTS Tasks, Stoppers, NoTask

Statuses == {"Running", "Completed", "Failed", "Killed"}
ASSUME TaskAssumption == NoTask \notin Tasks \cup Statuses

VARIABLES
  status,   \* per task: the status of its record, NoTask before it has one
  signals,  \* the tasks whose stop sender is in the map
  sent,     \* the tasks whose runner has been sent its signal
  process,  \* per task: the child: none, up, down
  runner,   \* per task: none, registering, copying, finishing, done
  stopper,  \* per caller of stop or stop_all: tasks left, the one marked
  early     \* history: tasks stopped before their sender was in the map

shellVars == <<status, signals, sent, process, runner, stopper, early>>

Running(t) == status[t] = "Running"
Known == {t \in Tasks : status[t] # NoTask}
Resting == [left |-> {}, marked |-> NoTask]

-----------------------------------------------------------------------------
(* Starting and finishing a task.                                          *)

\* The child is spawned, then start_record inserts the record ...
StartRecord(t) ==
  /\ runner[t] = "none"
  /\ process' = [process EXCEPT ![t] = "up"]
  /\ status' = [status EXCEPT ![t] = "Running"]
  /\ runner' = [runner EXCEPT ![t] = "registering"]
  /\ UNCHANGED <<signals, sent, stopper, early>>

\* ... and its stop sender; the runner is spawned.
RegisterSignal(t) ==
  /\ runner[t] = "registering"
  /\ signals' = signals \cup {t}
  /\ runner' = [runner EXCEPT ![t] = "copying"]
  /\ UNCHANGED <<status, sent, process, stopper, early>>

\* run_background_bash_task: the signal kills the process group.
RunnerStops(t) ==
  /\ runner[t] = "copying" /\ t \in sent
  /\ process[t] = "up"
  /\ process' = [process EXCEPT ![t] = "down"]
  /\ UNCHANGED <<status, signals, sent, runner, stopper, early>>

\* The child ends by itself.
CommandEnds(t) ==
  /\ process[t] = "up"
  /\ process' = [process EXCEPT ![t] = "down"]
  /\ UNCHANGED <<status, signals, sent, runner, stopper, early>>

\* finish, first map: a killed record stays killed.  The runner ends when its
\* child has ended, or when it cannot write the log.
Outcome(t, outcome) == IF status[t] = "Killed" THEN "Killed" ELSE outcome
FinishRecord(t, outcome) ==
  /\ runner[t] = "copying"
  /\ process[t] = "up" => outcome = "Failed"
  /\ status' = [status EXCEPT ![t] = Outcome(t, outcome)]
  /\ runner' = [runner EXCEPT ![t] = "finishing"]
  /\ UNCHANGED <<signals, sent, process, stopper, early>>

\* finish, second map.
DropSignal(t) ==
  /\ runner[t] = "finishing"
  /\ signals' = signals \ {t}
  /\ runner' = [runner EXCEPT ![t] = "done"]
  /\ UNCHANGED <<status, sent, process, stopper, early>>

-----------------------------------------------------------------------------
(* Stopping.                                                               *)

\* background_task_stop: one task, or every task running now.
Stop(s, targets) ==
  /\ stopper[s] = Resting
  /\ targets # {}
  /\ stopper' = [stopper EXCEPT ![s].left = targets]
  /\ UNCHANGED <<status, signals, sent, process, runner, early>>

\* stop, first map: a running record is marked; another is returned as it is.
MarkKilled(s, t) ==
  /\ stopper[s].marked = NoTask /\ t \in stopper[s].left
  /\ stopper' = [stopper EXCEPT ![s].left = @ \ {t},
                                ![s].marked = IF Running(t) THEN t ELSE NoTask]
  /\ status' = IF Running(t) THEN [status EXCEPT ![t] = "Killed"] ELSE status
  /\ early' = IF Running(t) /\ runner[t] = "registering" THEN early \cup {t} ELSE early
  /\ UNCHANGED <<signals, sent, process, runner>>

\* stop, second map: the sender is taken and used.
\* Mutant: the record is looked at again, after it was marked.
SendStopWhileRunning(s) ==
  /\ stopper[s].marked # NoTask
  /\ LET t == stopper[s].marked IN
     /\ signals' = signals \ {t}
     /\ sent' = IF t \in signals /\ Running(t) THEN sent \cup {t} ELSE sent
  /\ stopper' = [stopper EXCEPT ![s].marked = NoTask]
  /\ UNCHANGED <<status, process, runner, early>>
SendStop(s) ==
  /\ stopper[s].marked # NoTask
  /\ LET t == stopper[s].marked IN
     /\ signals' = signals \ {t}
     /\ sent' = IF t \in signals THEN sent \cup {t} ELSE sent
  /\ stopper' = [stopper EXCEPT ![s].marked = NoTask]
  /\ UNCHANGED <<status, process, runner, early>>

ShellInit ==
  /\ status = [t \in Tasks |-> NoTask]
  /\ signals = {} /\ sent = {} /\ early = {}
  /\ process = [t \in Tasks |-> "none"]
  /\ runner = [t \in Tasks |-> "none"]
  /\ stopper = [s \in Stoppers |-> Resting]

ShellNext ==
  \/ \E t \in Tasks :
       \/ StartRecord(t) \/ RegisterSignal(t)
       \/ RunnerStops(t) \/ CommandEnds(t)
       \/ \E outcome \in {"Completed", "Failed"} : FinishRecord(t, outcome)
       \/ DropSignal(t)
       \/ \E s \in Stoppers : MarkKilled(s, t) \/ Stop(s, {t} \cap Known)
  \/ \E s \in Stoppers :
       Stop(s, {t \in Tasks : Running(t)}) \/ SendStop(s)

ShellSpec == ShellInit /\ [][ShellNext]_shellVars

-----------------------------------------------------------------------------
(* Properties.                                                             *)

\* A task that was stopped stays stopped, and its runner hears of it: while it
\* copies output, the signal was sent, is about to be, or the stop came between
\* the two insertions of start_record, the one moment it finds no sender.
StoppedIsSignalled ==
  \A t \in Tasks :
    status[t] = "Killed" /\ runner[t] = "copying" =>
      t \in sent \cup early \/ \E s \in Stoppers : stopper[s].marked = t
=============================================================================
