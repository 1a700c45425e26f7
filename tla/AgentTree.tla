----------------------------- MODULE AgentTree -----------------------------
(***************************************************************************)
(* AgentTreeControl (src/src/tools/agent_control.rs): the registry that one*)
(* session tree shares for its child agents.  A mutex guards the records,  *)
(* cancellation tokens, mailboxes and the set of active tasks; a semaphore *)
(* bounds how many children execute; a Notify wakes whoever waits for a    *)
(* mailbox or for the tree to drain.                                       *)
(*                                                                         *)
(* One action is one critical section of the mutex, or one step outside it *)
(* (taking a permit, setting a token, notifying): everything a concurrent  *)
(* caller can get in between.  A child is a background launch (`start`,    *)
(* its result goes to the parent's mailbox), a foreground launch (`run`,   *)
(* its result is the tool's result) or a member of the one team call       *)
(* (`run`s buffered in one task).                                          *)
(*                                                                         *)
(* Agent ids end in a fresh uuid, so every id is launched at most once and *)
(* the id also names the child's own session.  Records keep no wall clock: *)
(* finished_at and started_at are seconds, ties are broken by HashMap      *)
(* order, so prune may pick any finished record.                           *)
(***************************************************************************)
EXTENDS Integers, Sequences, FiniteSets, Enumeration

CONSTANTS
  Agents,         \* the children launched in a behaviour, also their sessions
  Background,     \* those launched by `start`; the others by `run`
  TeamOrder,      \* the members of the team call, in task order
  Parents,        \* the sessions that launch children
  NoParent,       \* a launch without a session in its tool context
  Parent,         \* [Agents -> Parents \cup {NoParent}]
  NoAgent,        \* the sender of a message that comes from the parent
  AllSenders,     \* a wait without targets
  WaitTargets,    \* what a wait may name: AllSenders, sets of agents (none: no waits)
  SessionCloses,  \* whether the session is shut down in a behaviour
  Capacity,       \* max_active_subagents
  Retention,      \* BACKGROUND_SUBAGENT_COMPLETED_RETENTION
  MailboxCapacity,\* AGENT_MAILBOX_CAPACITY
  MaxSends        \* bound: messages the parents send in a behaviour

Team == {TeamOrder[i] : i \in DOMAIN TeamOrder}
Foreground == Agents \ Background
Sessions == Parents \cup Agents

ASSUME AgentTreeAssumption ==
  /\ Background \subseteq Agents
  /\ TeamOrder \in Seq(Foreground)
  /\ \A i, j \in DOMAIN TeamOrder : TeamOrder[i] = TeamOrder[j] => i = j
  /\ Parents \cap Agents = {}
  /\ NoParent \notin Parents /\ NoAgent \notin Agents
  /\ Parent \in [Agents -> Parents \cup {NoParent}]
  /\ SessionCloses \in BOOLEAN
  /\ WaitTargets \ {AllSenders} \subseteq SUBSET Agents
  /\ Capacity \in Nat \ {0} /\ Retention \in Nat \ {0}
  /\ MailboxCapacity \in Nat \ {0} /\ MaxSends \in Nat

VARIABLES
  status,        \* tasks: the record's status, "absent" when there is none
  cancellations, \* the agents whose token the registry still holds
  activeTasks,   \* active_tasks
  mailbox,       \* mailboxes, per session
  nextSequence,  \* next_sequence
  closing,       \* closing
  available,     \* permits left in the semaphore
  exec,          \* where the task of each launch is
  result,        \* what its execution returned
  token,         \* the AtomicBool each child polls
  stopping,      \* a stop past its critical section: "token", "notify"
  sending,       \* sends past their critical section, not yet notified
  sends,         \* messages sent so far
  yielded,       \* team results collected by the team call
  shutdown,      \* where the shutdown call is
  shutdownWoken, \* its Notified future has been notified
  wait,          \* the wait_for_messages call: [pc, session, targets, woken]
  completions,   \* history: completion envelopes enqueued per agent
  delivered      \* history: sequence numbers handed to a reader

registry == <<status, cancellations, activeTasks, closing>>
mail     == <<mailbox, nextSequence, completions, delivered>>
tasks    == <<available, exec, result, yielded>>
callers  == <<stopping, sending, sends>>
waiters  == <<shutdown, shutdownWoken, wait>>
vars     == <<registry, mail, tasks, token, callers, waiters>>

Terminal == {"done", "failed", "cancelled"}
Messages == [seq : Nat, sender : Agents \cup {NoAgent}]
NoWait   == [pc |-> "idle", session |-> NoParent, targets |-> AllSenders, woken |-> FALSE]

TypeOK ==
  /\ status \in [Agents -> {"absent", "running"} \cup Terminal]
  /\ cancellations \subseteq Agents /\ activeTasks \subseteq Agents
  /\ mailbox \in [Sessions -> Seq(Messages)]
  /\ nextSequence \in Nat \ {0} /\ closing \in BOOLEAN
  /\ available \in 0..Capacity
  /\ exec \in [Agents -> {"idle", "queued", "permitted", "running", "returned",
                          "notifying", "finished", "refused", "dropped"}]
  /\ result \in [Agents -> {"none", "done", "failed"}]
  /\ token \in [Agents -> BOOLEAN]
  /\ stopping \in [Agents -> {"no", "token", "notify"}]
  /\ sending \in 0..MaxSends /\ sends \in 0..MaxSends
  /\ yielded \in 0..Len(TeamOrder)
  /\ shutdown \in {"no", "begun", "arming", "checking", "waiting", "returned"}
  /\ shutdownWoken \in BOOLEAN
  /\ wait \in [pc : {"idle", "first", "arming", "second", "waiting"},
               session : Parents \cup {NoParent},
               targets : WaitTargets \cup {AllSenders}, woken : BOOLEAN]
  /\ completions \in [Agents -> Nat]
  /\ delivered \subseteq Nat

Init ==
  /\ status = [a \in Agents |-> "absent"]
  /\ cancellations = {} /\ activeTasks = {} /\ closing = FALSE
  /\ mailbox = [s \in Sessions |-> <<>>] /\ nextSequence = 1
  /\ available = Capacity
  /\ exec = [a \in Agents |-> "idle"] /\ result = [a \in Agents |-> "none"]
  /\ token = [a \in Agents |-> FALSE]
  /\ stopping = [a \in Agents |-> "no"] /\ sending = 0 /\ sends = 0
  /\ yielded = 0
  /\ shutdown = "no" /\ shutdownWoken = FALSE /\ wait = NoWait
  /\ completions = [a \in Agents |-> 0] /\ delivered = {}

-----------------------------------------------------------------------------
(* Notify, mailboxes and retention *)

\* notify_waiters reaches every Notified future that exists at that moment.
NotifyWaiters ==
  /\ shutdownWoken' = (shutdownWoken \/ shutdown \in {"checking", "waiting"})
  /\ wait' = [wait EXCEPT !.woken = @ \/ wait.pc \in {"second", "waiting"}]
  /\ UNCHANGED shutdown

\* At capacity the oldest message makes room.
PushMailbox(box, message) ==
  Append(IF Len(box) = MailboxCapacity THEN Tail(box) ELSE box, message)

\* The sequence number is taken and used in the same critical section.
Enqueue(session, sender) ==
  /\ mailbox' = [mailbox EXCEPT ![session] =
                   PushMailbox(@, [seq |-> nextSequence, sender |-> sender])]
  /\ nextSequence' = nextSequence + 1

EnqueueCompletion(a) ==
  /\ Enqueue(Parent[a], a)
  /\ completions' = [completions EXCEPT ![a] = @ + 1]
  /\ UNCHANGED delivered

Matches(message, targets) == targets # AllSenders => message.sender \in targets

Wanted(box, targets) == {i \in DOMAIN box : Matches(box[i], targets)}

\* Mutant: the messages are read and stay.
DrainCopies(session, targets) ==
  LET box == mailbox[session]
  IN  /\ delivered' = delivered \cup {box[i].seq : i \in Wanted(box, targets)}
      /\ UNCHANGED <<mailbox, nextSequence, completions>>

\* What a reader takes from the mailbox, and what it leaves in order.
DrainMatching(session, targets) ==
  LET box  == mailbox[session]
      left == Ascending(DOMAIN box \ Wanted(box, targets))
  IN  /\ mailbox' = [mailbox EXCEPT ![session] = [k \in DOMAIN left |-> box[left[k]]]]
      /\ delivered' = delivered \cup {box[i].seq : i \in Wanted(box, targets)}
      /\ UNCHANGED <<nextSequence, completions>>

HasMatch(session, targets) ==
  Wanted(mailbox[session], targets) # {}

\* The records one call of prune may remove once st is in place.
Victims(st, preserve) ==
  LET finished == {a \in Agents : st[a] \in Terminal}
  IN  IF Cardinality(finished) <= Retention THEN {{}}
      ELSE {v \in SUBSET (finished \ {preserve}) :
              Cardinality(v) = Cardinality(finished) - Retention}

Without(st, victims) == [a \in Agents |-> IF a \in victims THEN "absent" ELSE st[a]]

-----------------------------------------------------------------------------
(* Launching *)

\* start: a background launch fails at once when no permit is free.
StartBackground(a) ==
  /\ a \in Background /\ exec[a] = "idle"
  /\ exec' = [exec EXCEPT ![a] = IF available > 0 THEN "permitted" ELSE "refused"]
  /\ available' = IF available > 0 THEN available - 1 ELSE available
  /\ UNCHANGED <<registry, mail, result, yielded, token, callers, waiters>>

\* The team call polls at most Capacity runs ahead of the last result, in
\* task order, and none once a result was an error.
TeamFailed == \E a \in Team : exec[a] = "dropped"
MayRun(a) ==
  a \notin Team \/ \E i \in DOMAIN TeamOrder :
                      /\ TeamOrder[i] = a /\ i <= yielded + Capacity
                      /\ \A j \in 1..(i - 1) : exec[TeamOrder[j]] # "idle"

\* run: a foreground launch queues for a permit.
RunForeground(a) ==
  /\ a \in Foreground /\ exec[a] = "idle" /\ MayRun(a)
  /\ exec' = [exec EXCEPT ![a] = "queued"]
  /\ UNCHANGED <<registry, mail, available, result, yielded, token, callers, waiters>>

AcquirePermit(a) ==
  /\ exec[a] = "queued" /\ available > 0
  /\ exec' = [exec EXCEPT ![a] = "permitted"]
  /\ available' = available - 1
  /\ UNCHANGED <<registry, mail, result, yielded, token, callers, waiters>>

\* Mutant: the refused launch keeps its permit.
RegisterRefusedKeepsPermit(a) ==
  /\ exec[a] = "permitted" /\ closing
  /\ exec' = [exec EXCEPT ![a] = "refused"]
  /\ UNCHANGED <<registry, mail, available, result, yielded, token, callers, waiters>>

\* register refuses a closing tree, and the permit of the launch is dropped.
RegisterRefused(a) ==
  /\ exec[a] = "permitted" /\ closing
  /\ exec' = [exec EXCEPT ![a] = "refused"]
  /\ available' = available + 1
  /\ UNCHANGED <<registry, mail, result, yielded, token, callers, waiters>>

RegisterAccepted(a) ==
  /\ exec[a] = "permitted" /\ ~closing
  /\ status' = [status EXCEPT ![a] = "running"]
  /\ activeTasks' = activeTasks \cup {a}
  /\ cancellations' = cancellations \cup {a}
  /\ exec' = [exec EXCEPT ![a] = "running"]
  /\ UNCHANGED <<mail, closing, available, result, yielded, token, callers, waiters>>

-----------------------------------------------------------------------------
(* The execution of a child and its end *)

\* run_sub_agent returns, cancelled or not, and its permit goes with it.
ExecutionReturns(a) ==
  /\ exec[a] = "running"
  /\ \E r \in {"done", "failed"} : result' = [result EXCEPT ![a] = r]
  /\ exec' = [exec EXCEPT ![a] = "returned"]
  /\ available' = available + 1
  /\ UNCHANGED <<registry, mail, yielded, token, callers, waiters>>

\* Mutant: the result overwrites a stop's verdict.
FinalStatusOverwrites(a) == result[a]

\* The status a finished child's record ends with: a stop keeps its verdict.
FinalStatus(a) == IF status[a] = "running" THEN result[a] ELSE status[a]

\* Mutant: the completion is enqueued whether or not a stop already did.
FinishAlwaysMails(a) ==
  /\ exec[a] = "returned"
  /\ activeTasks' = activeTasks \ {a}
  /\ status' = [status EXCEPT ![a] = FinalStatus(a)]
  /\ cancellations' = cancellations \ {a}
  /\ IF a \in Background /\ Parent[a] # NoParent THEN EnqueueCompletion(a) ELSE UNCHANGED mail
  /\ exec' = [exec EXCEPT ![a] = "notifying"]
  /\ UNCHANGED <<closing, available, result, yielded, token, callers, waiters>>

\* finish, under the lock.
Finish(a) ==
  /\ exec[a] = "returned"
  /\ activeTasks' = activeTasks \ {a}
  /\ LET st == [status EXCEPT ![a] = FinalStatus(a)]
     IN  \E victims \in IF status[a] = "absent" THEN {{}} ELSE Victims(st, a) :
           /\ status' = Without(st, victims)
           /\ cancellations' = (cancellations \ {a}) \ victims
  /\ IF status[a] = "running" /\ a \in Background /\ Parent[a] # NoParent
     THEN EnqueueCompletion(a) ELSE UNCHANGED mail
  /\ exec' = [exec EXCEPT ![a] = "notifying"]
  /\ UNCHANGED <<closing, available, result, yielded, token, callers, waiters>>

\* Mutant: finish forgets to notify.
FinishSilent(a) ==
  /\ exec[a] = "notifying"
  /\ exec' = [exec EXCEPT ![a] = "finished"]
  /\ UNCHANGED <<registry, mail, available, result, yielded, token, callers, waiters>>

FinishNotifies(a) ==
  /\ exec[a] = "notifying"
  /\ exec' = [exec EXCEPT ![a] = "finished"]
  /\ result' = IF a \in Team THEN result ELSE [result EXCEPT ![a] = "none"]
  /\ NotifyWaiters
  /\ UNCHANGED <<registry, mail, available, yielded, token, callers>>

\* The team call takes the next result in task order.  An error ends the
\* call: the runs behind it are futures of the same task, suspended where
\* they wait for a permit or for the child, and are dropped there.  A dropped
\* run gives back its permit and never reaches finish.
TeamYields ==
  /\ yielded < Len(TeamOrder) /\ ~TeamFailed
  /\ LET a      == TeamOrder[yielded + 1]
         behind == {TeamOrder[i] : i \in (yielded + 2)..Len(TeamOrder)}
         lost   == {b \in behind : exec[b] \in {"idle", "queued", "running"}}
         freed  == {b \in behind : exec[b] = "running"}
     IN  \/ /\ exec[a] = "finished" /\ result[a] = "done"
            /\ UNCHANGED <<available, exec>>
         \/ /\ exec[a] = "refused" \/ (exec[a] = "finished" /\ result[a] = "failed")
            /\ \A b \in behind : exec[b] \notin {"permitted", "returned", "notifying"}
            /\ exec' = [b \in Agents |-> IF b \in lost THEN "dropped" ELSE exec[b]]
            /\ available' = available + Cardinality(freed)
  /\ yielded' = yielded + 1
  /\ UNCHANGED <<registry, mail, result, token, callers, waiters>>

-----------------------------------------------------------------------------
(* Stopping one child, cancelling all of them *)

\* Mutant: a stop ends the active task at once.
StopEndsTask(a) ==
  /\ Parent[a] # NoParent /\ status[a] = "running"
  /\ cancellations' = cancellations \ {a}
  /\ status' = [status EXCEPT ![a] = "cancelled"]
  /\ activeTasks' = activeTasks \ {a}
  /\ EnqueueCompletion(a)
  /\ stopping' = [stopping EXCEPT ![a] = "token"]
  /\ UNCHANGED <<closing, tasks, token, sending, sends, waiters>>

\* stop_owned, under the lock.  A child that is not running is left alone.
Stop(a) ==
  /\ Parent[a] # NoParent /\ status[a] = "running"
  /\ LET st == [status EXCEPT ![a] = "cancelled"]
     IN  \E victims \in Victims(st, a) :
           /\ status' = Without(st, victims)
           /\ cancellations' = (cancellations \ {a}) \ victims
  /\ EnqueueCompletion(a)
  /\ stopping' = [stopping EXCEPT ![a] = "token"]
  /\ UNCHANGED <<activeTasks, closing, tasks, token, sending, sends, waiters>>

StopSetsToken(a) ==
  /\ stopping[a] = "token"
  /\ token' = [token EXCEPT ![a] = TRUE]
  /\ stopping' = [stopping EXCEPT ![a] = "notify"]
  /\ UNCHANGED <<registry, mail, tasks, sending, sends, waiters>>

StopNotifies(a) ==
  /\ stopping[a] = "notify"
  /\ stopping' = [stopping EXCEPT ![a] = "no"]
  /\ NotifyWaiters
  /\ UNCHANGED <<registry, mail, tasks, token, sending, sends>>

\* cancel_running: the tokens held when it took the lock.  Setting them
\* commutes with every other step, so the two halves are one action.
CancelRunning == token' = [a \in Agents |-> token[a] \/ a \in cancellations]

\* A cancelled or interrupted turn cancels the children, and no more.
CancelDescendants ==
  /\ \E a \in cancellations : ~token[a]
  /\ CancelRunning
  /\ UNCHANGED <<registry, mail, tasks, callers, waiters>>

-----------------------------------------------------------------------------
(* Shutdown: close, cancel, then wait for active_tasks to be empty *)

BeginShutdown ==
  /\ SessionCloses /\ shutdown = "no"
  /\ closing' = TRUE /\ shutdown' = "begun"
  /\ UNCHANGED <<status, cancellations, activeTasks, mail, tasks, token, callers,
                 shutdownWoken, wait>>

ShutdownCancels ==
  /\ shutdown = "begun"
  /\ CancelRunning /\ shutdown' = "arming"
  /\ UNCHANGED <<registry, mail, tasks, callers, shutdownWoken, wait>>

ShutdownArms ==
  /\ shutdown = "arming"
  /\ shutdown' = "checking" /\ shutdownWoken' = FALSE
  /\ UNCHANGED <<registry, mail, tasks, token, callers, wait>>

ShutdownChecks ==
  /\ shutdown = "checking"
  /\ shutdown' = IF activeTasks = {} THEN "returned" ELSE "waiting"
  /\ UNCHANGED <<registry, mail, tasks, token, callers, shutdownWoken, wait>>

ShutdownWakes ==
  /\ shutdown = "waiting" /\ shutdownWoken
  /\ shutdown' = "arming"
  /\ UNCHANGED <<registry, mail, tasks, token, callers, shutdownWoken, wait>>

-----------------------------------------------------------------------------
(* Messages *)

\* send_to_child, under the lock: the child is owned and still running.
Send(a) ==
  /\ sends < MaxSends /\ Parent[a] # NoParent /\ status[a] = "running"
  /\ Enqueue(a, NoAgent)
  /\ sends' = sends + 1 /\ sending' = sending + 1
  /\ UNCHANGED <<registry, completions, delivered, tasks, token, stopping, waiters>>

SendNotifies ==
  /\ sending > 0 /\ sending' = sending - 1
  /\ NotifyWaiters
  /\ UNCHANGED <<registry, mail, tasks, token, stopping, sends>>

\* drain_mailbox at the next model request of the session's agent: a parent's
\* at any time, a child's while it executes.
DrainMailbox(s) ==
  /\ s \in Agents => exec[s] = "running"
  /\ mailbox[s] # <<>>
  /\ DrainMatching(s, AllSenders)
  /\ UNCHANGED <<registry, tasks, token, callers, waiters>>

\* wait_for_messages: drain, arm, drain again, wait, and around again.  A
\* wait names retained children of its own session only.
WaitStarts(p, targets) ==
  /\ wait.pc = "idle"
  /\ targets # AllSenders => \A a \in targets : Parent[a] = p /\ status[a] # "absent"
  /\ wait' = [pc |-> "first", session |-> p, targets |-> targets, woken |-> FALSE]
  /\ UNCHANGED <<registry, mail, tasks, token, callers, shutdown, shutdownWoken>>

\* Either drain ends the call when it finds something.
WaitDrains(pc) ==
  /\ wait.pc = pc
  /\ HasMatch(wait.session, wait.targets)
  /\ DrainMatching(wait.session, wait.targets)
  /\ wait' = NoWait
  /\ UNCHANGED <<registry, tasks, token, callers, shutdown, shutdownWoken>>

\* Mutant: the future is created, and the wait goes on without looking again.
WaitArmsLate ==
  /\ wait.pc = "arming"
  /\ wait' = [wait EXCEPT !.pc = "waiting", !.woken = FALSE]
  /\ UNCHANGED <<registry, mail, tasks, token, callers, shutdown, shutdownWoken>>

WaitArms ==
  /\ wait.pc = "arming"
  /\ wait' = [wait EXCEPT !.pc = "second", !.woken = FALSE]
  /\ UNCHANGED <<registry, mail, tasks, token, callers, shutdown, shutdownWoken>>

\* An empty drain goes on: from the first to arming, from the second to waiting.
WaitGoesOn(pc, next) ==
  /\ wait.pc = pc
  /\ ~HasMatch(wait.session, wait.targets)
  /\ wait' = [wait EXCEPT !.pc = next]
  /\ UNCHANGED <<registry, mail, tasks, token, callers, shutdown, shutdownWoken>>

WaitWakes ==
  /\ wait.pc = "waiting" /\ wait.woken
  /\ wait' = [wait EXCEPT !.pc = "first"]
  /\ UNCHANGED <<registry, mail, tasks, token, callers, shutdown, shutdownWoken>>

WaitTimesOut ==
  /\ wait.pc = "waiting"
  /\ wait' = NoWait
  /\ UNCHANGED <<registry, mail, tasks, token, callers, shutdown, shutdownWoken>>

-----------------------------------------------------------------------------

Launch(a) == StartBackground(a) \/ RunForeground(a) \/ AcquirePermit(a)
             \/ RegisterRefused(a) \/ RegisterAccepted(a)
Execution(a) == ExecutionReturns(a) \/ Finish(a) \/ FinishNotifies(a)
StopCall(a) == Stop(a) \/ StopSetsToken(a) \/ StopNotifies(a)
ShutdownCall == BeginShutdown \/ ShutdownCancels \/ ShutdownArms
                \/ ShutdownChecks \/ ShutdownWakes
WaitCall == \/ \E p \in Parents, t \in WaitTargets : WaitStarts(p, t)
            \/ \E pc \in {"first", "second"} : WaitDrains(pc)
            \/ WaitArms
            \/ WaitGoesOn("first", "arming") \/ WaitGoesOn("second", "waiting")
            \/ WaitWakes \/ WaitTimesOut

Next ==
  \/ \E a \in Agents : Launch(a) \/ Execution(a) \/ StopCall(a) \/ Send(a)
  \/ TeamYields \/ CancelDescendants \/ ShutdownCall \/ SendNotifies
  \/ \E s \in Sessions : DrainMailbox(s)
  \/ WaitCall

Spec == Init /\ [][Next]_vars

(***************************************************************************)
(* Fairness.  Spawned tasks and the callers of stop and shutdown keep being*)
(* polled, and an execution returns: run_sub_agent wraps the child's query *)
(* in a timeout.  The semaphore is FIFO, so a queued run gets a permit if  *)
(* permits keep coming back.  Nothing makes a parent launch, stop, send,   *)
(* drain or wait.                                                          *)
(***************************************************************************)
Fairness ==
  /\ \A a \in Agents :
       /\ WF_vars(RegisterRefused(a) \/ RegisterAccepted(a))
       /\ WF_vars(Execution(a))
       /\ WF_vars(StopSetsToken(a) \/ StopNotifies(a))
       /\ SF_vars(AcquirePermit(a))
  /\ WF_vars(TeamYields)
  /\ WF_vars(ShutdownCancels \/ ShutdownArms \/ ShutdownChecks \/ ShutdownWakes)

FairSpec == Spec /\ Fairness

-----------------------------------------------------------------------------
(* Properties *)

\* However stop and finish race, a child's completion is enqueued at most once,
\* and a background child that finished has been announced to its parent.
OneCompletion ==
  \A a \in Agents :
    /\ completions[a] <= 1
    /\ (a \in Background /\ Parent[a] # NoParent
          /\ exec[a] \in {"notifying", "finished"}) => completions[a] = 1

\* A record that reached a terminal status keeps it until it is pruned: a late
\* result never turns a stopped child into a finished one.
TerminalStays ==
  [][\A a \in Agents : status[a] \in Terminal => status'[a] \in {status[a], "absent"}]_vars

\* Mailboxes are in sequence order, a message reaches its own session's mailbox
\* only, and what a reader took is gone for every other reader.
MailboxFaithful ==
  \A s \in Sessions : \A i \in DOMAIN mailbox[s] :
    /\ \A j \in 1..(i - 1) : mailbox[s][j].seq < mailbox[s][i].seq
    /\ mailbox[s][i].seq \notin delivered
    /\ IF mailbox[s][i].sender = NoAgent THEN s \in Agents
       ELSE Parent[mailbox[s][i].sender] = s

\* Nobody sleeps through its wakeup: while a wait sleeps with a message for it,
\* the notification is still to come.  (For shutdown see ShutdownReturns.)
NoLostWakeup ==
  (wait.pc = "waiting" /\ ~wait.woken /\ HasMatch(wait.session, wait.targets)) =>
     \/ sending > 0
     \/ \E a \in Agents : exec[a] = "notifying" \/ stopping[a] # "no"

\* Once shutdown has cancelled, every child that still executes has its token
\* set, or a stop that took the token away is about to set it: no registration
\* slips in between closing and cancelling.
CancelReachesAll ==
  shutdown \notin {"no", "begun"} =>
    \A a \in Agents : exec[a] = "running" => token[a] \/ stopping[a] = "token"

\* When shutdown returns no child executes or has a result to record.
ShutdownDrained ==
  shutdown = "returned" => \A a \in Agents : exec[a] \notin {"running", "returned"}

\* A shutdown leaves nothing behind: it reaches every child and outlasts it.
ShutdownComplete == CancelReachesAll /\ ShutdownDrained

\* Shutdown returns: every active child ends and the call is woken for it.
ShutdownReturns == shutdown = "begun" ~> shutdown = "returned"

\* A foreground launch does not queue for ever.
BackpressureDrains == \A a \in Agents : exec[a] = "queued" ~> exec[a] # "queued"

\* The documented contract that a foreground result is never also mailed.
ForegroundNotMailed == \A a \in Foreground : completions[a] = 0

=============================================================================
