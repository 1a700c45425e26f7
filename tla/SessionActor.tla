---------------------------- MODULE SessionActor ----------------------------
(***************************************************************************)
(* One runtime session: the callers of its SessionHandle, the bounded       *)
(* command channel, the SessionActor that owns the driver, and the spawned  *)
(* task that runs the admitted turn.                                        *)
(*                                                                         *)
(* A caller has one call in flight; its command is the record call[c], and  *)
(* the command channel is the sequence of callers whose commands it holds.  *)
(* Handling a command is one step of the actor except where the code        *)
(* awaits, or publishes a snapshot that a concurrent handle may read before *)
(* the rest is done.  The driver is the native one: its agent may come back *)
(* from a turn with a pending interaction.                                  *)
(***************************************************************************)
EXTENDS Integers, Sequences, FiniteSets

CONSTANTS
    Clients,        \* concurrent users of the session's handles
    QueueCapacity,  \* command_capacity of the session
    MaxTurns,       \* bound: how many turn identities are generated
    Kinds           \* kinds of pending interaction (user, plan, shell)

ASSUME QueueAssumption == QueueCapacity \in Nat \ {0}
ASSUME TurnAssumption == MaxTurns \in Nat

NoTurn == 0
Turns == 1..MaxTurns
StopKinds == {"cancel", "interrupt"}
ASSUME KindAssumption == Kinds \cap {"none", "legacy", "prompt", "cancel", "interrupt"} = {}

VARIABLES
    (* the actor *)
    at,         \* where the actor is: see ActorLocations
    active,     \* the active turn, or NoTurn
    stopKind,   \* ActiveTurn.stop_kind, or "none"
    cancelled,  \* the cancellation flag shared with the turn
    closing,
    pending,    \* pending_input: [turn, kind], kind "none" when there is none
    waiters,    \* shutdown_waiters
    completing, \* result of the turn that finish_turn is completing
    (* shared with the handles *)
    queue,      \* the command channel
    open,       \* has the receiver not been closed?
    outcome,    \* shutdown_outcome: "unset", "complete" or "failed"
    phase,      \* the snapshot's phase: [name, turn]
    handles,    \* is some handle still alive?
    (* the turn task and the agent it carries *)
    task,       \* the turn being executed, or NoTurn
    completion, \* the completion channel: [turn, result], turn NoTurn if empty
    agentHome,  \* does the driver hold the agent?
    agentPending, \* the agent's own pending interaction, or "none"
    (* the callers *)
    pc, call, reply, issued,
    (* history of what was published and answered *)
    started, terminal, input, stopAck, receipts

actorVars == <<at, active, stopKind, cancelled, closing, pending, waiters, completing>>
handleVars == <<queue, open, outcome, phase, handles>>
taskVars == <<task, completion, agentHome, agentPending>>
clientVars == <<pc, call, reply, issued>>
history == <<started, terminal, input, stopAck, receipts>>
vars == <<actorVars, handleVars, taskVars, clientVars, history>>

(***************************************************************************)
(* "select": in run's select.  "drain": Closing is published, the command   *)
(* channel not yet closed.  "after_turn": finish_turn awaits the driver.    *)
(* "finish": finish_shutdown awaits the driver.  "receipts": Closed is      *)
(* published, the waiters not yet answered.  "done": run returned.          *)
(***************************************************************************)
ActorLocations == {"select", "drain", "after_turn", "finish", "receipts", "done"}

ClientLocations == {"idle", "push", "await", "check_closing", "send_shutdown",
                    "send_failed", "wait_closed"}

PhaseNames == {"idle", "awaiting", "running", "cancelling", "closing", "closed"}
Discards == {"superseded", "cancelled", "interrupted", "shutdown"}
Terminals == {"completed", "awaiting_input", "cancelled", "interrupted", "failed"}
Receipts == {"complete", "failed", "stopped"}

NoCall == [op |-> "none", turn |-> NoTurn, arg |-> "none", waiting |-> NoTurn]
NoPending == [turn |-> NoTurn, kind |-> "none"]
NoCompletion == [turn |-> NoTurn, result |-> "none"]
Idle == [name |-> "idle", turn |-> NoTurn]

\* What a caller can ask: start a turn with a legacy or strict prompt or an
\* answer of some kind, stop the current or an expected turn, a command that
\* only needs an idle session (control, transcript), replace the transcript,
\* query the state, shut down.
Calls ==
    [op : {"start"}, turn : Turns, arg : {"legacy", "prompt"}, waiting : {NoTurn}]
    \cup [op : {"start"}, turn : Turns, arg : Kinds, waiting : Turns]
    \cup [op : {"stop"}, turn : Turns \cup {NoTurn}, arg : StopKinds, waiting : {NoTurn}]
    \cup [op : {"control", "replace", "query", "shutdown"}, turn : {NoTurn},
          arg : {"none"}, waiting : {NoTurn}]

TypeOK ==
    /\ at \in ActorLocations
    /\ active \in Turns \cup {NoTurn}
    /\ stopKind \in StopKinds \cup {"none"}
    /\ cancelled \in BOOLEAN
    /\ closing \in BOOLEAN
    /\ pending \in [turn : Turns \cup {NoTurn}, kind : Kinds \cup {"none"}]
    /\ waiters \subseteq Clients
    /\ completing \in [turn : Turns \cup {NoTurn}, result : {"none", "ok", "err"}]
    /\ queue \in Seq(Clients) /\ Len(queue) <= QueueCapacity
    /\ open \in BOOLEAN
    /\ outcome \in {"unset", "complete", "failed"}
    /\ phase \in [name : PhaseNames, turn : Turns \cup {NoTurn}]
    /\ handles \in BOOLEAN
    /\ task \in Turns \cup {NoTurn}
    /\ completion \in [turn : Turns \cup {NoTurn}, result : {"none", "ok", "err"}]
    /\ agentHome \in BOOLEAN
    /\ agentPending \in Kinds \cup {"none"}
    /\ pc \in [Clients -> ClientLocations]
    /\ call \in [Clients -> Calls \cup {NoCall}]
    /\ reply \in [Clients -> {"none", "ok", "error", "closed", "failed", "dropped"}]
    /\ issued \in 0..MaxTurns
    /\ started \subseteq Turns
    /\ terminal \in [Turns -> Terminals \cup {"none"}]
    /\ input \in [Turns -> {"none", "requested", "answered"} \cup Discards]
    /\ stopAck \in [Turns -> StopKinds \cup {"none"}]
    /\ receipts \subseteq Receipts

Init ==
    /\ at = "select"
    /\ active = NoTurn /\ stopKind = "none" /\ cancelled = FALSE
    /\ closing = FALSE
    /\ pending = NoPending
    /\ waiters = {}
    /\ completing = NoCompletion
    /\ queue = <<>> /\ open = TRUE
    /\ outcome = "unset"
    /\ phase = Idle
    /\ handles = TRUE
    /\ task = NoTurn /\ completion = NoCompletion
    /\ agentHome = TRUE /\ agentPending = "none"
    /\ pc = [c \in Clients |-> "idle"]
    /\ call = [c \in Clients |-> NoCall]
    /\ reply = [c \in Clients |-> "none"]
    /\ issued = 0
    /\ started = {}
    /\ terminal = [t \in Turns |-> "none"]
    /\ input = [t \in Turns |-> "none"]
    /\ stopAck = [t \in Turns |-> "none"]
    /\ receipts = {}

-----------------------------------------------------------------------------
(* The handle: SessionHandle's calls, up to their commands being queued *)

Permits == QueueCapacity - Len(queue) - Cardinality({c \in Clients : pc[c] = "push"})

\* A call other than shutdown: try_send takes a permit of the channel, or
\* fails at once (Overloaded, Closed) and changes nothing.
Request(c) ==
    /\ handles /\ pc[c] = "idle"
    /\ open /\ Permits > 0
    /\ \E cmd \in Calls :
          /\ CASE cmd.op = "start" -> cmd.turn = issued + 1 /\ cmd.waiting <= issued
               [] cmd.op = "stop" -> cmd.turn <= issued
               [] cmd.op = "shutdown" -> FALSE
               [] OTHER -> TRUE
          /\ call' = [call EXCEPT ![c] = cmd]
          /\ issued' = IF cmd.op = "start" THEN issued + 1 ELSE issued
    /\ pc' = [pc EXCEPT ![c] = "push"]
    /\ UNCHANGED <<actorVars, handleVars, taskVars, reply, history>>

\* The second half of a send: the permit was taken, the command is queued,
\* even when the receiver was closed in between.
Push(c) ==
    /\ pc[c] = "push"
    /\ queue' = Append(queue, c)
    /\ pc' = [pc EXCEPT ![c] = "await"]
    /\ UNCHANGED <<actorVars, open, outcome, phase, handles, taskVars, call, reply,
                   issued, history>>

\* The caller of anything but shutdown reads its reply.
Return(c) ==
    /\ pc[c] = "await" /\ call[c].op # "shutdown" /\ reply[c] # "none"
    /\ pc' = [pc EXCEPT ![c] = "idle"]
    /\ call' = [call EXCEPT ![c] = NoCall]
    /\ reply' = [reply EXCEPT ![c] = "none"]
    /\ UNCHANGED <<actorVars, handleVars, taskVars, issued, history>>

-----------------------------------------------------------------------------
(* SessionHandle::shutdown *)

ClosingOrClosed == phase.name \in {"closing", "closed"}

\* shutdown_result: the retained outcome, ActorStopped without one.
ShutdownResult == IF outcome = "unset" THEN "stopped" ELSE outcome

ShutdownReturns(c, r) ==
    /\ pc' = [pc EXCEPT ![c] = "idle"]
    /\ call' = [call EXCEPT ![c] = NoCall]
    /\ reply' = [reply EXCEPT ![c] = "none"]
    /\ receipts' = receipts \cup {r}

GoTo(c, location) == pc' = [pc EXCEPT ![c] = location] /\ UNCHANGED <<call, reply, receipts>>

\* First look at the snapshot.
CallShutdown(c) ==
    /\ handles /\ pc[c] = "idle"
    /\ IF phase.name = "closed"
         THEN ShutdownReturns(c, ShutdownResult)
         ELSE /\ pc' = [pc EXCEPT ![c] = "check_closing"]
              /\ call' = [call EXCEPT ![c] = [NoCall EXCEPT !.op = "shutdown"]]
              /\ UNCHANGED <<reply, receipts>>
    /\ UNCHANGED <<actorVars, handleVars, taskVars, issued, started, terminal, input,
                   stopAck>>

\* Second look at the snapshot, which may have moved on.
CheckClosing(c) ==
    /\ pc[c] = "check_closing"
    /\ GoTo(c, IF phase.name = "closing" THEN "wait_closed" ELSE "send_shutdown")
    /\ UNCHANGED <<actorVars, handleVars, taskVars, issued, started, terminal, input,
                   stopAck>>

\* Mutant of SendShutdown: a caller that finds the channel closed gives up.
SendShutdownNoRetry(c) ==
    /\ pc[c] = "send_shutdown"
    /\ open /\ Permits > 0 /\ GoTo(c, "push")
    /\ UNCHANGED <<actorVars, handleVars, taskVars, issued, started, terminal, input,
                   stopAck>>

\* Unlike the other calls, shutdown waits for room in the channel.
SendShutdown(c) ==
    /\ pc[c] = "send_shutdown"
    /\ \/ open /\ Permits > 0 /\ GoTo(c, "push")
       \/ ~open /\ GoTo(c, "send_failed")
    /\ UNCHANGED <<actorVars, handleVars, taskVars, issued, started, terminal, input,
                   stopAck>>

\* The channel was closed under the sender.
SendFailed(c) ==
    /\ pc[c] = "send_failed"
    /\ IF ClosingOrClosed THEN GoTo(c, "wait_closed") ELSE ShutdownReturns(c, "stopped")
    /\ UNCHANGED <<actorVars, handleVars, taskVars, issued, started, terminal, input,
                   stopAck>>

\* The reply to a queued Shutdown: its receipt, a rejection by the shutdown
\* that came first, or a channel dropped with the command in it.
ShutdownReply(c) ==
    /\ pc[c] = "await" /\ call[c].op = "shutdown" /\ reply[c] # "none"
    /\ \/ reply[c] = "ok" /\ ShutdownReturns(c, "complete")
       \/ reply[c] = "failed" /\ ShutdownReturns(c, "failed")
       \/ /\ reply[c] \in {"closed", "dropped"}
          /\ IF ClosingOrClosed
               THEN GoTo(c, "wait_closed")
               ELSE ShutdownReturns(c, "stopped")
    /\ UNCHANGED <<actorVars, handleVars, taskVars, issued, started, terminal, input,
                   stopAck>>

\* wait_until_closed: the watch channel wakes the caller for every snapshot.
WaitClosed(c) ==
    /\ pc[c] = "wait_closed"
    /\ phase.name = "closed"
    /\ ShutdownReturns(c, ShutdownResult)
    /\ UNCHANGED <<actorVars, handleVars, taskVars, issued, started, terminal, input,
                   stopAck>>

\* The last handle is dropped while no call is in flight.
DropHandles ==
    /\ handles /\ \A c \in Clients : pc[c] = "idle"
    /\ handles' = FALSE
    /\ UNCHANGED <<actorVars, queue, open, outcome, phase, taskVars, clientVars, history>>

-----------------------------------------------------------------------------
(* The actor: handle_command *)

Answer(c, r) == reply' = [reply EXCEPT ![c] = r]

\* The select's command branch takes the oldest command.  The completion branch
\* is polled first, but a completion can arrive right after that poll.
Receive(c, op) ==
    /\ at = "select" /\ ~closing
    /\ queue # <<>> /\ c = Head(queue) /\ call[c].op = op
    /\ queue' = Tail(queue)

RequireIdle == active = NoTurn

\* TurnInput::validate: a strict prompt needs a session without a pending
\* interaction, an answer needs the interaction it names.
ValidInput(cmd) ==
    CASE cmd.arg = "legacy" -> TRUE
      [] cmd.arg = "prompt" -> pending.kind = "none"
      [] OTHER -> pending = [turn |-> cmd.waiting, kind |-> cmd.arg]

Admissible(c) == RequireIdle /\ ValidInput(call[c]) /\ agentHome

\* A pending interaction is answered by an answer, superseded by a prompt.
StartTurn(c) ==
    /\ Receive(c, "start")
    /\ Admissible(c)
    /\ LET t == call[c].turn
           answered == call[c].arg \in Kinds
       IN  /\ input' = IF pending.kind = "none" THEN input
                       ELSE [input EXCEPT ![pending.turn] =
                                IF answered THEN "answered" ELSE "superseded"]
           /\ agentPending' = IF answered THEN agentPending ELSE "none"
           /\ active' = t
           /\ task' = t
           /\ started' = started \cup {t}
           /\ phase' = [name |-> "running", turn |-> t]
    /\ pending' = NoPending
    /\ stopKind' = "none" /\ cancelled' = FALSE
    /\ agentHome' = FALSE
    /\ Answer(c, "ok")
    /\ UNCHANGED <<at, closing, waiters, completing, open, outcome, handles, completion,
                   pc, call, issued, terminal, stopAck, receipts>>

RejectTurn(c) ==
    /\ Receive(c, "start")
    /\ ~Admissible(c)
    /\ Answer(c, "error")
    /\ UNCHANGED <<actorVars, open, outcome, phase, handles, taskVars, pc, call, issued,
                   history>>

DiscardReason(kind) == IF kind = "cancel" THEN "cancelled" ELSE "interrupted"

\* Mutant of StopPending: the session forgets the interaction, the agent does not.
StopPendingKeepsAgent(c) ==
    /\ Receive(c, "stop")
    /\ active = NoTurn /\ pending.kind # "none"
    /\ call[c].turn \in {NoTurn, pending.turn}
    /\ agentHome
    /\ input' = [input EXCEPT ![pending.turn] = DiscardReason(call[c].arg)]
    /\ pending' = NoPending
    /\ phase' = Idle
    /\ Answer(c, "ok")
    /\ UNCHANGED <<at, active, stopKind, cancelled, closing, waiters, completing, open,
                   outcome, handles, task, completion, agentHome, pc, call, issued,
                   started, terminal, stopAck, receipts, agentPending>>

\* Mutant of StopPending: the interaction is announced as discarded but kept.
StopPendingKeepsInput(c) ==
    /\ Receive(c, "stop")
    /\ active = NoTurn /\ pending.kind # "none"
    /\ call[c].turn \in {NoTurn, pending.turn}
    /\ agentHome
    /\ input' = [input EXCEPT ![pending.turn] = DiscardReason(call[c].arg)]
    /\ agentPending' = "none"
    /\ phase' = Idle
    /\ Answer(c, "ok")
    /\ UNCHANGED <<at, active, stopKind, cancelled, closing, waiters, completing, open,
                   outcome, handles, task, completion, agentHome, pc, call, issued,
                   started, terminal, stopAck, receipts, pending>>

\* Stopping a session that waits for input discards the pending interaction.
StopPending(c) ==
    /\ Receive(c, "stop")
    /\ active = NoTurn /\ pending.kind # "none"
    /\ call[c].turn \in {NoTurn, pending.turn}
    /\ agentHome
    /\ input' = [input EXCEPT ![pending.turn] = DiscardReason(call[c].arg)]
    /\ pending' = NoPending
    /\ agentPending' = "none"
    /\ phase' = Idle
    /\ Answer(c, "ok")
    /\ UNCHANGED <<at, active, stopKind, cancelled, closing, waiters, completing, open,
                   outcome, handles, task, completion, agentHome, pc, call, issued,
                   started, terminal, stopAck, receipts>>

\* Mutant of StopActive: the acknowledgement ends the turn before it returned.
StopActiveDetaches(c) ==
    /\ Receive(c, "stop")
    /\ active # NoTurn
    /\ call[c].turn \in {NoTurn, active}
    /\ active' = NoTurn
    /\ phase' = Idle
    /\ Answer(c, "ok")
    /\ UNCHANGED <<at, stopKind, cancelled, closing, pending, waiters, completing, open,
                   outcome, handles, taskVars, pc, call, issued, history>>

\* The first accepted stop kind is kept; repeating it is idempotent.
StopActive(c) ==
    /\ Receive(c, "stop")
    /\ active # NoTurn
    /\ call[c].turn \in {NoTurn, active}
    /\ stopKind \in {"none", call[c].arg}
    /\ stopKind' = call[c].arg
    /\ cancelled' = TRUE
    /\ stopAck' = [stopAck EXCEPT ![active] = call[c].arg]
    /\ phase' = [name |-> "cancelling", turn |-> active]
    /\ Answer(c, "ok")
    /\ UNCHANGED <<at, active, closing, pending, waiters, completing, open, outcome,
                   handles, taskVars, pc, call, issued, started, terminal, input,
                   receipts>>

\* NotRunning, StaleInput, StaleTurn or StopInProgress.
RejectStop(c) ==
    /\ Receive(c, "stop")
    /\ IF active = NoTurn
         THEN pending.kind = "none" \/ call[c].turn \notin {NoTurn, pending.turn}
         ELSE \/ call[c].turn \notin {NoTurn, active}
              \/ stopKind \notin {"none", call[c].arg}
    /\ Answer(c, "error")
    /\ UNCHANGED <<actorVars, open, outcome, phase, handles, taskVars, pc, call, issued,
                   history>>

\* Control, GetTranscript, ReplaceTranscript and QueryState leave the state
\* modelled here alone; they differ in when they are refused.
Consult(c) ==
    /\ \/ /\ Receive(c, "control")
          /\ Answer(c, IF RequireIdle /\ agentHome THEN "ok" ELSE "error")
       \/ /\ Receive(c, "replace")
          /\ Answer(c, IF pending.kind = "none" /\ RequireIdle /\ agentHome
                       THEN "ok" ELSE "error")
       \/ Receive(c, "query") /\ Answer(c, "ok")
    /\ UNCHANGED <<actorVars, open, outcome, phase, handles, taskVars, pc, call, issued,
                   history>>

-----------------------------------------------------------------------------
(* The actor: shutdown *)

\* begin_shutdown: stop admission, discard the pending interaction, cancel the
\* active turn without relabelling an accepted stop, publish Closing.
BeginShutdown ==
    /\ closing' = TRUE
    /\ IF pending.kind = "none"
         THEN UNCHANGED <<pending, input, agentPending, outcome>>
         ELSE IF agentHome
         THEN /\ input' = [input EXCEPT ![pending.turn] = "shutdown"]
              /\ pending' = NoPending
              /\ agentPending' = "none"
              /\ UNCHANGED outcome
         ELSE /\ outcome' = IF outcome = "unset" THEN "failed" ELSE outcome
              /\ UNCHANGED <<pending, input, agentPending>>
    /\ IF active = NoTurn
         THEN UNCHANGED <<stopKind, cancelled>>
         ELSE /\ stopKind' = IF stopKind = "none" THEN "cancel" ELSE stopKind
              /\ cancelled' = TRUE
    /\ phase' = [name |-> "closing", turn |-> NoTurn]

Shutdown(c) ==
    /\ Receive(c, "shutdown")
    /\ waiters' = waiters \cup {c}
    /\ BeginShutdown
    /\ at' = "drain"
    /\ UNCHANGED <<active, completing, open, handles, task, completion, agentHome,
                   clientVars, started, terminal, stopAck, receipts>>

\* recv returns None once every handle is gone.
HandlesGone ==
    /\ at = "select" /\ ~closing
    /\ ~handles /\ queue = <<>>
    /\ BeginShutdown
    /\ at' = IF active = NoTurn THEN "finish" ELSE "select"
    /\ UNCHANGED <<active, waiters, completing, queue, open, handles, task, completion,
                   agentHome, clientVars, started, terminal, stopAck, receipts>>

Queued == {queue[i] : i \in DOMAIN queue}

\* Mutant of Drain: shutdown does not wait for the active turn.
DrainImpatient ==
    /\ at = "drain"
    /\ open' = FALSE
    /\ reply' = [c \in Clients |-> IF c \in Queued THEN "closed" ELSE reply[c]]
    /\ queue' = <<>>
    /\ at' = "finish"
    /\ UNCHANGED <<active, stopKind, cancelled, closing, pending, waiters, completing,
                   outcome, phase, handles, taskVars, pc, call, issued, history>>

\* The channel is closed and what it holds rejected with Closed, shutdowns too.
Drain ==
    /\ at = "drain"
    /\ open' = FALSE
    /\ reply' = [c \in Clients |-> IF c \in Queued THEN "closed" ELSE reply[c]]
    /\ queue' = <<>>
    /\ at' = IF active = NoTurn THEN "finish" ELSE "select"
    /\ UNCHANGED <<active, stopKind, cancelled, closing, pending, waiters, completing,
                   outcome, phase, handles, taskVars, pc, call, issued, history>>

\* finish_shutdown, once the driver's own shutdown returned: the outcome is
\* retained before Closed is published.
FinishShutdown ==
    /\ at = "finish"
    /\ \E r \in {"complete", "failed"} :
          outcome' = IF outcome = "unset" THEN r ELSE outcome
    /\ phase' = [name |-> "closed", turn |-> NoTurn]
    /\ at' = "receipts"
    /\ UNCHANGED <<active, stopKind, cancelled, closing, pending, waiters, completing,
                   queue, open, handles, taskVars, clientVars, history>>

\* Mutant of SendReceipts: the waiters' senders are kept instead of used.
SendNoReceipts ==
    /\ at = "receipts"
    /\ reply' = [c \in Clients |-> IF c \in Queued THEN "dropped" ELSE reply[c]]
    /\ waiters' = {}
    /\ queue' = <<>>
    /\ open' = FALSE
    /\ at' = "done"
    /\ UNCHANGED <<active, stopKind, cancelled, closing, pending, completing, outcome,
                   phase, handles, taskVars, pc, call, issued, history>>

\* The waiters get the outcome and the actor returns, dropping the channel with
\* the commands that were pushed after the drain.
SendReceipts ==
    /\ at = "receipts"
    /\ reply' = [c \in Clients |->
                    CASE c \in waiters -> IF outcome = "complete" THEN "ok" ELSE "failed"
                      [] c \in Queued -> "dropped"
                      [] OTHER -> reply[c]]
    /\ waiters' = {}
    /\ queue' = <<>>
    /\ open' = FALSE
    /\ at' = "done"
    /\ UNCHANGED <<active, stopKind, cancelled, closing, pending, completing, outcome,
                   phase, handles, taskVars, pc, call, issued, history>>

-----------------------------------------------------------------------------
(* The turn task and its completion *)

\* turn.run() returns, with whatever interaction the agent left pending, and
\* the task sends the completion.
TurnReturns ==
    /\ task # NoTurn
    /\ completion = NoCompletion
    /\ \E r \in {"ok", "err"} : completion' = [turn |-> task, result |-> r]
    /\ \E k \in Kinds \cup {"none"} : agentPending' = k
    /\ task' = NoTurn
    /\ UNCHANGED <<actorVars, handleVars, agentHome, clientVars, history>>

\* Why finish_turn discards what the agent left pending, or "none".
Discard ==
    IF closing THEN "shutdown"
    ELSE IF cancelled THEN DiscardReason(stopKind)
    ELSE "none"

\* finish_turn up to its await: the agent returns to the driver, its pending
\* interaction is discarded or becomes the session's.
CompleteTurn ==
    /\ at = "select" /\ active # NoTurn
    /\ completion # NoCompletion
    /\ completion.turn = active
    /\ agentHome' = TRUE
    /\ input' = IF agentPending = "none" THEN input
                ELSE [input EXCEPT ![active] =
                         IF Discard = "none" THEN "requested" ELSE Discard]
    /\ IF Discard # "none"
         THEN agentPending' = "none" /\ UNCHANGED pending
         ELSE /\ pending' = IF agentPending = "none" THEN NoPending
                            ELSE [turn |-> active, kind |-> agentPending]
              /\ UNCHANGED agentPending
    /\ completing' = completion
    /\ completion' = NoCompletion
    /\ active' = NoTurn
    /\ at' = "after_turn"
    /\ UNCHANGED <<stopKind, cancelled, closing, waiters, handleVars, task, clientVars,
                   started, terminal, stopAck, receipts>>

StopResult == IF stopKind = "interrupt" THEN "interrupted" ELSE "cancelled"

\* Mutant of TerminalOf: a turn that returned successfully despite its stop is
\* reported as completed.
TerminalOfSuccess(r) ==
    CASE r = "ok" -> IF pending.kind = "none" THEN "completed" ELSE "awaiting_input"
      [] OTHER -> IF cancelled THEN StopResult ELSE "failed"

TerminalOf(r) ==
    CASE cancelled -> StopResult
      [] ~cancelled /\ r = "err" -> "failed"
      [] OTHER -> IF pending.kind = "none" THEN "completed" ELSE "awaiting_input"

\* finish_turn after its await: the terminal event, the next phase unless the
\* session is closing, then the result for whoever waits on the turn.
PublishTerminal ==
    /\ at = "after_turn"
    /\ terminal' = [terminal EXCEPT ![completing.turn] = TerminalOf(completing.result)]
    /\ phase' = IF closing THEN phase
                ELSE IF pending.kind = "none" THEN Idle
                ELSE [name |-> "awaiting", turn |-> pending.turn]
    /\ completing' = NoCompletion
    /\ stopKind' = "none" /\ cancelled' = FALSE
    /\ at' = IF closing THEN "finish" ELSE "select"
    /\ UNCHANGED <<active, closing, pending, waiters, queue, open, outcome, handles,
                   taskVars, clientVars, started, input, stopAck, receipts>>

-----------------------------------------------------------------------------
Handle(c) ==
    StartTurn(c) \/ RejectTurn(c) \/ StopPending(c) \/ StopActive(c) \/ RejectStop(c)
        \/ Consult(c) \/ Shutdown(c)

Actor ==
    \/ \E c \in Clients : Handle(c)
    \/ HandlesGone \/ Drain \/ FinishShutdown \/ SendReceipts
    \/ CompleteTurn \/ PublishTerminal

\* The steps a caller's task takes by itself once it made a call.
Caller(c) ==
    \/ Push(c) \/ Return(c) \/ CheckClosing(c) \/ SendFailed(c) \/ ShutdownReply(c)
    \/ WaitClosed(c)

Next ==
    \/ Actor
    \/ TurnReturns
    \/ DropHandles
    \/ \E c \in Clients :
          Request(c) \/ CallShutdown(c) \/ SendShutdown(c) \/ Caller(c)

Spec == Init /\ [][Next]_vars

\* Tokio runs every ready task.  The actor's select is biased: it polls the
\* completion first on every iteration, so commands cannot starve it.  The channel's
\* semaphore serves waiting senders in order, so a blocked shutdown is not
\* overtaken for ever.  That a turn returns is the executor's promise; the
\* cancellation flag asks it to.
FairSpec ==
    /\ Spec
    /\ WF_vars(Actor) /\ WF_vars(CompleteTurn)
    /\ WF_vars(TurnReturns)
    /\ \A c \in Clients : WF_vars(Caller(c)) /\ SF_vars(SendShutdown(c))

-----------------------------------------------------------------------------
(* Properties *)

\* The session executes one turn at a time: the task that runs, the completion
\* in flight and the agent on loan all belong to the active turn, so the check
\* for stale completions in finish_turn never has to reject one.
OneTurn ==
    /\ task # NoTurn => task = active
    /\ completion # NoCompletion => completion.turn = active /\ task = NoTurn
    /\ agentHome <=> active = NoTurn

\* run never reaches its select with both branches disabled, which would panic.
SelectNeverDisabled == at = "select" => ~(closing /\ active = NoTurn)

\* The snapshot that handles read while the actor waits tells what it is doing:
\* no handler leaves a phase behind that its early returns made untrue.
PhaseFaithful ==
    at = "select" =>
        phase = IF closing THEN [name |-> "closing", turn |-> NoTurn]
                ELSE IF active # NoTurn
                THEN [name |-> IF stopKind = "none" THEN "running" ELSE "cancelling",
                      turn |-> active]
                ELSE IF pending.kind # "none"
                THEN [name |-> "awaiting", turn |-> pending.turn]
                ELSE Idle

\* The session and the agent agree on the pending interaction whenever the
\* driver holds the agent: an answer is never routed to an agent that no longer
\* waits, and no agent waits for an answer the session would refuse.
PendingMatchesAgent ==
    at = "select" /\ active = NoTurn => pending.kind = agentPending

\* What handles and the agent know of the session while the actor waits is what
\* the actor knows: the published phase and the interaction that is pending.
SnapshotFaithful == PhaseFaithful /\ PendingMatchesAgent

\* An acknowledged stop decides how its turn ends, whatever the execution
\* returns later, and neither another stop nor shutdown relabels it.
StopWins ==
    \A t \in Turns :
        stopAck[t] # "none" /\ terminal[t] # "none" =>
            terminal[t] = DiscardReason(stopAck[t])

\* Every shutdown call returns the one retained outcome, wherever it joined:
\* before, during or after the drain, or through a closed or dropped channel.
ShutdownAgreement == receipts \subseteq {outcome} \ {"unset"}

\* Closed means quiescent: nothing runs, every started turn has its terminal
\* event and every requested interaction was resolved.
ClosedIsQuiescent ==
    phase.name = "closed" =>
        /\ active = NoTurn /\ task = NoTurn /\ completion = NoCompletion
        /\ \A t \in started : terminal[t] # "none"
        /\ \A t \in Turns : input[t] # "requested"

\* A session that is being shut down never meets its select with nothing left
\* to wait for, publishes Closed only when all is over, and gives every caller
\* the same outcome.
ShutdownSound == SelectNeverDisabled /\ ClosedIsQuiescent /\ ShutdownAgreement

\* A turn gets one terminal event, after it was started; an interaction is
\* resolved once, and never requested again.
Once ==
    [][\A t \in Turns :
          /\ terminal'[t] # terminal[t] => terminal[t] = "none" /\ t \in started
          /\ input'[t] # input[t] =>
                IF input[t] = "none" THEN t \in started ELSE input[t] = "requested"]_vars

\* Every started turn ends with a terminal event.
TurnsEnd == \A t \in Turns : t \in started ~> terminal[t] # "none"

\* A command that reached the actor before it returned is answered.
CommandsAnswered ==
    \A c \in Clients : (pc[c] = "await" /\ at # "done") ~> pc[c] # "await"

\* Whoever waits for the session's own work is served: a turn ends, a command
\* is answered.
SessionProgress == TurnsEnd /\ CommandsAnswered

\* shutdown is never stuck on a full channel, between its looks at the phase,
\* or waiting for a Closed snapshot that was already published.
ShutdownsReturn ==
    \A c \in Clients :
        pc[c] \in {"check_closing", "send_shutdown", "send_failed", "wait_closed"}
            ~> pc[c] \in {"idle", "push"}

\* The session implements the contract for turns: its modes, the turns'
\* statuses and the accepted stops are what the actor published.
Contract == INSTANCE TurnContract WITH
    mode <- IF phase.name = "closed" THEN "closed" ELSE IF closing THEN "closing" ELSE "open",
    status <- [t \in Turns |-> IF terminal[t] # "none" THEN terminal[t]
                               ELSE IF t \in started THEN "running" ELSE "new"],
    stop <- stopAck
ImplementsContract == Contract!Spec
=============================================================================
