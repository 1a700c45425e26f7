------------------------- MODULE SessionActor_proofs -------------------------
(***************************************************************************)
(* What one runtime session promises, for any number of callers, any       *)
(* capacity of its command channel, any number of turns and any kinds of   *)
(* interaction.  SessionInv is inductive: its parts say who is in the      *)
(* channel, which turns are still to come, where the actor is, what the    *)
(* current turn is, which stop it was given, which interaction is open and *)
(* what was answered.                                                      *)
(***************************************************************************)
EXTENDS SessionActor, FiniteSetTheorems, SequenceTheorems, TLAPS

\* A command in the channel belongs to a caller that waits for its reply, once;
\* so does every shutdown whose receipt is still to be sent.
Channel ==
    /\ \A i \in DOMAIN queue : /\ pc[queue[i]] = "await" /\ reply[queue[i]] = "none"
                               /\ queue[i] \notin waiters
    /\ \A i, j \in DOMAIN queue : queue[i] = queue[j] => i = j
    /\ \A c \in waiters : pc[c] = "await" /\ call[c].op = "shutdown" /\ reply[c] = "none"
    /\ \A c \in Clients : reply[c] # "none" => pc[c] \in {"await", "wait_closed"}

\* The callers that took a permit and have yet to use it have room.
Pushing == {c \in Clients : pc[c] = "push"}
RoomKept == IsFiniteSet(Pushing) /\ Len(queue) + Cardinality(Pushing) <= QueueCapacity

\* A turn identity is asked for once, and not started before it is.
Fresh ==
    /\ \A t \in started : t <= issued
    /\ \A c \in Clients : call[c].op = "start" =>
          call[c].turn <= issued /\ (reply[c] = "none" => call[c].turn \notin started)
    /\ \A c, d \in Clients :
          call[c].op = "start" /\ call[d].op = "start" /\ call[c].turn = call[d].turn => c = d

\* Where the actor is, and what it has published by then.
Stopped == at \in {"receipts", "done"}
Control ==
    /\ at = "after_turn" <=> completing # NoCompletion
    /\ at \in {"after_turn", "finish", "receipts", "done"} => active = NoTurn
    /\ at \in {"drain", "finish", "receipts", "done"} => closing
    /\ at = "select" => ~(closing /\ active = NoTurn)
    /\ ~open => closing
    /\ \A c \in Clients : pc[c] = "send_failed" => closing
    /\ outcome = "unset" <=> ~Stopped
    /\ closing => phase = [name |-> IF Stopped THEN "closed" ELSE "closing", turn |-> NoTurn]
    /\ ~closing => phase.name \notin {"closing", "closed"}

\* The turn that executes, or whose end is being published.
Current(t) == t # NoTurn /\ t \in {active, completing.turn}
TurnInv ==
    /\ OneTurn
    /\ completion # NoCompletion => completion.turn # NoTurn
    /\ completing # NoCompletion => completing.turn # NoTurn
    /\ active # NoTurn => active \in started /\ pending = NoPending /\ input[active] = "none"
    /\ completing.turn # NoTurn => completing.turn \in started
    /\ \A t \in started : terminal[t] = "none" <=> Current(t)
    /\ \A t \in Turns \ started : terminal[t] = "none" /\ input[t] = "none" /\ stopAck[t] = "none"

\* The stop the current turn was given: the acknowledged one, or the cancel of
\* a shutdown.
StopInv ==
    /\ cancelled <=> stopKind # "none"
    /\ stopKind # "none" => active # NoTurn \/ at = "after_turn"
    /\ closing /\ (active # NoTurn \/ at = "after_turn") => cancelled
    /\ \A t \in Turns : Current(t) =>
          \/ stopAck[t] = stopKind
          \/ stopAck[t] = "none" /\ closing /\ stopKind = "cancel"
    /\ StopWins

\* The open interaction is the session's, the agent's and the one requested.
InputInv ==
    /\ pending.kind = "none" => pending = NoPending
    /\ pending.kind # "none" => pending.turn \in started /\ input[pending.turn] = "requested"
    /\ \A t \in Turns : input[t] = "requested" => pending.turn = t
    /\ active = NoTurn => pending.kind = agentPending
    /\ closing => pending = NoPending

\* What callers were told agrees with the outcome that is retained.
AnswerInv ==
    /\ ShutdownAgreement
    /\ \A c \in Clients : call[c].op = "shutdown" =>
          /\ reply[c] = "ok" => outcome = "complete"
          /\ reply[c] = "failed" => outcome = "failed"
    /\ \A c \in Clients : reply[c] \in {"closed", "dropped"} => closing

SessionInv ==
    /\ TypeOK /\ Channel /\ RoomKept /\ Fresh /\ Control /\ PhaseFaithful
    /\ TurnInv /\ StopInv /\ InputInv /\ AnswerInv

-----------------------------------------------------------------------------
(* The calls and the channel.                                              *)

\* What the operation of a call says of its other fields.
LEMMA CallShape ==
    ASSUME NEW cmd \in Calls \cup {NoCall}
    PROVE  /\ cmd.op = "start" => cmd.turn \in Turns /\ cmd.arg \in {"legacy", "prompt"} \cup Kinds
           /\ cmd.op = "stop" => cmd.turn \in Turns \cup {NoTurn} /\ cmd.arg \in StopKinds
<1>1. CASE cmd \in [op : {"start"}, turn : Turns, arg : {"legacy", "prompt"}, waiting : {NoTurn}]
  BY <1>1
<1>2. CASE cmd \in [op : {"start"}, turn : Turns, arg : Kinds, waiting : Turns]
  BY <1>2
<1>3. CASE cmd \in [op : {"stop"}, turn : Turns \cup {NoTurn}, arg : StopKinds, waiting : {NoTurn}]
  BY <1>3
<1>4. CASE cmd \in [op : {"control", "replace", "query", "shutdown"}, turn : {NoTurn},
                    arg : {"none"}, waiting : {NoTurn}]
  BY <1>4
<1>5. CASE cmd = NoCall
  BY <1>5 DEF NoCall
<1> QED
  BY <1>1, <1>2, <1>3, <1>4, <1>5 DEF Calls

\* What is asked for in a start or a stop is a turn.
LEMMA CallTurns ==
    ASSUME TypeOK, NEW c \in Clients
    PROVE  /\ call[c].op = "start" => call[c].turn \in Turns
           /\ call[c].op = "stop" => call[c].turn \in Turns \cup {NoTurn} /\ call[c].arg \in StopKinds
BY CallShape DEF TypeOK

\* The command the actor takes is its caller's only one, and leaves the channel.
LEMMA Received ==
    ASSUME SessionInv, NEW c \in Clients, NEW op, Receive(c, op)
    PROVE  /\ pc[c] = "await" /\ reply[c] = "none" /\ c \notin waiters
           /\ queue' \in Seq(Clients) /\ Len(queue') = Len(queue) - 1
           /\ \A i \in DOMAIN queue' : /\ i + 1 \in DOMAIN queue /\ queue'[i] = queue[i + 1]
                                       /\ queue'[i] # c
<1>1. queue \in Seq(Clients) /\ queue # << >> /\ queue' = Tail(queue) /\ c = Head(queue)
  BY DEF SessionInv, TypeOK, Receive
<1>2. Len(queue) \in Nat /\ Len(queue) > 0 /\ DOMAIN queue = 1..Len(queue) /\ c = queue[1]
  BY <1>1
<1>3. /\ queue' \in Seq(Clients) /\ Len(queue') = Len(queue) - 1
      /\ \A i \in 1..Len(queue') : queue'[i] = queue[i + 1]
  BY <1>1, HeadTailProperties
<1>4. DOMAIN queue' = 1..Len(queue')
  BY <1>3
<1>5. pc[c] = "await" /\ reply[c] = "none" /\ c \notin waiters
  BY <1>2 DEF SessionInv, Channel
<1>6. \A i \in DOMAIN queue' : i + 1 \in DOMAIN queue /\ queue'[i] = queue[i + 1]
  BY <1>2, <1>3, <1>4
<1>7. \A i \in DOMAIN queue' : queue'[i] # c
  <2> TAKE i \in DOMAIN queue'
  <2>1. i + 1 \in DOMAIN queue /\ queue'[i] = queue[i + 1] /\ i + 1 # 1
    BY <1>3, <1>4, <1>6
  <2>2. 1 \in DOMAIN queue
    BY <1>2
  <2> QED
    BY <1>2, <2>1, <2>2 DEF SessionInv, Channel
<1> QED
  BY <1>3, <1>5, <1>6, <1>7

\* A handled command leaves the channel in order, whatever its answer is.
LEMMA Answered ==
    ASSUME SessionInv, NEW c \in Clients, NEW op, Receive(c, op),
           NEW r \in {"ok", "error"}, Answer(c, r), UNCHANGED <<pc, waiters, call>>
    PROVE  Channel' /\ RoomKept'
<1>1. Channel'
  BY Received DEF SessionInv, Channel, Answer, TypeOK
<1>2. Pushing' = Pushing
  BY DEF Pushing
<1>3. Len(queue') < Len(queue) /\ Len(queue) \in Nat /\ Len(queue') \in Nat
  BY Received, LenProperties DEF SessionInv, TypeOK
<1>4. IsFiniteSet(Pushing) /\ Cardinality(Pushing) \in Nat
  BY FS_CardinalityType DEF SessionInv, RoomKept
<1> QED
  BY <1>1, <1>2, <1>3, <1>4, QueueAssumption DEF SessionInv, RoomKept

\* The steps of callers leave the turns, the actor and its interactions alone.
LEMMA CallerFrame ==
    ASSUME SessionInv,
           UNCHANGED <<actorVars, open, outcome, phase, taskVars, started, terminal, input, stopAck>>
    PROVE  PhaseFaithful' /\ TurnInv' /\ StopInv' /\ InputInv'
BY DEF SessionInv, actorVars, taskVars, PhaseFaithful, TurnInv, OneTurn, Current, StopInv, StopWins,
       InputInv, DiscardReason

-----------------------------------------------------------------------------
(* The steps of callers.                                                   *)

\* A caller that moves to another place without touching the channel.
LEMMA CallerMoves ==
    ASSUME SessionInv, NEW c \in Clients, NEW l \in ClientLocations \ {"push", "await"},
           pc[c] # "push", pc[c] # "await" \/ reply[c] # "none",
           pc' = [pc EXCEPT ![c] = l], UNCHANGED <<queue, waiters>>,
           NEW cmd,
           \/ UNCHANGED <<call, reply>> /\ (reply[c] # "none" => l = "wait_closed")
           \/ call' = [call EXCEPT ![c] = cmd] /\ reply' = [reply EXCEPT ![c] = "none"]
    PROVE  Channel' /\ RoomKept'
<1>1. \A i \in DOMAIN queue : queue[i] \in Clients
  BY DEF SessionInv, TypeOK
<1>2. c \notin waiters /\ \A i \in DOMAIN queue : queue[i] # c
  BY DEF SessionInv, Channel
<1>3. Channel'
  BY <1>1, <1>2 DEF SessionInv, Channel, TypeOK
<1>4. Pushing' = Pushing
  BY DEF Pushing, SessionInv, TypeOK
<1> QED
  BY <1>3, <1>4 DEF SessionInv, RoomKept

\* A caller takes a permit: one more pushes, and the channel has room for it.
LEMMA PermitTaken ==
    ASSUME SessionInv, NEW c \in Clients, pc[c] # "push", Permits > 0,
           pc' = [pc EXCEPT ![c] = "push"], UNCHANGED queue
    PROVE  RoomKept'
<1>1. Pushing' = Pushing \cup {c} /\ c \notin Pushing
  BY DEF Pushing, SessionInv, TypeOK
<1>2. IsFiniteSet(Pushing') /\ Cardinality(Pushing') = Cardinality(Pushing) + 1
  BY <1>1, FS_AddElement DEF SessionInv, RoomKept
<1>3. Len(queue) \in Nat /\ Cardinality(Pushing) \in Nat
  BY FS_CardinalityType DEF SessionInv, RoomKept, TypeOK
<1>4. QueueCapacity - Len(queue) - Cardinality(Pushing) > 0
  BY DEF Permits, Pushing
<1> QED
  BY <1>2, <1>3, <1>4, QueueAssumption DEF RoomKept

\* try_send took a permit for a call of a new identity, or of none.
LEMMA RequestStep ==
    ASSUME SessionInv, NEW c \in Clients, Request(c)
    PROVE  SessionInv'
<1>p. PICK cmd \in Calls :
        /\ CASE cmd.op = "start" -> cmd.turn = issued + 1 /\ cmd.waiting <= issued
             [] cmd.op = "stop" -> cmd.turn <= issued
             [] cmd.op = "shutdown" -> FALSE
             [] OTHER -> TRUE
        /\ call' = [call EXCEPT ![c] = cmd]
        /\ issued' = IF cmd.op = "start" THEN issued + 1 ELSE issued
  BY DEF Request
<1>0. (cmd.op = "start" => cmd.turn = issued + 1) /\ cmd.op # "shutdown"
  BY <1>p, Zenon
<1>q. call' = [call EXCEPT ![c] = cmd] /\ issued' = IF cmd.op = "start" THEN issued + 1 ELSE issued
  BY <1>p, Zenon
<1>1. cmd.op # "shutdown" /\ (cmd.op = "start" => cmd.turn \in Turns)
  BY <1>0, CallShape
<1>2. pc[c] = "idle" /\ pc' = [pc EXCEPT ![c] = "push"]
  BY DEF Request
<1>3. UNCHANGED <<actorVars, handleVars, taskVars, reply, history>>
  BY DEF Request
<1>4. TypeOK'
  <2>1. issued' \in 0..MaxTurns
    BY <1>0, <1>1, <1>q, TurnAssumption DEF SessionInv, TypeOK, Turns
  <2>2. call' \in [Clients -> Calls \cup {NoCall}] /\ pc' \in [Clients -> ClientLocations]
    BY <1>2, <1>q DEF SessionInv, TypeOK, ClientLocations
  <2> QED
    BY <2>1, <2>2, <1>3 DEF SessionInv, TypeOK, actorVars, handleVars, taskVars, history
<1>5. Channel'
  BY <1>2, <1>3, <1>q DEF SessionInv, Channel, TypeOK, actorVars, handleVars
<1>6. RoomKept'
  BY <1>2, <1>3, PermitTaken DEF Request, handleVars
<1>7. Fresh'
  <2>1. /\ issued \in Nat /\ \A t \in started : t \in Nat /\ t <= issued
        /\ \A d \in Clients : call[d].op = "start" => call[d].turn \in Nat /\ call[d].turn <= issued
    BY CallTurns, TurnAssumption DEF SessionInv, Fresh, TypeOK, Turns
  <2> QED
    BY <2>1, <1>0, <1>2, <1>3, <1>q DEF SessionInv, Fresh, TypeOK, history
<1>8. Control'
  BY <1>2, <1>3 DEF SessionInv, Control, TypeOK, actorVars, handleVars, Stopped
<1>9. PhaseFaithful' /\ TurnInv' /\ StopInv' /\ InputInv'
  BY <1>3, CallerFrame DEF handleVars, history
<1>10. AnswerInv'
  BY <1>1, <1>3, <1>q DEF SessionInv, AnswerInv, ShutdownAgreement, TypeOK, actorVars, handleVars, history
<1> QED
  BY <1>4, <1>5, <1>6, <1>7, <1>8, <1>9, <1>10 DEF SessionInv

\* The permit becomes a place in the channel.
LEMMA PushStep ==
    ASSUME SessionInv, NEW c \in Clients, Push(c)
    PROVE  SessionInv'
<1>1. /\ pc[c] = "push" /\ queue' = Append(queue, c) /\ pc' = [pc EXCEPT ![c] = "await"]
      /\ UNCHANGED <<actorVars, open, outcome, phase, handles, taskVars, call, reply, issued,
                     history>>
  BY DEF Push
<1>2. /\ queue' \in Seq(Clients) /\ Len(queue') = Len(queue) + 1 /\ Len(queue) \in Nat
      /\ DOMAIN queue' = 1..(Len(queue) + 1) /\ DOMAIN queue = 1..Len(queue)
      /\ \A i \in 1..Len(queue) : queue'[i] = queue[i]
      /\ queue'[Len(queue) + 1] = c
  BY <1>1 DEF SessionInv, TypeOK
<1>3. RoomKept'
  <2>1. Pushing' = Pushing \ {c} /\ c \in Pushing
    BY <1>1 DEF Pushing, SessionInv, TypeOK
  <2>2. /\ IsFiniteSet(Pushing') /\ Cardinality(Pushing') = Cardinality(Pushing) - 1
        /\ Cardinality(Pushing) \in Nat
    BY <2>1, FS_RemoveElement, FS_CardinalityType DEF SessionInv, RoomKept
  <2> QED
    BY <1>2, <2>2, QueueAssumption DEF SessionInv, RoomKept
<1>4. TypeOK'
  <2>1. Len(queue') <= QueueCapacity
    BY <1>2, <1>3, FS_CardinalityType, QueueAssumption DEF RoomKept
  <2>2. pc' \in [Clients -> ClientLocations]
    BY <1>1 DEF SessionInv, TypeOK, ClientLocations
  <2> QED
    BY <1>1, <1>2, <2>1, <2>2 DEF SessionInv, TypeOK, actorVars, taskVars, history
<1>5. Channel'
  <2>1. c \notin waiters /\ reply[c] = "none" /\ \A i \in DOMAIN queue : queue[i] # c
    BY <1>1 DEF SessionInv, Channel
  <2> QED
    BY <1>1, <1>2, <2>1 DEF SessionInv, Channel, TypeOK, actorVars
<1>6. Fresh' /\ AnswerInv'
  BY <1>1 DEF SessionInv, Fresh, AnswerInv, ShutdownAgreement, actorVars, history
<1>7. Control'
  BY <1>1 DEF SessionInv, Control, TypeOK, actorVars, Stopped
<1>8. PhaseFaithful' /\ TurnInv' /\ StopInv' /\ InputInv'
  BY <1>1, CallerFrame DEF history
<1> QED
  BY <1>3, <1>4, <1>5, <1>6, <1>7, <1>8 DEF SessionInv

\* A caller gets its result and may call again; a receipt is the outcome.
LEMMA CallReturns ==
    ASSUME SessionInv, NEW c \in Clients,
           pc[c] # "push", pc[c] # "await" \/ reply[c] # "none",
           pc' = [pc EXCEPT ![c] = "idle"],
           call' = [call EXCEPT ![c] = NoCall],
           reply' = [reply EXCEPT ![c] = "none"],
           receipts' = receipts \/ (outcome # "unset" /\ receipts' = receipts \cup {outcome}),
           UNCHANGED <<actorVars, handleVars, taskVars, issued, started, terminal, input, stopAck>>
    PROVE  SessionInv'
<1>1. TypeOK'
  <2>1. pc' \in [Clients -> ClientLocations] /\ call' \in [Clients -> Calls \cup {NoCall}]
    BY DEF SessionInv, TypeOK, ClientLocations
  <2>2. outcome # "unset" => outcome \in Receipts
    BY DEF SessionInv, TypeOK, Receipts
  <2>3. receipts \subseteq Receipts
    BY DEF SessionInv, TypeOK
  <2>4. receipts' \subseteq Receipts
    BY <2>2, <2>3
  <2> QED
    BY <2>1, <2>4 DEF SessionInv, TypeOK, actorVars, handleVars, taskVars
<1>2. Channel' /\ RoomKept'
  BY CallerMoves DEF actorVars, handleVars, ClientLocations
<1>3. Fresh'
  BY DEF SessionInv, Fresh, TypeOK, NoCall
<1>4. Control'
  BY DEF SessionInv, Control, TypeOK, actorVars, handleVars, Stopped
<1>5. PhaseFaithful' /\ TurnInv' /\ StopInv' /\ InputInv'
  BY CallerFrame DEF handleVars
<1>6. AnswerInv'
  BY ZenonT(40) DEF SessionInv, AnswerInv, ShutdownAgreement, TypeOK, actorVars, handleVars, NoCall
<1> QED
  BY <1>1, <1>2, <1>3, <1>4, <1>5, <1>6 DEF SessionInv

\* A caller of shutdown goes on to its next look at the session.
LEMMA CallMoves ==
    ASSUME SessionInv, NEW c \in Clients, NEW l \in ClientLocations \ {"push", "await"},
           pc[c] # "push", pc[c] # "await" \/ reply[c] # "none",
           GoTo(c, l), reply[c] # "none" => l = "wait_closed", l = "send_failed" => closing,
           UNCHANGED <<actorVars, handleVars, taskVars, issued, started, terminal, input, stopAck>>
    PROVE  SessionInv'
<1>1. TypeOK'
  BY DEF GoTo, SessionInv, TypeOK, actorVars, handleVars, taskVars
<1>2. Channel' /\ RoomKept'
  BY CallerMoves DEF GoTo, actorVars, handleVars
<1>3. Fresh' /\ AnswerInv'
  BY DEF GoTo, SessionInv, Fresh, AnswerInv, ShutdownAgreement, actorVars, handleVars
<1>4. Control'
  BY DEF GoTo, SessionInv, Control, TypeOK, actorVars, handleVars, Stopped
<1>5. PhaseFaithful' /\ TurnInv' /\ StopInv' /\ InputInv'
  BY CallerFrame DEF handleVars
<1> QED
  BY <1>1, <1>2, <1>3, <1>4, <1>5 DEF SessionInv

\* A reply is read by the caller it was made for.
LEMMA ReturnStep ==
    ASSUME SessionInv, NEW c \in Clients, Return(c)
    PROVE  SessionInv'
BY CallReturns DEF Return, history

\* Its first look at the snapshot returns the outcome or begins a shutdown.
LEMMA CallShutdownStep ==
    ASSUME SessionInv, NEW c \in Clients, CallShutdown(c)
    PROVE  SessionInv'
<1>0. pc[c] = "idle" /\ reply[c] = "none"
  BY DEF CallShutdown, SessionInv, Channel
<1>1. CASE phase.name = "closed"
  <2>1. outcome # "unset"
    BY <1>1 DEF SessionInv, Control
  <2> QED
    BY <1>0, <1>1, <2>1, CallReturns DEF CallShutdown, ShutdownReturns, ShutdownResult
<1>2. CASE phase.name # "closed"
  <2> DEFINE cmd == [NoCall EXCEPT !.op = "shutdown"]
  <2>1. cmd = [op |-> "shutdown", turn |-> NoTurn, arg |-> "none", waiting |-> NoTurn]
    BY DEF NoCall
  <2>2. cmd \in Calls /\ cmd.op = "shutdown"
    BY <2>1 DEF Calls
  <2>3. /\ pc' = [pc EXCEPT ![c] = "check_closing"] /\ call' = [call EXCEPT ![c] = cmd]
        /\ UNCHANGED <<reply, receipts>>
        /\ UNCHANGED <<actorVars, handleVars, taskVars, issued, started, terminal, input, stopAck>>
    BY <1>2, Zenon DEF CallShutdown
  <2> HIDE DEF cmd
  <2>4. TypeOK'
    BY <2>2, <2>3 DEF SessionInv, TypeOK, actorVars, handleVars, taskVars, ClientLocations
  <2>5. Channel' /\ RoomKept'
    <3>1. reply' = [reply EXCEPT ![c] = "none"]
      BY <1>0, <2>3 DEF SessionInv, TypeOK
    <3> QED
      BY <1>0, <2>3, <3>1, CallerMoves DEF actorVars, handleVars, ClientLocations
  <2>6. Fresh'
    BY <2>2, <2>3 DEF SessionInv, Fresh, TypeOK
  <2>7. Control'
    BY <2>3 DEF SessionInv, Control, TypeOK, actorVars, handleVars, Stopped
  <2>8. PhaseFaithful' /\ TurnInv' /\ StopInv' /\ InputInv'
    BY <2>3, CallerFrame DEF handleVars
  <2>9. AnswerInv'
    BY <1>0, <2>3 DEF SessionInv, AnswerInv, ShutdownAgreement, TypeOK, actorVars, handleVars
  <2> QED
    BY <2>4, <2>5, <2>6, <2>7, <2>8, <2>9 DEF SessionInv
<1> QED
  BY <1>1, <1>2

\* The other looks of a shutdown call: whatever it finds, the outcome is set
\* when it returns.
LEMMA ShutdownCallStep ==
    ASSUME SessionInv, NEW c \in Clients,
           CheckClosing(c) \/ SendFailed(c) \/ ShutdownReply(c) \/ WaitClosed(c)
    PROVE  SessionInv'
<1>1. CASE CheckClosing(c)
  BY <1>1, CallMoves DEF CheckClosing, ClientLocations, SessionInv, Channel
<1>2. CASE SendFailed(c)
  <2>1. pc[c] = "send_failed" /\ reply[c] = "none" /\ ClosingOrClosed
    BY <1>2 DEF SendFailed, SessionInv, Channel, Control, ClosingOrClosed
  <2> QED
    BY <1>2, <2>1, CallMoves DEF SendFailed, ClientLocations
<1>3. CASE ShutdownReply(c)
  <2>0. pc[c] = "await" /\ call[c].op = "shutdown" /\ reply[c] # "none"
    BY <1>3 DEF ShutdownReply
  <2>1. CASE reply[c] = "ok" /\ ShutdownReturns(c, "complete")
    <3>1. outcome = "complete"
      BY <2>0, <2>1 DEF SessionInv, AnswerInv
    <3> QED
      BY <1>3, <2>0, <2>1, <3>1, CallReturns DEF ShutdownReply, ShutdownReturns
  <2>2. CASE reply[c] = "failed" /\ ShutdownReturns(c, "failed")
    <3>1. outcome = "failed"
      BY <2>0, <2>2 DEF SessionInv, AnswerInv
    <3> QED
      BY <1>3, <2>0, <2>2, <3>1, CallReturns DEF ShutdownReply, ShutdownReturns
  <2>3. CASE reply[c] \in {"closed", "dropped"} /\ GoTo(c, "wait_closed")
    BY <1>3, <2>0, <2>3, CallMoves DEF ShutdownReply, ClientLocations
  <2>4. reply[c] \in {"closed", "dropped"} => ClosingOrClosed
    BY DEF SessionInv, AnswerInv, Control, ClosingOrClosed
  <2> QED
    BY <1>3, <2>1, <2>2, <2>3, <2>4 DEF ShutdownReply
<1>4. CASE WaitClosed(c)
  <2>1. outcome # "unset" /\ pc[c] = "wait_closed"
    BY <1>4 DEF WaitClosed, SessionInv, Control
  <2> QED
    BY <1>4, <2>1, CallReturns DEF WaitClosed, ShutdownReturns, ShutdownResult
<1> QED
  BY <1>1, <1>2, <1>3, <1>4

\* Shutdown takes a permit, or finds the channel closed: by a closing session.
LEMMA SendShutdownStep ==
    ASSUME SessionInv, NEW c \in Clients, SendShutdown(c)
    PROVE  SessionInv'
<1>0. pc[c] = "send_shutdown" /\ reply[c] = "none"
  BY DEF SendShutdown, SessionInv, Channel
<1>f. UNCHANGED <<actorVars, handleVars, taskVars, issued, started, terminal, input, stopAck>>
  BY DEF SendShutdown
<1>1. CASE ~open /\ GoTo(c, "send_failed")
  <2>1. closing
    BY <1>1 DEF SessionInv, Control
  <2> QED
    BY <1>0, <1>f, <1>1, <2>1, CallMoves DEF ClientLocations
<1>2. CASE open /\ Permits > 0 /\ GoTo(c, "push")
  <2>0. pc' = [pc EXCEPT ![c] = "push"] /\ UNCHANGED <<call, reply, receipts>>
    BY <1>2 DEF GoTo
  <2>1. TypeOK'
    BY <2>0, <1>f DEF SessionInv, TypeOK, actorVars, handleVars, taskVars, ClientLocations
  <2>2. Channel'
    <3>1. \A i \in DOMAIN queue : queue[i] \in Clients
      BY DEF SessionInv, TypeOK
    <3>2. c \notin waiters /\ \A i \in DOMAIN queue : queue[i] # c
      BY <1>0 DEF SessionInv, Channel
    <3> QED
      BY <1>0, <1>f, <2>0, <3>1, <3>2 DEF SessionInv, Channel, TypeOK, actorVars, handleVars
  <2>3. RoomKept'
    BY <1>0, <1>2, <1>f, <2>0, PermitTaken DEF handleVars
  <2>4. Fresh' /\ AnswerInv'
    BY <1>f, <2>0 DEF SessionInv, Fresh, AnswerInv, ShutdownAgreement, actorVars, handleVars
  <2>5. Control'
    BY <1>f, <2>0 DEF SessionInv, Control, TypeOK, actorVars, handleVars, Stopped
  <2>6. PhaseFaithful' /\ TurnInv' /\ StopInv' /\ InputInv'
    BY <1>f, CallerFrame DEF handleVars
  <2> QED
    BY <2>1, <2>2, <2>3, <2>4, <2>5, <2>6 DEF SessionInv
<1> QED
  BY <1>1, <1>2 DEF SendShutdown

\* The last handle goes.
LEMMA DropHandlesStep ==
    ASSUME SessionInv, DropHandles
    PROVE  SessionInv'
<1>0. UNCHANGED <<waiters, queue, closing, outcome, pc, call, reply, issued, started, receipts>>
  BY DEF DropHandles, actorVars, clientVars, history
<1>1. TypeOK'
  <2>1. handles' \in BOOLEAN
    BY Zenon DEF DropHandles
  <2> QED
    BY <2>1 DEF DropHandles, SessionInv, TypeOK, actorVars, taskVars, clientVars, history
<1>2. Channel' /\ Fresh' /\ AnswerInv'
  BY <1>0 DEF SessionInv, Channel, Fresh, AnswerInv, ShutdownAgreement
<1>3. RoomKept'
  BY DEF DropHandles, SessionInv, RoomKept, Pushing, clientVars
<1>4. Control'
  BY DEF DropHandles, SessionInv, Control, Stopped, actorVars, clientVars
<1>5. PhaseFaithful' /\ TurnInv' /\ StopInv' /\ InputInv'
  BY CallerFrame DEF DropHandles, history
<1> QED
  BY <1>1, <1>2, <1>3, <1>4, <1>5 DEF SessionInv
-----------------------------------------------------------------------------
(* The steps of the actor that handle a command.                           *)

\* A command that changes nothing but is answered.
LEMMA OnlyAnswered ==
    ASSUME SessionInv, NEW c \in Clients, NEW op, op # "shutdown", Receive(c, op),
           NEW r \in {"ok", "error"}, Answer(c, r),
           UNCHANGED <<actorVars, open, outcome, phase, handles, taskVars, pc, call, issued, history>>
    PROVE  SessionInv'
<1>1. TypeOK'
  <2>1. queue' \in Seq(Clients) /\ Len(queue') <= QueueCapacity
    <3>1. Len(queue) \in Nat /\ Len(queue) <= QueueCapacity
      BY DEF SessionInv, TypeOK
    <3> QED
      BY <3>1, Received, QueueAssumption
  <2>2. reply' \in [Clients -> {"none", "ok", "error", "closed", "failed", "dropped"}]
    BY DEF SessionInv, TypeOK, Answer
  <2> QED
    BY <2>1, <2>2 DEF SessionInv, TypeOK, actorVars, taskVars, history
<1>2. Channel' /\ RoomKept'
  BY Answered DEF actorVars
<1>3. Fresh'
  BY DEF SessionInv, Fresh, Answer, TypeOK, history
<1>4. Control'
  BY DEF SessionInv, Control, Stopped, actorVars
<1>5. PhaseFaithful' /\ TurnInv' /\ StopInv' /\ InputInv'
  BY CallerFrame DEF history
<1>6. AnswerInv'
  BY DEF SessionInv, AnswerInv, ShutdownAgreement, Answer, TypeOK, Receive, actorVars, history
<1> QED
  BY <1>1, <1>2, <1>3, <1>4, <1>5, <1>6 DEF SessionInv

\* Refused starts and stops, and the commands that look at the session.
LEMMA RefusedStep ==
    ASSUME SessionInv, NEW c \in Clients, RejectTurn(c) \/ RejectStop(c) \/ Consult(c)
    PROVE  SessionInv'
<1>1. CASE RejectTurn(c)
  BY <1>1, OnlyAnswered DEF RejectTurn
<1>2. CASE RejectStop(c)
  BY <1>2, OnlyAnswered DEF RejectStop
<1>3. CASE Consult(c)
  BY <1>3, OnlyAnswered DEF Consult
<1> QED
  BY <1>1, <1>2, <1>3

\* What the handlers of a command keep of the types, whatever they change.
LEMMA ReceivedTypes ==
    ASSUME SessionInv, NEW c \in Clients, NEW op, Receive(c, op),
           NEW r \in {"ok", "error"}, Answer(c, r)
    PROVE  /\ queue' \in Seq(Clients) /\ Len(queue') <= QueueCapacity
           /\ reply' \in [Clients -> {"none", "ok", "error", "closed", "failed", "dropped"}]
<1>1. Len(queue) \in Nat /\ Len(queue) <= QueueCapacity
  BY DEF SessionInv, TypeOK
<1>2. queue' \in Seq(Clients) /\ Len(queue') <= QueueCapacity
  BY <1>1, Received, QueueAssumption
<1>3. reply' \in [Clients -> {"none", "ok", "error", "closed", "failed", "dropped"}]
  BY DEF SessionInv, TypeOK, Answer
<1> QED
  BY <1>2, <1>3

\* Between turns the session has no completion to consume, no turn without a
\* terminal event, and no requested interaction but the pending one.
LEMMA BetweenTurns ==
    ASSUME SessionInv, at = "select", active = NoTurn
    PROVE  /\ task = NoTurn /\ completion = NoCompletion /\ completing = NoCompletion
           /\ stopKind = "none" /\ ~cancelled /\ ~closing /\ agentHome
           /\ \A t \in started : terminal[t] # "none"
<1>1. task = NoTurn /\ completion = NoCompletion /\ completing = NoCompletion /\ agentHome
  BY DEF SessionInv, TurnInv, OneTurn, Control
<1>2. completing.turn = NoTurn
  BY <1>1 DEF NoCompletion
<1>3. \A t \in started : ~Current(t)
  BY <1>2 DEF Current
<1> QED
  BY <1>1, <1>3 DEF SessionInv, TurnInv, StopInv, Control

\* A turn is admitted.
LEMMA StartTurnStep ==
    ASSUME SessionInv, NEW c \in Clients, StartTurn(c)
    PROVE  SessionInv'
<1> DEFINE t == call[c].turn
<1>1. /\ at = "select" /\ ~closing /\ active = NoTurn /\ call[c].op = "start"
      /\ Receive(c, "start") /\ Answer(c, "ok")
  BY DEF StartTurn, Receive, Admissible, RequireIdle
<1>2. /\ active' = t /\ task' = t /\ started' = started \cup {t}
      /\ phase' = [name |-> "running", turn |-> t]
      /\ pending' = NoPending /\ stopKind' = "none" /\ cancelled' = FALSE /\ agentHome' = FALSE
      /\ agentPending' \in {agentPending, "none"}
      /\ UNCHANGED <<at, closing, waiters, completing, open, outcome, handles, completion,
                     pc, call, issued, terminal, stopAck, receipts>>
  BY DEF StartTurn
<1>3. /\ pending.kind = "none" => input' = input
      /\ pending.kind # "none" =>
            \E w \in {"answered", "superseded"} : input' = [input EXCEPT ![pending.turn] = w]
  BY DEF StartTurn
<1>4. pc[c] = "await" /\ reply[c] = "none"
  BY <1>1, Received
<1>5. t \in Turns /\ t # NoTurn /\ t \notin started /\ t <= issued
  BY <1>1, <1>4, CallTurns DEF SessionInv, Fresh, Turns, NoTurn
<1>6. /\ task = NoTurn /\ completion = NoCompletion /\ completing = NoCompletion
      /\ \A u \in started : terminal[u] # "none"
  BY <1>1, BetweenTurns
<1> HIDE DEF t
<1>7. TypeOK'
  <2>1. input' \in [Turns -> {"none", "requested", "answered"} \cup Discards]
    BY <1>3 DEF SessionInv, TypeOK, Discards
  <2>2. cancelled' \in BOOLEAN /\ agentHome' \in BOOLEAN
    BY <1>2, Zenon
  <2>3. pending' \in [turn : Turns \cup {NoTurn}, kind : Kinds \cup {"none"}]
    BY <1>2 DEF NoPending
  <2>4. phase' \in [name : PhaseNames, turn : Turns \cup {NoTurn}]
    BY <1>2, <1>5 DEF PhaseNames
  <2> QED
    BY <1>1, <1>2, <1>5, <2>1, <2>2, <2>3, <2>4, ReceivedTypes DEF SessionInv, TypeOK
<1>8. Channel' /\ RoomKept'
  BY <1>1, <1>2, Answered
<1>9. Fresh'
  BY <1>1, <1>2, <1>5 DEF SessionInv, Fresh, Answer, TypeOK, t
<1>10. Control'
  BY <1>1, <1>2, <1>5 DEF SessionInv, Control, Stopped
<1>11. PhaseFaithful'
  BY <1>1, <1>2, <1>5 DEF PhaseFaithful
<1>12. TurnInv'
  <2>1. input'[t] = "none" /\ \A u \in Turns \ started' : input'[u] = "none"
    BY <1>2, <1>3, <1>5 DEF SessionInv, TurnInv, InputInv, TypeOK
  <2>2. OneTurn'
    BY <1>2, <1>5, <1>6 DEF OneTurn
  <2>3. completing'.turn = NoTurn
    BY <1>2, <1>6 DEF NoCompletion
  <2>4. \A u \in started' : terminal'[u] = "none" <=> Current(u)'
    BY <1>2, <1>5, <1>6, <2>3 DEF SessionInv, TurnInv, Current
  <2> QED
    BY <1>2, <1>5, <1>6, <2>1, <2>2, <2>3, <2>4 DEF SessionInv, TurnInv
<1>13. StopInv'
  <2>1. \A u \in Turns : Current(u)' => u = t
    BY <1>2, <1>6 DEF Current, NoCompletion
  <2>2. stopAck[t] = "none"
    BY <1>5 DEF SessionInv, TurnInv
  <2> QED
    BY <1>1, <1>2, <2>1, <2>2 DEF SessionInv, StopInv, StopWins, DiscardReason
<1>14. InputInv'
  <2>1. \A u \in Turns : input'[u] # "requested"
    <3>1. CASE pending.kind = "none"
      BY <1>3, <3>1 DEF SessionInv, InputInv, NoPending, Turns, NoTurn
    <3>2. CASE pending.kind # "none"
      BY <1>3, <3>2 DEF SessionInv, InputInv, TypeOK
    <3> QED
      BY <3>1, <3>2
  <2> QED
    BY <1>1, <1>2, <1>5, <2>1 DEF InputInv, NoPending
<1>15. AnswerInv'
  BY <1>1, <1>2 DEF SessionInv, AnswerInv, ShutdownAgreement, Answer, TypeOK
<1> QED
  BY <1>7, <1>8, <1>9, <1>10, <1>11, <1>12, <1>13, <1>14, <1>15 DEF SessionInv
\* A stop between turns discards the pending interaction, here and in the agent.
LEMMA StopPendingStep ==
    ASSUME SessionInv, NEW c \in Clients, StopPending(c)
    PROVE  SessionInv'
<1>1. /\ at = "select" /\ ~closing /\ active = NoTurn /\ pending.kind # "none"
      /\ call[c].op = "stop" /\ Receive(c, "stop") /\ Answer(c, "ok")
      /\ input' = [input EXCEPT ![pending.turn] = DiscardReason(call[c].arg)]
      /\ pending' = NoPending /\ agentPending' = "none" /\ phase' = Idle
      /\ UNCHANGED <<at, active, stopKind, cancelled, closing, waiters, completing, open,
                     outcome, handles, task, completion, agentHome, pc, call, issued,
                     started, terminal, stopAck, receipts>>
  BY DEF StopPending, Receive
<1>2. DiscardReason(call[c].arg) \in {"cancelled", "interrupted"}
  BY DEF DiscardReason
<1>3. pending.turn \in started
  BY <1>1 DEF SessionInv, InputInv
<1>4. \A u \in Turns : input'[u] # "requested"
  BY <1>1, <1>2 DEF SessionInv, InputInv, TypeOK
<1>5. TypeOK'
  <2>1. input' \in [Turns -> {"none", "requested", "answered"} \cup Discards]
    BY <1>1, <1>2 DEF SessionInv, TypeOK, Discards
  <2>2. pending' \in [turn : Turns \cup {NoTurn}, kind : Kinds \cup {"none"}]
    BY <1>1 DEF NoPending
  <2>3. phase' \in [name : PhaseNames, turn : Turns \cup {NoTurn}]
    BY <1>1 DEF PhaseNames, Idle
  <2> QED
    BY <1>1, <2>1, <2>2, <2>3, ReceivedTypes DEF SessionInv, TypeOK
<1>6. Channel' /\ RoomKept'
  BY <1>1, Answered
<1>7. Fresh'
  BY <1>1 DEF SessionInv, Fresh, Answer, TypeOK
<1>8. Control'
  BY <1>1 DEF SessionInv, Control, Stopped, Idle
<1>9. PhaseFaithful'
  BY <1>1 DEF PhaseFaithful, NoPending
<1>10. TurnInv'
  <2>1. \A u \in Turns \ started : input'[u] = input[u]
    BY <1>1, <1>3 DEF SessionInv, TypeOK
  <2> QED
    BY <1>1, <2>1 DEF SessionInv, TurnInv, OneTurn, Current
<1>11. StopInv'
  BY <1>1 DEF SessionInv, StopInv, StopWins, Current, DiscardReason
<1>12. InputInv'
  BY <1>1, <1>4 DEF InputInv, NoPending
<1>13. AnswerInv'
  BY <1>1 DEF SessionInv, AnswerInv, ShutdownAgreement, Answer, TypeOK
<1> QED
  BY <1>5, <1>6, <1>7, <1>8, <1>9, <1>10, <1>11, <1>12, <1>13 DEF SessionInv

\* A stop of the active turn: the first kind is kept.
LEMMA StopActiveStep ==
    ASSUME SessionInv, NEW c \in Clients, StopActive(c)
    PROVE  SessionInv'
<1>1. /\ at = "select" /\ ~closing /\ active # NoTurn /\ stopKind \in {"none", call[c].arg}
      /\ call[c].op = "stop" /\ Receive(c, "stop") /\ Answer(c, "ok")
      /\ stopKind' = call[c].arg /\ cancelled' = TRUE
      /\ stopAck' = [stopAck EXCEPT ![active] = call[c].arg]
      /\ phase' = [name |-> "cancelling", turn |-> active]
      /\ UNCHANGED <<at, active, closing, pending, waiters, completing, open, outcome,
                     handles, taskVars, pc, call, issued, started, terminal, input, receipts>>
  BY DEF StopActive, Receive
<1>2. call[c].arg \in StopKinds
  BY <1>1, CallTurns DEF SessionInv
<1>3. active \in Turns /\ active \in started /\ completing = NoCompletion
  BY <1>1 DEF SessionInv, TypeOK, TurnInv, Control
<1>4. TypeOK'
  <2>1. cancelled' \in BOOLEAN
    BY <1>1, Zenon
  <2>2. stopKind' \in StopKinds \cup {"none"} /\ stopAck' \in [Turns -> StopKinds \cup {"none"}]
    BY <1>1, <1>2 DEF SessionInv, TypeOK
  <2>3. phase' \in [name : PhaseNames, turn : Turns \cup {NoTurn}]
    BY <1>1, <1>3 DEF PhaseNames
  <2> QED
    BY <1>1, <2>1, <2>2, <2>3, ReceivedTypes DEF SessionInv, TypeOK, taskVars
<1>5. Channel' /\ RoomKept'
  BY <1>1, Answered
<1>6. Fresh'
  BY <1>1 DEF SessionInv, Fresh, Answer, TypeOK
<1>7. Control'
  BY <1>1 DEF SessionInv, Control, Stopped
<1>8. PhaseFaithful'
  BY <1>1, <1>2 DEF PhaseFaithful, StopKinds
<1>9. TurnInv'
  <2>1. \A u \in Turns \ started : stopAck'[u] = stopAck[u]
    BY <1>1, <1>3 DEF SessionInv, TypeOK
  <2> QED
    BY <1>1, <2>1 DEF SessionInv, TurnInv, OneTurn, Current, taskVars
<1>10. StopInv'
  <2>1. \A u \in Turns : Current(u)' => u = active
    BY <1>1, <1>3 DEF Current, NoCompletion
  <2>2. stopAck'[active] = stopKind'
    BY <1>1, <1>3 DEF SessionInv, TypeOK
  <2>3. terminal[active] = "none"
    BY <1>1, <1>3 DEF SessionInv, TurnInv, Current
  <2>4. StopWins'
    BY <1>1, <1>3, <2>3 DEF SessionInv, StopInv, StopWins, DiscardReason, TypeOK
  <2> QED
    BY <1>1, <1>2, <2>1, <2>2, <2>4 DEF StopInv, StopKinds
<1>11. InputInv'
  BY <1>1 DEF SessionInv, InputInv, taskVars
<1>12. AnswerInv'
  BY <1>1 DEF SessionInv, AnswerInv, ShutdownAgreement, Answer, TypeOK
<1> QED
  BY <1>4, <1>5, <1>6, <1>7, <1>8, <1>9, <1>10, <1>11, <1>12 DEF SessionInv

\* begin_shutdown leaves a session that no interaction waits in, and a turn
\* with a stop: the one it had, or a cancel.
LEMMA ShutdownBegins ==
    ASSUME SessionInv, at = "select", ~closing, BeginShutdown,
           at' \in {"select", "drain", "finish"},
           at' = "select" => active # NoTurn, at' = "finish" => active = NoTurn,
           UNCHANGED <<active, completing, open, handles, task, completion, agentHome,
                       clientVars, started, terminal, stopAck, receipts>>
    PROVE  /\ closing' /\ pending' = NoPending /\ UNCHANGED outcome
           /\ Control' /\ PhaseFaithful' /\ TurnInv' /\ StopInv' /\ InputInv'
           /\ (TypeOK' <=> TypeOK /\ waiters' \subseteq Clients /\ queue' \in Seq(Clients)
                           /\ Len(queue') <= QueueCapacity)
<1>1. pending.kind # "none" => agentHome /\ active = NoTurn /\ pending.turn \in started
  BY DEF SessionInv, TurnInv, OneTurn, InputInv, NoPending
<1>2. /\ pending' = NoPending /\ UNCHANGED outcome /\ agentPending' \in {"none", agentPending}
      /\ active = NoTurn => agentPending' = "none"
  BY <1>1 DEF BeginShutdown, SessionInv, InputInv
<1>3. /\ closing' = TRUE /\ phase' = [name |-> "closing", turn |-> NoTurn]
      /\ active = NoTurn => UNCHANGED <<stopKind, cancelled>>
      /\ active # NoTurn => /\ stopKind' = IF stopKind = "none" THEN "cancel" ELSE stopKind
                            /\ cancelled' = TRUE
  BY DEF BeginShutdown
<1>4. \/ UNCHANGED input /\ pending.kind = "none"
      \/ input' = [input EXCEPT ![pending.turn] = "shutdown"] /\ pending.kind # "none"
  BY <1>1 DEF BeginShutdown
<1>5. \A u \in Turns : input'[u] # "requested"
  <2>1. CASE pending.kind = "none"
    BY <1>4, <2>1 DEF SessionInv, InputInv, NoPending, Turns, NoTurn
  <2>2. CASE pending.kind # "none"
    BY <1>4, <2>2 DEF SessionInv, InputInv, TypeOK
  <2> QED
    BY <2>1, <2>2
<1>6. completing = NoCompletion /\ outcome = "unset"
  BY DEF SessionInv, Control, Stopped
<1>7. Control'
  BY <1>2, <1>3, <1>6 DEF SessionInv, Control, Stopped, clientVars
<1>8. PhaseFaithful'
  BY <1>3 DEF PhaseFaithful
<1>9. TurnInv'
  <2>1. active # NoTurn => UNCHANGED input
    BY <1>1, <1>4
  <2>2. \A u \in Turns \ started : input'[u] = input[u]
    BY <1>1, <1>4 DEF SessionInv, TypeOK
  <2> QED
    BY <1>2, <2>1, <2>2 DEF SessionInv, TurnInv, OneTurn, Current
<1>10. StopInv'
  <2>1. \A u \in Turns : Current(u)' => u = active /\ Current(u)
    BY <1>6 DEF Current, NoCompletion
  <2>2. \A u \in Turns : Current(u)' => stopAck[u] = stopKind
    BY <2>1 DEF SessionInv, StopInv
  <2>3. StopWins'
    BY DEF SessionInv, StopInv, StopWins, DiscardReason
  <2> QED
    BY <1>3, <2>1, <2>2, <2>3 DEF SessionInv, StopInv
<1>11. InputInv'
  BY <1>2, <1>5 DEF InputInv, NoPending
<1>12. TypeOK' <=> TypeOK /\ waiters' \subseteq Clients /\ queue' \in Seq(Clients)
                   /\ Len(queue') <= QueueCapacity
  <2>1. closing' \in BOOLEAN /\ cancelled' \in BOOLEAN
    <3>1. active # NoTurn => cancelled' = TRUE
      BY <1>3
    <3>2. active = NoTurn => cancelled' = cancelled
      BY <1>3
    <3>3. cancelled \in BOOLEAN
      BY DEF SessionInv, TypeOK
    <3> QED
      BY <1>3, <3>1, <3>2, <3>3, Zenon
  <2>2. stopKind' \in StopKinds \cup {"none"}
    BY <1>3 DEF SessionInv, TypeOK, StopKinds
  <2>3. pending' \in [turn : Turns \cup {NoTurn}, kind : Kinds \cup {"none"}]
    BY <1>2 DEF NoPending
  <2>4. phase' \in [name : PhaseNames, turn : Turns \cup {NoTurn}]
    BY <1>3 DEF PhaseNames
  <2>5. input' \in [Turns -> {"none", "requested", "answered"} \cup Discards]
    BY <1>4 DEF SessionInv, TypeOK, Discards
  <2> QED
    BY <1>2, <2>1, <2>2, <2>3, <2>4, <2>5 DEF SessionInv, TypeOK, ActorLocations, clientVars
<1> QED
  BY <1>2, <1>3, <1>7, <1>8, <1>9, <1>10, <1>11, <1>12

\* A shutdown that is handled: its caller waits for a receipt.
LEMMA ShutdownStep ==
    ASSUME SessionInv, NEW c \in Clients, Shutdown(c)
    PROVE  SessionInv'
<1>1. /\ at = "select" /\ ~closing /\ call[c].op = "shutdown" /\ Receive(c, "shutdown")
      /\ waiters' = waiters \cup {c} /\ BeginShutdown /\ at' = "drain"
      /\ UNCHANGED <<active, completing, open, handles, task, completion, agentHome,
                     clientVars, started, terminal, stopAck, receipts>>
  BY DEF Shutdown, Receive
<1>2. Len(queue) \in Nat /\ Len(queue) <= QueueCapacity /\ Len(queue') = Len(queue) - 1
      /\ queue' \in Seq(Clients)
  BY <1>1, Received DEF SessionInv, TypeOK
<1>3. /\ closing' /\ pending' = NoPending /\ UNCHANGED outcome
      /\ Control' /\ PhaseFaithful' /\ TurnInv' /\ StopInv' /\ InputInv'
  BY <1>1, ShutdownBegins
<1>4. TypeOK'
  BY <1>1, <1>2, ShutdownBegins, QueueAssumption DEF SessionInv, TypeOK
<1>5. Channel'
  BY <1>1, Received DEF SessionInv, Channel, clientVars
<1>6. RoomKept'
  <2>1. Pushing' = Pushing
    BY <1>1 DEF Pushing, clientVars
  <2>2. Cardinality(Pushing) \in Nat
    BY FS_CardinalityType DEF SessionInv, RoomKept
  <2> QED
    BY <1>2, <2>1, <2>2, QueueAssumption DEF SessionInv, RoomKept
<1>7. Fresh' /\ AnswerInv'
  BY <1>1, <1>3 DEF SessionInv, Fresh, AnswerInv, ShutdownAgreement, clientVars
<1> QED
  BY <1>3, <1>4, <1>5, <1>6, <1>7 DEF SessionInv

\* The last handle was dropped: the session shuts down by itself.
LEMMA HandlesGoneStep ==
    ASSUME SessionInv, HandlesGone
    PROVE  SessionInv'
<1>1. /\ at = "select" /\ ~closing /\ BeginShutdown
      /\ at' = IF active = NoTurn THEN "finish" ELSE "select"
      /\ UNCHANGED <<active, waiters, completing, queue, open, handles, task, completion,
                     agentHome, clientVars, started, terminal, stopAck, receipts>>
  BY DEF HandlesGone
<1>2. /\ closing' /\ UNCHANGED outcome
      /\ Control' /\ PhaseFaithful' /\ TurnInv' /\ StopInv' /\ InputInv' /\ TypeOK'
  BY <1>1, ShutdownBegins DEF SessionInv, TypeOK
<1>3. Channel' /\ RoomKept' /\ Fresh' /\ AnswerInv'
  BY <1>1, <1>2 DEF SessionInv, Channel, RoomKept, Pushing, Fresh, AnswerInv, ShutdownAgreement,
                    clientVars
<1> QED
  BY <1>2, <1>3 DEF SessionInv
-----------------------------------------------------------------------------
(* The other steps of the actor, and the turn's.                           *)

\* The turn returns its result and the agent with it.
LEMMA TurnReturnsStep ==
    ASSUME SessionInv, TurnReturns
    PROVE  SessionInv'
<1>1. /\ task # NoTurn /\ completion = NoCompletion /\ task' = NoTurn
      /\ completion'.turn = task
      /\ completion' \in [turn : Turns \cup {NoTurn}, result : {"none", "ok", "err"}]
      /\ agentPending' \in Kinds \cup {"none"}
      /\ UNCHANGED <<actorVars, handleVars, agentHome, clientVars, history>>
  BY DEF TurnReturns, SessionInv, TypeOK
<1>2. task = active /\ active # NoTurn
  BY <1>1 DEF SessionInv, TurnInv, OneTurn
<1>3. TypeOK'
  BY <1>1 DEF SessionInv, TypeOK, actorVars, handleVars, clientVars, history
<1>4. Channel' /\ RoomKept' /\ Fresh' /\ AnswerInv'
  BY <1>1 DEF SessionInv, Channel, RoomKept, Pushing, Fresh, AnswerInv, ShutdownAgreement,
              actorVars, handleVars, clientVars, history
<1>5. Control' /\ PhaseFaithful'
  BY <1>1 DEF SessionInv, Control, Stopped, PhaseFaithful, actorVars, handleVars, clientVars
<1>6. TurnInv' /\ StopInv' /\ InputInv'
  BY <1>1, <1>2 DEF SessionInv, TurnInv, OneTurn, Current, StopInv, StopWins, DiscardReason, InputInv,
                    actorVars, history
<1> QED
  BY <1>3, <1>4, <1>5, <1>6 DEF SessionInv

\* finish_turn takes the agent back: its interaction is the session's, or gone.
LEMMA CompleteTurnStep ==
    ASSUME SessionInv, CompleteTurn
    PROVE  SessionInv'
<1>1. /\ at = "select" /\ active # NoTurn /\ completion # NoCompletion /\ completion.turn = active
      /\ agentHome' = TRUE /\ completing' = completion /\ completion' = NoCompletion
      /\ active' = NoTurn /\ at' = "after_turn"
      /\ UNCHANGED <<stopKind, cancelled, closing, waiters, handleVars, task, clientVars,
                     started, terminal, stopAck, receipts>>
  BY DEF CompleteTurn
<1>2. /\ active \in Turns /\ active \in started /\ input[active] = "none"
      /\ pending = NoPending /\ completing = NoCompletion /\ task = NoTurn
  BY <1>1 DEF SessionInv, TypeOK, TurnInv, OneTurn, Control
<1>3. Discard \in {"none", "shutdown", "cancelled", "interrupted"} /\ (closing => Discard # "none")
  BY DEF Discard, DiscardReason
<1>4. \/ /\ agentPending' = "none" /\ pending' = NoPending
         /\ \E w \in {"none", "shutdown", "cancelled", "interrupted"} :
               input' = [input EXCEPT ![active] = w]
      \/ /\ ~closing /\ agentPending # "none" /\ agentPending' = agentPending
         /\ pending' = [turn |-> active, kind |-> agentPending]
         /\ input' = [input EXCEPT ![active] = "requested"]
  <2>1. CASE agentPending = "none"
    <3>1. agentPending' = "none" /\ pending' = NoPending /\ input' = input
      BY <1>2, <2>1 DEF CompleteTurn
    <3>2. input = [input EXCEPT ![active] = "none"]
      BY <1>2 DEF SessionInv, TypeOK
    <3> QED
      BY <3>1, <3>2
  <2>2. CASE agentPending # "none" /\ Discard = "none"
    BY <1>3, <2>2 DEF CompleteTurn
  <2>3. CASE agentPending # "none" /\ Discard # "none"
    BY <1>2, <1>3, <2>3 DEF CompleteTurn
  <2> QED
    BY <2>1, <2>2, <2>3
<1>5. TypeOK'
  <2>1. agentHome' \in BOOLEAN
    BY <1>1, Zenon
  <2>2. /\ agentPending' \in Kinds \cup {"none"}
        /\ pending' \in [turn : Turns \cup {NoTurn}, kind : Kinds \cup {"none"}]
        /\ input' \in [Turns -> {"none", "requested", "answered"} \cup Discards]
    BY <1>2, <1>4 DEF SessionInv, TypeOK, NoPending, Discards
  <2>3. completing' \in [turn : Turns \cup {NoTurn}, result : {"none", "ok", "err"}]
        /\ completion' \in [turn : Turns \cup {NoTurn}, result : {"none", "ok", "err"}]
    BY <1>1 DEF SessionInv, TypeOK, NoCompletion
  <2> QED
    BY <1>1, <2>1, <2>2, <2>3 DEF SessionInv, TypeOK, ActorLocations, handleVars, clientVars
<1>6. Channel' /\ RoomKept' /\ Fresh' /\ AnswerInv'
  BY <1>1 DEF SessionInv, Channel, RoomKept, Pushing, Fresh, AnswerInv, ShutdownAgreement,
              handleVars, clientVars
<1>7. Control' /\ PhaseFaithful'
  BY <1>1 DEF SessionInv, Control, Stopped, PhaseFaithful, handleVars, clientVars
<1>8. TurnInv'
  <2>1. OneTurn'
    BY <1>1, <1>2 DEF OneTurn
  <2>2. \A u \in Turns : Current(u)' <=> Current(u)
    BY <1>1, <1>2 DEF Current, NoCompletion
  <2>3. \A u \in Turns \ started : input'[u] = input[u]
    BY <1>2, <1>4 DEF SessionInv, TypeOK
  <2> QED
    BY <1>1, <1>2, <2>1, <2>2, <2>3 DEF SessionInv, TurnInv, TypeOK
<1>9. StopInv'
  <2>1. \A u \in Turns : Current(u)' <=> Current(u)
    BY <1>1, <1>2 DEF Current, NoCompletion
  <2> QED
    BY <1>1, <2>1 DEF SessionInv, StopInv, StopWins, DiscardReason
<1>10. InputInv'
  <2>0. \A u \in Turns : input[u] # "requested"
    BY <1>2 DEF SessionInv, InputInv, NoPending, Turns, NoTurn
  <2>1. CASE /\ agentPending' = "none" /\ pending' = NoPending
             /\ \E w \in {"none", "shutdown", "cancelled", "interrupted"} :
                   input' = [input EXCEPT ![active] = w]
    BY <1>1, <1>2, <2>0, <2>1 DEF InputInv, NoPending, SessionInv, TypeOK
  <2>2. CASE /\ ~closing /\ agentPending # "none" /\ agentPending' = agentPending
             /\ pending' = [turn |-> active, kind |-> agentPending]
             /\ input' = [input EXCEPT ![active] = "requested"]
    BY <1>1, <1>2, <2>0, <2>2 DEF InputInv, SessionInv, TypeOK
  <2> QED
    BY <1>4, <2>1, <2>2
<1> QED
  BY <1>5, <1>6, <1>7, <1>8, <1>9, <1>10 DEF SessionInv

\* How a turn ends: as it was stopped, if it was.
LEMMA TerminalIs ==
    ASSUME NEW r
    PROVE  /\ cancelled => TerminalOf(r) = StopResult
           /\ ~cancelled => TerminalOf(r) \in {"failed", "completed", "awaiting_input"}
           /\ TerminalOf(r) \in Terminals
<1>1. ASSUME cancelled PROVE TerminalOf(r) = StopResult
  BY <1>1, Zenon DEF TerminalOf
<1>2. ASSUME ~cancelled, r = "err" PROVE TerminalOf(r) = "failed"
  BY <1>2, Zenon DEF TerminalOf
<1>3. ASSUME ~cancelled, r # "err", pending.kind = "none" PROVE TerminalOf(r) = "completed"
  BY <1>3, Zenon DEF TerminalOf
<1>4. ASSUME ~cancelled, r # "err", pending.kind # "none" PROVE TerminalOf(r) = "awaiting_input"
  BY <1>4, Zenon DEF TerminalOf
<1> QED
  BY <1>1, <1>2, <1>3, <1>4 DEF Terminals, StopResult

\* The terminal event and the next phase are published.
LEMMA PublishTerminalStep ==
    ASSUME SessionInv, PublishTerminal
    PROVE  SessionInv'
<1> DEFINE t == completing.turn
           e == TerminalOf(completing.result)
<1>1. /\ at = "after_turn" /\ terminal' = [terminal EXCEPT ![t] = e]
      /\ phase' = IF closing THEN phase
                  ELSE IF pending.kind = "none" THEN Idle
                  ELSE [name |-> "awaiting", turn |-> pending.turn]
      /\ completing' = NoCompletion /\ stopKind' = "none" /\ cancelled' = FALSE
      /\ at' = IF closing THEN "finish" ELSE "select"
      /\ UNCHANGED <<active, closing, pending, waiters, queue, open, outcome, handles,
                     taskVars, clientVars, started, input, stopAck, receipts>>
  BY DEF PublishTerminal
<1>2. active = NoTurn /\ t # NoTurn /\ t \in started /\ t \in Turns
  BY <1>1 DEF SessionInv, Control, TurnInv, TypeOK
<1>3. e \in Terminals /\ (cancelled => e = StopResult)
  BY TerminalIs
<1>4. completing.turn = t
  OBVIOUS
<1> HIDE DEF t, e
<1>5. TypeOK'
  <2>1. cancelled' \in BOOLEAN
    BY <1>1, Zenon
  <2>2. terminal' \in [Turns -> Terminals \cup {"none"}]
    BY <1>1, <1>3 DEF SessionInv, TypeOK
  <2>3. phase' \in [name : PhaseNames, turn : Turns \cup {NoTurn}]
    BY <1>1 DEF SessionInv, TypeOK, PhaseNames, Idle
  <2>4. completing' \in [turn : Turns \cup {NoTurn}, result : {"none", "ok", "err"}]
    BY <1>1 DEF NoCompletion
  <2> QED
    BY <1>1, <2>1, <2>2, <2>3, <2>4 DEF SessionInv, TypeOK, ActorLocations, taskVars, clientVars
<1>6. Channel' /\ RoomKept' /\ Fresh' /\ AnswerInv'
  BY <1>1 DEF SessionInv, Channel, RoomKept, Pushing, Fresh, AnswerInv, ShutdownAgreement, clientVars
<1>7. Control'
  BY <1>1, <1>2 DEF SessionInv, Control, Stopped, Idle, clientVars
<1>8. PhaseFaithful'
  BY <1>1, <1>2 DEF PhaseFaithful
<1>9. \A u \in Turns : ~Current(u)'
  BY <1>1, <1>2 DEF Current, NoCompletion
<1>10. TurnInv'
  <2>1. \A u \in started : terminal'[u] # "none"
    BY <1>1, <1>2, <1>3, <1>4 DEF SessionInv, TurnInv, Current, TypeOK, Terminals
  <2>2. \A u \in Turns \ started : terminal'[u] = terminal[u]
    BY <1>1, <1>2 DEF SessionInv, TypeOK
  <2> QED
    BY <1>1, <1>2, <1>9, <2>1, <2>2 DEF SessionInv, TurnInv, OneTurn, taskVars, NoCompletion, TypeOK
<1>11. StopInv'
  <2>1. stopAck[t] # "none" => cancelled /\ stopAck[t] = stopKind
    BY <1>2, <1>4 DEF SessionInv, StopInv, Current
  <2>2. stopAck[t] # "none" => e = DiscardReason(stopAck[t])
    BY <1>2, <1>3, <2>1 DEF StopResult, DiscardReason, SessionInv, TypeOK, StopKinds
  <2>3. StopWins'
    <3> SUFFICES ASSUME NEW u \in Turns, stopAck[u] # "none", terminal'[u] # "none"
                 PROVE  terminal'[u] = DiscardReason(stopAck[u])
      BY <1>1 DEF StopWins, DiscardReason
    <3>1. CASE u = t
      BY <1>1, <2>2, <3>1 DEF SessionInv, TypeOK
    <3>2. CASE u # t
      BY <1>1, <3>2 DEF SessionInv, TypeOK, StopInv, StopWins
    <3> QED
      BY <3>1, <3>2
  <2> QED
    BY <1>1, <1>2, <1>9, <2>3 DEF StopInv
<1>12. InputInv'
  BY <1>1 DEF SessionInv, InputInv, taskVars
<1> QED
  BY <1>5, <1>6, <1>7, <1>8, <1>10, <1>11, <1>12 DEF SessionInv

\* The channel is closed and its commands rejected.
LEMMA DrainStep ==
    ASSUME SessionInv, Drain
    PROVE  SessionInv'
<1>1. /\ at = "drain" /\ open' = FALSE /\ queue' = << >>
      /\ reply' = [c \in Clients |-> IF c \in Queued THEN "closed" ELSE reply[c]]
      /\ at' = IF active = NoTurn THEN "finish" ELSE "select"
      /\ UNCHANGED <<active, stopKind, cancelled, closing, pending, waiters, completing,
                     outcome, phase, handles, taskVars, pc, call, issued, history>>
  BY DEF Drain
<1>2. closing /\ completing = NoCompletion
  BY <1>1 DEF SessionInv, Control
<1>3. \A c \in Queued : pc[c] = "await" /\ reply[c] = "none" /\ c \notin waiters
  BY DEF SessionInv, Channel, Queued
<1>4. TypeOK'
  <2>1. open' \in BOOLEAN
    BY <1>1, Zenon
  <2>2. queue' \in Seq(Clients) /\ Len(queue') <= QueueCapacity
    BY <1>1, QueueAssumption
  <2>3. reply' \in [Clients -> {"none", "ok", "error", "closed", "failed", "dropped"}]
    BY <1>1 DEF SessionInv, TypeOK
  <2> QED
    BY <1>1, <2>1, <2>2, <2>3 DEF SessionInv, TypeOK, ActorLocations, taskVars, history
<1>5. Channel'
  <2>1. DOMAIN queue' = {}
    BY <1>1
  <2>2. \A c \in Clients : IF c \in Queued THEN pc[c] = "await" /\ c \notin waiters
                                           ELSE reply'[c] = reply[c]
    BY <1>1, <1>3
  <2> QED
    BY <1>1, <2>1, <2>2 DEF SessionInv, Channel, TypeOK
<1>6. RoomKept'
  <2>1. Pushing' = Pushing /\ Len(queue') = 0 /\ Len(queue) \in Nat
    BY <1>1 DEF Pushing, SessionInv, TypeOK
  <2>2. Cardinality(Pushing) \in Nat
    BY FS_CardinalityType DEF SessionInv, RoomKept
  <2> QED
    BY <2>1, <2>2, QueueAssumption DEF SessionInv, RoomKept
<1>7. Fresh'
  BY <1>1 DEF SessionInv, Fresh, history
<1>8. Control' /\ PhaseFaithful'
  BY <1>1, <1>2 DEF SessionInv, Control, Stopped, PhaseFaithful
<1>9. TurnInv' /\ InputInv'
  BY <1>1 DEF SessionInv, TurnInv, OneTurn, Current, InputInv, taskVars, history
<1>10. StopInv'
  BY <1>1 DEF SessionInv, StopInv, StopWins, DiscardReason, Current, history
<1>11. AnswerInv'
  BY <1>1, <1>2, <1>3 DEF SessionInv, AnswerInv, ShutdownAgreement, history
<1> QED
  BY <1>4, <1>5, <1>6, <1>7, <1>8, <1>9, <1>10, <1>11 DEF SessionInv

\* The outcome is retained, once, and Closed is published.
LEMMA FinishShutdownStep ==
    ASSUME SessionInv, FinishShutdown
    PROVE  SessionInv'
<1>1. /\ at = "finish" /\ at' = "receipts" /\ phase' = [name |-> "closed", turn |-> NoTurn]
      /\ \E r \in {"complete", "failed"} : outcome' = IF outcome = "unset" THEN r ELSE outcome
      /\ UNCHANGED <<active, stopKind, cancelled, closing, pending, waiters, completing,
                     queue, open, handles, taskVars, clientVars, history>>
  BY DEF FinishShutdown
<1>2. closing /\ outcome = "unset" /\ outcome' \in {"complete", "failed"}
  BY <1>1 DEF SessionInv, Control, Stopped
<1>3. receipts = {} /\ \A c \in Clients : call[c].op = "shutdown" => reply[c] \notin {"ok", "failed"}
  BY <1>2 DEF SessionInv, AnswerInv, ShutdownAgreement
<1>4. TypeOK'
  <2>1. phase' \in [name : PhaseNames, turn : Turns \cup {NoTurn}]
    BY <1>1 DEF PhaseNames
  <2> QED
    BY <1>1, <1>2, <2>1 DEF SessionInv, TypeOK, ActorLocations, taskVars, clientVars, history
<1>5. Channel' /\ RoomKept' /\ Fresh'
  BY <1>1 DEF SessionInv, Channel, RoomKept, Pushing, Fresh, clientVars, history
<1>6. Control' /\ PhaseFaithful'
  BY <1>1, <1>2 DEF SessionInv, Control, Stopped, PhaseFaithful, clientVars
<1>7. TurnInv' /\ InputInv'
  BY <1>1 DEF SessionInv, TurnInv, OneTurn, Current, InputInv, taskVars, history
<1>8. StopInv'
  BY <1>1 DEF SessionInv, StopInv, StopWins, DiscardReason, Current, history
<1>9. AnswerInv'
  BY <1>1, <1>2, <1>3 DEF SessionInv, AnswerInv, ShutdownAgreement, clientVars, history
<1> QED
  BY <1>4, <1>5, <1>6, <1>7, <1>8, <1>9 DEF SessionInv

\* The waiters get their receipts, the commands left in the channel are dropped.
LEMMA SendReceiptsStep ==
    ASSUME SessionInv, SendReceipts
    PROVE  SessionInv'
<1>1. /\ at = "receipts" /\ at' = "done" /\ open' = FALSE /\ queue' = << >> /\ waiters' = {}
      /\ UNCHANGED <<active, stopKind, cancelled, closing, pending, completing, outcome,
                     phase, handles, taskVars, pc, call, issued, history>>
  BY DEF SendReceipts
<1> DEFINE answer(c) ==
             CASE c \in waiters -> IF outcome = "complete" THEN "ok" ELSE "failed"
               [] c \in Queued -> "dropped"
               [] OTHER -> reply[c]
<1>2. reply' = [c \in Clients |-> answer(c)]
  BY DEF SendReceipts
<1>3. ASSUME NEW c \in Clients
      PROVE  /\ c \in waiters => answer(c) = IF outcome = "complete" THEN "ok" ELSE "failed"
             /\ c \notin waiters /\ c \in Queued => answer(c) = "dropped"
             /\ c \notin waiters /\ c \notin Queued => answer(c) = reply[c]
  <2>0. c \in waiters => c \notin Queued
    BY DEF SessionInv, Channel, Queued
  <2>1. ASSUME c \in waiters PROVE answer(c) = IF outcome = "complete" THEN "ok" ELSE "failed"
    BY <2>0, <2>1, Zenon
  <2>2. ASSUME c \notin waiters, c \in Queued PROVE answer(c) = "dropped"
    BY <2>2, Zenon
  <2>3. ASSUME c \notin waiters, c \notin Queued PROVE answer(c) = reply[c]
    BY <2>3, Zenon
  <2> QED
    BY <2>1, <2>2, <2>3
<1> HIDE DEF answer
<1>4. closing /\ outcome \in {"complete", "failed"} /\ completing = NoCompletion
  BY <1>1 DEF SessionInv, Control, Stopped, TypeOK
<1>5. \A c \in Queued : pc[c] = "await" /\ reply[c] = "none" /\ c \notin waiters
  BY DEF SessionInv, Channel, Queued
<1>6. \A c \in Clients :
         /\ reply'[c] = reply[c] \/ pc[c] = "await"
         /\ c \in waiters => /\ call[c].op = "shutdown"
                             /\ reply'[c] = IF outcome = "complete" THEN "ok" ELSE "failed"
         /\ c \notin waiters => reply'[c] = "dropped" \/ reply'[c] = reply[c]
  BY <1>2, <1>3, <1>5 DEF SessionInv, Channel
<1>7. TypeOK'
  <2>1. open' \in BOOLEAN
    BY <1>1, Zenon
  <2>2. queue' \in Seq(Clients) /\ Len(queue') <= QueueCapacity
    BY <1>1, QueueAssumption
  <2>3. reply' \in [Clients -> {"none", "ok", "error", "closed", "failed", "dropped"}]
    <3>1. \A c \in Clients : answer(c) \in {"none", "ok", "error", "closed", "failed", "dropped"}
      BY <1>3 DEF SessionInv, TypeOK
    <3> QED
      BY <1>2, <3>1
  <2> QED
    BY <1>1, <2>1, <2>2, <2>3 DEF SessionInv, TypeOK, ActorLocations, taskVars, history
<1>8. Channel'
  BY <1>1, <1>6 DEF SessionInv, Channel
<1>9. RoomKept'
  <2>1. Pushing' = Pushing /\ Len(queue') = 0 /\ Len(queue) \in Nat
    BY <1>1 DEF Pushing, SessionInv, TypeOK
  <2>2. Cardinality(Pushing) \in Nat
    BY FS_CardinalityType DEF SessionInv, RoomKept
  <2> QED
    BY <2>1, <2>2, QueueAssumption DEF SessionInv, RoomKept
<1>10. Fresh'
  BY <1>1, <1>6 DEF SessionInv, Fresh, history
<1>11. Control' /\ PhaseFaithful'
  BY <1>1, <1>4 DEF SessionInv, Control, Stopped, PhaseFaithful
<1>12. TurnInv' /\ InputInv'
  BY <1>1 DEF SessionInv, TurnInv, OneTurn, Current, InputInv, taskVars, history
<1>13. StopInv'
  BY <1>1 DEF SessionInv, StopInv, StopWins, DiscardReason, Current, history
<1>14. AnswerInv'
  BY <1>1, <1>4, <1>6 DEF SessionInv, AnswerInv, ShutdownAgreement, history
<1> QED
  BY <1>7, <1>8, <1>9, <1>10, <1>11, <1>12, <1>13, <1>14 DEF SessionInv
-----------------------------------------------------------------------------
(* The invariant.                                                          *)

\* A session opens with nothing running, nobody waiting and nothing published.
LEMMA InitInv == Init => SessionInv
<1> SUFFICES ASSUME Init PROVE SessionInv
  OBVIOUS
<1>1. TypeOK
  <2>1. cancelled \in BOOLEAN /\ closing \in BOOLEAN /\ open \in BOOLEAN /\ handles \in BOOLEAN
        /\ agentHome \in BOOLEAN
    BY Zenon DEF Init
  <2>2. queue \in Seq(Clients) /\ Len(queue) <= QueueCapacity
    BY QueueAssumption DEF Init
  <2>3. issued \in 0..MaxTurns
    BY TurnAssumption DEF Init
  <2> QED
    BY <2>1, <2>2, <2>3 DEF Init, TypeOK, ActorLocations, ClientLocations, NoPending, NoCompletion,
                            Idle, PhaseNames
<1>2. Channel
  BY DEF Init, Channel
<1>3. RoomKept
  <2>1. Pushing = {} /\ Len(queue) = 0
    BY DEF Init, Pushing
  <2> QED
    BY <2>1, FS_EmptySet, QueueAssumption DEF RoomKept
<1>4. Fresh /\ AnswerInv
  BY DEF Init, Fresh, AnswerInv, ShutdownAgreement, NoCall
<1>5. Control /\ PhaseFaithful
  BY DEF Init, Control, Stopped, PhaseFaithful, Idle, NoPending
<1>6. TurnInv /\ InputInv
  BY DEF Init, TurnInv, OneTurn, Current, InputInv, NoPending, NoCompletion
<1>7. StopInv
  BY DEF Init, StopInv, StopWins, Current, NoCompletion
<1> QED
  BY <1>1, <1>2, <1>3, <1>4, <1>5, <1>6, <1>7 DEF SessionInv

\* A step that changes nothing.
LEMMA StutterInv ==
    ASSUME SessionInv, UNCHANGED vars
    PROVE  SessionInv'
<1>0. UNCHANGED <<actorVars, handleVars, taskVars, clientVars, history>>
  BY DEF vars
<1>1. TypeOK'
  BY <1>0 DEF SessionInv, TypeOK, actorVars, handleVars, taskVars, clientVars, history
<1>2. Channel' /\ RoomKept' /\ Fresh' /\ AnswerInv'
  BY <1>0 DEF SessionInv, Channel, RoomKept, Pushing, Fresh, AnswerInv, ShutdownAgreement,
              actorVars, handleVars, clientVars, history
<1>3. Control'
  BY <1>0 DEF SessionInv, Control, Stopped, actorVars, handleVars, clientVars
<1>4. PhaseFaithful' /\ TurnInv' /\ StopInv' /\ InputInv'
  BY <1>0, CallerFrame DEF handleVars, history
<1> QED
  BY <1>1, <1>2, <1>3, <1>4 DEF SessionInv

\* Every step of the session, its callers and its turn keeps the invariant.
LEMMA NextInv == SessionInv /\ [Next]_vars => SessionInv'
<1> SUFFICES ASSUME SessionInv, [Next]_vars PROVE SessionInv'
  OBVIOUS
<1>1. ASSUME NEW c \in Clients, Handle(c) PROVE SessionInv'
  BY <1>1, StartTurnStep, StopPendingStep, StopActiveStep, RefusedStep, ShutdownStep DEF Handle
<1>2. ASSUME NEW c \in Clients,
             Request(c) \/ CallShutdown(c) \/ SendShutdown(c) \/ Caller(c)
      PROVE  SessionInv'
  BY <1>2, RequestStep, CallShutdownStep, SendShutdownStep, PushStep, ReturnStep, ShutdownCallStep
     DEF Caller
<1>3. CASE Actor
  BY <1>1, <1>3, HandlesGoneStep, DrainStep, FinishShutdownStep, SendReceiptsStep, CompleteTurnStep,
     PublishTerminalStep DEF Actor
<1> QED
  BY <1>2, <1>3, TurnReturnsStep, DropHandlesStep, StutterInv DEF Next

\* The invariant of a session, whatever its callers do.
THEOREM SessionInvariant == Spec => []SessionInv
BY InitInv, NextInv, PTL DEF Spec

\* Every variable keeps its type.
THEOREM SessionTypes == Spec => []TypeOK
<1>1. SessionInv => TypeOK
  BY DEF SessionInv
<1> QED
  BY <1>1, SessionInvariant, PTL

\* One turn at a time: the task, the completion in flight and the agent on loan
\* belong to the active turn.
THEOREM TurnsAreExclusive == Spec => []OneTurn
<1>1. SessionInv => OneTurn
  BY DEF SessionInv, TurnInv
<1> QED
  BY <1>1, SessionInvariant, PTL

\* The snapshot handles read is what the actor, and the agent it holds, know.
THEOREM SnapshotsAgree == Spec => []SnapshotFaithful
<1>1. SessionInv => SnapshotFaithful
  BY DEF SessionInv, SnapshotFaithful, PendingMatchesAgent, InputInv
<1> QED
  BY <1>1, SessionInvariant, PTL

\* Closed is published when nothing runs and nothing is owed; nobody was told
\* another outcome; the select always has a branch.
THEOREM ShutdownsAreSound == Spec => []ShutdownSound
<1>1. SessionInv => SelectNeverDisabled /\ ShutdownAgreement
  BY DEF SessionInv, Control, SelectNeverDisabled, AnswerInv
<1>2. ASSUME SessionInv, phase.name = "closed" PROVE ClosedIsQuiescent
  <2>1. closing /\ Stopped
    BY <1>2 DEF SessionInv, Control
  <2>2. active = NoTurn /\ completing = NoCompletion /\ pending = NoPending
    BY <1>2, <2>1 DEF SessionInv, Control, Stopped, InputInv
  <2>3. task = NoTurn /\ completion = NoCompletion
    BY <1>2, <2>2 DEF SessionInv, TurnInv, OneTurn
  <2>4. \A t \in started : terminal[t] # "none"
    BY <1>2, <2>2 DEF SessionInv, TurnInv, Current, NoCompletion
  <2>5. \A t \in Turns : input[t] # "requested"
    BY <1>2, <2>2 DEF SessionInv, InputInv, NoPending, Turns, NoTurn
  <2> QED
    BY <2>2, <2>3, <2>4, <2>5 DEF ClosedIsQuiescent
<1>3. SessionInv => ShutdownSound
  BY <1>1, <1>2 DEF ShutdownSound, ClosedIsQuiescent
<1> QED
  BY <1>3, SessionInvariant, PTL

\* An acknowledged stop decides the terminal event of its turn.
THEOREM StopsWin == Spec => []StopWins
<1>1. SessionInv => StopWins
  BY DEF SessionInv, StopInv
<1> QED
  BY <1>1, SessionInvariant, PTL

\* Commands and the permits taken for commands never exceed the channel.
THEOREM PermitsSuffice == Spec => [](Permits \in 0..QueueCapacity)
<1>1. ASSUME SessionInv PROVE Permits \in 0..QueueCapacity
  <2>1. Len(queue) \in Nat /\ Cardinality(Pushing) \in Nat
    BY <1>1, FS_CardinalityType DEF SessionInv, TypeOK, RoomKept
  <2>2. Permits = QueueCapacity - Len(queue) - Cardinality(Pushing)
    BY DEF Permits, Pushing
  <2> QED
    BY <1>1, <2>1, <2>2, QueueAssumption DEF SessionInv, RoomKept
<1> QED
  BY <1>1, SessionInvariant, PTL
-----------------------------------------------------------------------------
(* What a step may do to what was published of the turns.                  *)

\* What callers, and refused or queued commands, leave of the turns' history.
LEMMA TurnsUntouched ==
    ASSUME [Next]_vars,
           ~ \E c \in Clients : StartTurn(c) \/ StopPending(c) \/ StopActive(c) \/ Shutdown(c),
           ~ HandlesGone, ~ CompleteTurn, ~ PublishTerminal, ~ FinishShutdown
    PROVE  UNCHANGED <<started, terminal, input, stopAck, closing, phase>>
<1>1. ASSUME NEW c \in Clients,
             \/ Request(c) \/ CallShutdown(c) \/ SendShutdown(c) \/ Push(c) \/ Return(c)
             \/ CheckClosing(c) \/ SendFailed(c) \/ ShutdownReply(c) \/ WaitClosed(c)
      PROVE  UNCHANGED <<started, terminal, input, stopAck, closing, phase>>
  BY <1>1 DEF Request, CallShutdown, SendShutdown, Push, Return, CheckClosing, SendFailed,
              ShutdownReply, WaitClosed, actorVars, handleVars, history
<1>2. ASSUME NEW c \in Clients, RejectTurn(c) \/ RejectStop(c) \/ Consult(c)
      PROVE  UNCHANGED <<started, terminal, input, stopAck, closing, phase>>
  BY <1>2 DEF RejectTurn, RejectStop, Consult, actorVars, history
<1>3. CASE Drain
  BY <1>3 DEF Drain, history
<1>4. CASE SendReceipts
  BY <1>4 DEF SendReceipts, history
<1>5. CASE TurnReturns
  BY <1>5 DEF TurnReturns, actorVars, handleVars, history
<1>6. CASE DropHandles
  BY <1>6 DEF DropHandles, actorVars, history
<1>7. CASE UNCHANGED vars
  BY <1>7 DEF vars, actorVars, handleVars, history
<1> QED
  BY <1>1, <1>2, <1>3, <1>4, <1>5, <1>6, <1>7 DEF Next, Actor, Handle, Caller

\* begin_shutdown resolves the interaction that was requested, and no other.
LEMMA ShutdownResolves ==
    ASSUME SessionInv, at = "select", BeginShutdown
    PROVE  \A t \in Turns : input'[t] # input[t] => input[t] = "requested"
BY DEF BeginShutdown, SessionInv, InputInv, TypeOK

\* A terminal event is published once, for a turn that was started; an
\* interaction is requested in its turn and resolved once.
THEOREM PublishedOnce == Spec => Once
<1> DEFINE Step == \A t \in Turns :
          /\ terminal'[t] # terminal[t] => terminal[t] = "none" /\ t \in started
          /\ input'[t] # input[t] =>
                IF input[t] = "none" THEN t \in started ELSE input[t] = "requested"
<1>1. ASSUME SessionInv, [Next]_vars PROVE Step \/ UNCHANGED vars
  <2>1. ASSUME NEW c \in Clients, StartTurn(c) PROVE Step
    <3>1. terminal' = terminal
      BY <2>1 DEF StartTurn
    <3>2. \A t \in Turns : input'[t] # input[t] => input[t] = "requested"
      BY <1>1, <2>1 DEF StartTurn, SessionInv, InputInv, TypeOK
    <3> QED
      BY <3>1, <3>2
  <2>2. ASSUME NEW c \in Clients, StopPending(c) PROVE Step
    <3>1. terminal' = terminal
      BY <2>2 DEF StopPending
    <3>2. \A t \in Turns : input'[t] # input[t] => input[t] = "requested"
      BY <1>1, <2>2 DEF StopPending, SessionInv, InputInv, TypeOK
    <3> QED
      BY <3>1, <3>2
  <2>3. ASSUME NEW c \in Clients, StopActive(c) PROVE Step
    BY <2>3 DEF StopActive
  <2>4. ASSUME NEW c \in Clients, Shutdown(c) PROVE Step
    BY <1>1, <2>4, ShutdownResolves DEF Shutdown, Receive
  <2>5. CASE HandlesGone
    BY <1>1, <2>5, ShutdownResolves DEF HandlesGone
  <2>6. CASE CompleteTurn
    <3>1. terminal' = terminal /\ \A t \in Turns : input'[t] # input[t] => t = active
      BY <1>1, <2>6 DEF CompleteTurn, SessionInv, TypeOK
    <3>2. active \in started /\ input[active] = "none"
      BY <1>1, <2>6 DEF CompleteTurn, SessionInv, TurnInv
    <3> QED
      BY <3>1, <3>2
  <2>7. CASE PublishTerminal
    <3>1. input' = input /\ \A t \in Turns : terminal'[t] # terminal[t] => t = completing.turn
      BY <1>1, <2>7 DEF PublishTerminal, SessionInv, TypeOK
    <3>2. completing.turn \in started /\ terminal[completing.turn] = "none"
      BY <1>1, <2>7 DEF PublishTerminal, SessionInv, TurnInv, Control, Current
    <3> QED
      BY <3>1, <3>2
  <2>8. CASE FinishShutdown
    BY <2>8 DEF FinishShutdown, history
  <2> QED
    BY <1>1, <2>1, <2>2, <2>3, <2>4, <2>5, <2>6, <2>7, <2>8, TurnsUntouched
<1>2. SessionInv /\ [Next]_vars => [Step]_vars
  BY <1>1
<1> QED
  BY <1>2, SessionInvariant, PTL DEF Spec, Once

-----------------------------------------------------------------------------
(* The contract for turns.                                                 *)

Mode == IF phase.name = "closed" THEN "closed" ELSE IF closing THEN "closing" ELSE "open"
StatusOf(t) == IF terminal[t] # "none" THEN terminal[t]
               ELSE IF t \in started THEN "running" ELSE "new"
Status == [t \in Turns |-> StatusOf(t)]

\* What the contract lets a turn end as.
LEMMA EndsAre ==
    ASSUME NEW t \in Turns
    PROVE  /\ stopAck[t] = "cancel" => Contract!PossibleEnds(t) = {"cancelled"}
           /\ stopAck[t] = "interrupt" => Contract!PossibleEnds(t) = {"interrupted"}
           /\ stopAck[t] = "none" /\ Mode = "closing" => Contract!PossibleEnds(t) = {"cancelled"}
           /\ stopAck[t] = "none" /\ Mode # "closing" =>
                 Contract!PossibleEnds(t) = {"completed", "awaiting_input", "failed"}
<1>1. ASSUME stopAck[t] = "cancel", stopAck[t] # "interrupt", stopAck[t] # "none"
      PROVE  Contract!PossibleEnds(t) = {"cancelled"}
  BY <1>1, Zenon DEF Contract!PossibleEnds
<1>2. ASSUME stopAck[t] = "interrupt", stopAck[t] # "cancel", stopAck[t] # "none"
      PROVE  Contract!PossibleEnds(t) = {"interrupted"}
  BY <1>2, Zenon DEF Contract!PossibleEnds
<1>3. ASSUME stopAck[t] = "none", stopAck[t] # "cancel", stopAck[t] # "interrupt", Mode = "closing"
      PROVE  Contract!PossibleEnds(t) = {"cancelled"}
  BY <1>3, Zenon DEF Contract!PossibleEnds, Mode
<1>4. ASSUME stopAck[t] # "cancel", stopAck[t] # "interrupt", Mode # "closing"
      PROVE  Contract!PossibleEnds(t) = {"completed", "awaiting_input", "failed"}
  BY <1>4, Zenon DEF Contract!PossibleEnds, Mode
<1> QED
  BY <1>1, <1>2, <1>3, <1>4
\* The contract's view of a session, by the names above.
LEMMA ContractIs ==
    /\ Contract!Init <=> /\ Mode = "open" /\ Status = [t \in Turns |-> "new"]
                         /\ stopAck = [t \in Turns |-> "none"]
    /\ Contract!NothingRuns <=> \A t \in Turns : Status[t] # "running"
    /\ \A t \in Turns : Contract!Begin(t) <=>
          /\ Mode = "open" /\ Contract!NothingRuns /\ Status[t] = "new"
          /\ Status' = [Status EXCEPT ![t] = "running"] /\ Mode' = Mode /\ stopAck' = stopAck
    /\ \A t \in Turns, k \in StopKinds : Contract!Stop(t, k) <=>
          /\ Mode = "open" /\ Status[t] = "running" /\ stopAck[t] = "none"
          /\ stopAck' = [stopAck EXCEPT ![t] = k] /\ Mode' = Mode /\ Status' = Status
    /\ \A t \in Turns : Contract!End(t) <=>
          /\ Status[t] = "running"
          /\ \E e \in Contract!PossibleEnds(t) : Status' = [Status EXCEPT ![t] = e]
          /\ Mode' = Mode /\ stopAck' = stopAck
    /\ Contract!Close <=> Mode = "open" /\ Mode' = "closing" /\ Status' = Status /\ stopAck' = stopAck
    /\ Contract!Closed <=> /\ Mode = "closing" /\ Contract!NothingRuns /\ Mode' = "closed"
                           /\ Status' = Status /\ stopAck' = stopAck
    /\ UNCHANGED Contract!vars <=> Mode' = Mode /\ Status' = Status /\ stopAck' = stopAck
<1>1. /\ Contract!Init <=> /\ Mode = "open" /\ Status = [t \in Turns |-> "new"]
                           /\ stopAck = [t \in Turns |-> "none"]
      /\ Contract!NothingRuns <=> \A t \in Turns : Status[t] # "running"
  BY DEF Contract!Init, Contract!NothingRuns, Mode, Status, StatusOf
<1>2. \A t \in Turns : Contract!Begin(t) <=>
          /\ Mode = "open" /\ Contract!NothingRuns /\ Status[t] = "new"
          /\ Status' = [Status EXCEPT ![t] = "running"] /\ Mode' = Mode /\ stopAck' = stopAck
  BY Zenon DEF Contract!Begin, Mode, Status, StatusOf
<1>3. \A t \in Turns, k \in StopKinds : Contract!Stop(t, k) <=>
          /\ Mode = "open" /\ Status[t] = "running" /\ stopAck[t] = "none"
          /\ stopAck' = [stopAck EXCEPT ![t] = k] /\ Mode' = Mode /\ Status' = Status
  BY Zenon DEF Contract!Stop, Mode, Status, StatusOf
<1>4. \A t \in Turns : Contract!End(t) <=>
          /\ Status[t] = "running"
          /\ \E e \in Contract!PossibleEnds(t) : Status' = [Status EXCEPT ![t] = e]
          /\ Mode' = Mode /\ stopAck' = stopAck
  BY Zenon DEF Contract!End, Mode, Status, StatusOf
<1>5. /\ Contract!Close <=> Mode = "open" /\ Mode' = "closing" /\ Status' = Status /\ stopAck' = stopAck
      /\ Contract!Closed <=> /\ Mode = "closing" /\ Contract!NothingRuns /\ Mode' = "closed"
                             /\ Status' = Status /\ stopAck' = stopAck
      /\ UNCHANGED Contract!vars <=> Mode' = Mode /\ Status' = Status /\ stopAck' = stopAck
  BY DEF Contract!Close, Contract!Closed, Contract!vars, Mode, Status, StatusOf
<1> QED
  BY <1>1, <1>2, <1>3, <1>4, <1>5

\* A turn runs, for the contract, while it is the current one; it is new until
\* it is started.
LEMMA StatusIs ==
    ASSUME SessionInv, NEW t \in Turns
    PROVE  /\ Status[t] = "running" <=> Current(t)
           /\ Status[t] = "new" <=> t \notin started
           /\ Mode = "open" <=> ~closing
           /\ closing => Mode = IF Stopped THEN "closed" ELSE "closing"
<1>1. terminal[t] \in Terminals \cup {"none"} /\ "running" \notin Terminals /\ "new" \notin Terminals
  BY DEF SessionInv, TypeOK, Terminals
<1>2. /\ t \in started => (terminal[t] = "none" <=> Current(t))
      /\ Current(t) => t \in started
      /\ t \notin started => terminal[t] = "none"
  BY DEF SessionInv, TurnInv, Current
<1>3. Status[t] = StatusOf(t)
  BY DEF Status
<1>4. (Mode = "open" <=> ~closing) /\ (closing => Mode = IF Stopped THEN "closed" ELSE "closing")
  BY DEF SessionInv, Control, Mode
<1> QED
  BY <1>1, <1>2, <1>3, <1>4 DEF StatusOf

\* Steps that leave the history of turns alone leave the contract alone.
LEMMA ContractStutters ==
    ASSUME UNCHANGED <<started, terminal, stopAck, closing>>,
           phase'.name = "closed" <=> phase.name = "closed"
    PROVE  UNCHANGED Contract!vars
<1>1. Mode' = Mode
  BY DEF Mode
<1>2. Status' = Status
  BY DEF Status, StatusOf
<1> QED
  BY <1>1, <1>2, ContractIs

\* Admitting a turn begins it.
LEMMA StartBegins ==
    ASSUME SessionInv, SessionInv', NEW c \in Clients, StartTurn(c)
    PROVE  Contract!Next
<1> DEFINE t == call[c].turn
<1>1. /\ at = "select" /\ ~closing /\ active = NoTurn /\ Receive(c, "start") /\ call[c].op = "start"
      /\ started' = started \cup {t} /\ UNCHANGED <<closing, terminal, stopAck>>
  BY DEF StartTurn, Receive, Admissible, RequireIdle
<1>2. t \in Turns /\ t \notin started /\ terminal[t] = "none"
  BY <1>1, Received, CallTurns DEF SessionInv, Fresh, TurnInv
<1>3. Mode = "open" /\ Mode' = "open"
  BY <1>1, <1>2, StatusIs DEF SessionInv, Control, Mode
<1>4. \A u \in Turns : Status[u] # "running"
  BY <1>1, BetweenTurns, StatusIs DEF Current, NoCompletion
<1>5. Status[t] = "new"
  BY <1>2, StatusIs
<1> HIDE DEF t
<1>6. Status' = [Status EXCEPT ![t] = "running"]
  BY <1>1, <1>2 DEF Status, StatusOf
<1>7. ASSUME NEW u \in Turns, u = t PROVE Contract!Begin(u)
  BY <1>1, <1>3, <1>4, <1>5, <1>6, <1>7, ContractIs
<1> QED
  BY <1>2, <1>7 DEF Contract!Next

\* Acknowledging a stop is accepting it, unless it repeats the accepted one.
LEMMA StopAccepted ==
    ASSUME SessionInv, SessionInv', NEW c \in Clients, StopActive(c)
    PROVE  Contract!Next \/ UNCHANGED Contract!vars
<1>1. /\ at = "select" /\ ~closing /\ active # NoTurn /\ stopKind \in {"none", call[c].arg}
      /\ call[c].op = "stop" /\ stopAck' = [stopAck EXCEPT ![active] = call[c].arg]
      /\ UNCHANGED <<closing, started, terminal>>
  BY DEF StopActive, Receive
<1>2. active \in Turns /\ Current(active) /\ call[c].arg \in StopKinds
  BY <1>1, CallTurns DEF SessionInv, TypeOK, Current
<1>3. stopAck[active] = stopKind
  BY <1>1, <1>2 DEF SessionInv, StopInv
<1>4. Mode = "open" /\ Mode' = "open"
  BY <1>1 DEF SessionInv, Control, Mode
<1>5. Status' = Status /\ Status[active] = "running"
  BY <1>1, <1>2, StatusIs DEF Status, StatusOf
<1>6. CASE stopKind = "none"
  <2>1. Contract!Stop(active, call[c].arg)
    BY <1>1, <1>2, <1>3, <1>4, <1>5, <1>6, ContractIs
  <2> QED
    BY <1>2, <2>1 DEF Contract!Next, StopKinds
<1>7. CASE stopKind # "none"
  <2>1. stopAck' = stopAck
    BY <1>1, <1>2, <1>3, <1>7 DEF SessionInv, TypeOK
  <2> QED
    BY <1>4, <1>5, <2>1, ContractIs
<1> QED
  BY <1>6, <1>7

\* Closing is published while the session may still execute its turn.
LEMMA ShutdownCloses ==
    ASSUME SessionInv, SessionInv', at = "select", ~closing, closing', at' \in {"select", "drain", "finish"},
           UNCHANGED <<started, terminal, stopAck>>
    PROVE  Contract!Next
<1>1. Mode = "open" /\ Mode' = "closing"
  BY DEF SessionInv, Control, Mode, Stopped
<1>2. Status' = Status
  BY DEF Status, StatusOf
<1>3. Contract!Close
  BY <1>1, <1>2, ContractIs
<1> QED
  BY <1>3 DEF Contract!Next

\* A turn ends in one of the ways its accepted stop and the session's mode allow.
LEMMA TerminalEnds ==
    ASSUME SessionInv, SessionInv', PublishTerminal
    PROVE  Contract!Next
<1> DEFINE t == completing.turn
           e == TerminalOf(completing.result)
<1>1. /\ at = "after_turn" /\ terminal' = [terminal EXCEPT ![t] = e]
      /\ UNCHANGED <<closing, started, stopAck>>
  BY DEF PublishTerminal
<1>2. t \in Turns /\ t \in started /\ Current(t)
  BY <1>1 DEF SessionInv, Control, TurnInv, TypeOK, Current
<1>3. /\ cancelled => e = StopResult
      /\ ~cancelled => e \in {"failed", "completed", "awaiting_input"}
      /\ e \in Terminals
  BY TerminalIs
<1> HIDE DEF t, e
<1>4. Mode' = Mode /\ Mode \in {"open", "closing"} /\ (Mode = "closing" <=> closing)
  BY <1>1 DEF SessionInv, Control, Stopped, Mode, PublishTerminal, Idle
<1>5. Status[t] = "running"
  BY <1>2, StatusIs
<1>6. Status' = [Status EXCEPT ![t] = e]
  BY <1>1, <1>2, <1>3 DEF Status, StatusOf, SessionInv, TypeOK, Terminals
<1>7. e \in Contract!PossibleEnds(t)
  <2>1. /\ stopAck[t] = stopKind \/ (stopAck[t] = "none" /\ closing /\ stopKind = "cancel")
        /\ cancelled <=> stopKind # "none"
        /\ closing => cancelled
        /\ stopKind \in {"none", "cancel", "interrupt"}
    BY <1>1, <1>2 DEF SessionInv, StopInv, TypeOK, StopKinds
  <2>2. /\ stopKind = "cancel" => e = "cancelled"
        /\ stopKind = "interrupt" => e = "interrupted"
    BY <1>3, <2>1 DEF StopResult
  <2>3. CASE stopKind = "none"
    BY <1>2, <1>3, <1>4, <2>1, <2>3, EndsAre
  <2>4. CASE stopKind = "cancel"
    BY <1>2, <1>4, <2>1, <2>2, <2>4, EndsAre
  <2>5. CASE stopKind = "interrupt"
    BY <1>2, <2>1, <2>2, <2>5, EndsAre
  <2> QED
    BY <2>1, <2>3, <2>4, <2>5
<1>8. ASSUME NEW u \in Turns, u = t PROVE Contract!End(u)
  <2>1. e \in Contract!PossibleEnds(u) /\ Status[u] = "running" /\ Status' = [Status EXCEPT ![u] = e]
    BY <1>5, <1>6, <1>7, <1>8
  <2> QED
    BY <1>1, <1>4, <2>1, ContractIs
<1> QED
  BY <1>2, <1>8 DEF Contract!Next

\* Closed is published when nothing runs.
LEMMA FinishCloses ==
    ASSUME SessionInv, SessionInv', FinishShutdown
    PROVE  Contract!Next
<1>1. /\ at = "finish" /\ at' = "receipts" /\ UNCHANGED <<closing, started, terminal, stopAck>>
  BY DEF FinishShutdown, history
<1>2. Mode = "closing" /\ Mode' = "closed"
  BY <1>1 DEF SessionInv, Control, Stopped, Mode
<1>3. \A u \in Turns : Status[u] # "running"
  BY <1>1, StatusIs DEF SessionInv, Control, Current, NoCompletion
<1>4. Status' = Status
  BY <1>1 DEF Status, StatusOf
<1>5. Contract!Closed
  BY <1>1, <1>2, <1>3, <1>4, ContractIs
<1> QED
  BY <1>5 DEF Contract!Next

\* The session keeps the contract for turns: each of its steps is a step of the
\* contract, or nothing the contract speaks of.
THEOREM ContractKept == Spec => ImplementsContract
<1>1. Init => Contract!Init
  BY ContractIs DEF Init, Mode, Status, StatusOf, Idle
<1>2. ASSUME SessionInv, SessionInv', [Next]_vars
      PROVE  Contract!Next \/ UNCHANGED Contract!vars
  <2>1. ASSUME NEW c \in Clients, StartTurn(c) PROVE Contract!Next
    BY <1>2, <2>1, StartBegins
  <2>2. ASSUME NEW c \in Clients, StopPending(c) PROVE UNCHANGED Contract!vars
    BY <1>2, <2>2, ContractStutters DEF StopPending, Receive, SessionInv, Control, Idle
  <2>3. ASSUME NEW c \in Clients, StopActive(c) PROVE Contract!Next \/ UNCHANGED Contract!vars
    BY <1>2, <2>3, StopAccepted
  <2>4. ASSUME NEW c \in Clients, Shutdown(c) PROVE Contract!Next
    <3>1. closing'
      BY <2>4 DEF Shutdown, BeginShutdown
    <3> QED
      BY <1>2, <2>4, <3>1, ShutdownCloses DEF Shutdown, Receive
  <2>5. CASE HandlesGone
    <3>1. closing'
      BY <2>5 DEF HandlesGone, BeginShutdown
    <3> QED
      BY <1>2, <2>5, <3>1, ShutdownCloses DEF HandlesGone
  <2>6. CASE CompleteTurn
    BY <2>6, ContractStutters DEF CompleteTurn, handleVars
  <2>7. CASE PublishTerminal
    BY <1>2, <2>7, TerminalEnds
  <2>8. CASE FinishShutdown
    BY <1>2, <2>8, FinishCloses
  <2> QED
    BY <1>2, <2>1, <2>2, <2>3, <2>4, <2>5, <2>6, <2>7, <2>8, TurnsUntouched, ContractStutters
<1>3. SessionInv /\ SessionInv' /\ [Next]_vars => [Contract!Next]_Contract!vars
  BY <1>2
<1> QED
  BY <1>1, <1>3, SessionInvariant, PTL DEF Spec, ImplementsContract, Contract!Spec

=============================================================================
