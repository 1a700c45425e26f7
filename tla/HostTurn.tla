------------------------------ MODULE HostTurn ------------------------------
(***************************************************************************)
(* The turns of one host session: HostTurn (rara-runtime) implements the    *)
(* effects, execute_loop (rara-agent) drives a LoopMachine through them,    *)
(* and the transcript survives from one turn to the next whether the turn   *)
(* completes, fails or is cancelled.                                        *)
(*                                                                         *)
(* An effect is one step, except that model requests and tool calls take a  *)
(* step to begin and a step to return, so that a cancellation can fall in   *)
(* between.                                                                 *)
(***************************************************************************)
EXTENDS LoopMachine, ToolHistory

CONSTANTS
    MaxCalls,    \* bound: tool calls in one response
    MaxPrompts,  \* bound: turns of the session
    Replacements \* transcripts a client may install while the session is idle

ASSUME BoundAssumption == MaxCalls \in Nat /\ MaxPrompts \in Nat
ASSUME ReplacementAssumption == Replacements \subseteq Seq(Message)

VARIABLES
    running,    \* is a turn executing?
    cancelled,  \* the turn's cancellation flag
    transcript,
    assistant,  \* HostTurn.assistant: a sequence of at most one message
    calls,      \* tool calls still to be executed
    waiting,    \* is a model request or a tool invocation under way?
    prompts,    \* turns started so far
    replies     \* history: the tool replies recorded, oldest first

hostVars == <<running, cancelled, transcript, assistant, calls, waiting,
              prompts, replies>>
allVars == <<vars, hostVars>>

\* No turn has run yet.
HostStateInit ==
    /\ running = FALSE
    /\ cancelled = FALSE
    /\ transcript = <<>>
    /\ assistant = <<>>
    /\ calls = <<>>
    /\ waiting = FALSE
    /\ prompts = 0
    /\ replies = <<>>
HostInit == Init /\ start = 0 /\ HostStateInit

\* A transition the machine refuses ends execute_loop with its error.
Continues == running' = (result' = "ok")

\* The turn returns an error; the driver takes its state back as it is.
Fail ==
    /\ running' = FALSE
    /\ assistant' = <<>>
    /\ calls' = <<>>
    /\ waiting' = FALSE
    /\ UNCHANGED <<vars, cancelled, transcript, prompts, replies>>

-----------------------------------------------------------------------------
(* The session between turns *)

ReplaceTranscript(t) ==
    /\ ~running
    /\ transcript' = t
    /\ replies' = RecordedAnswers(t)
    /\ UNCHANGED <<vars, running, cancelled, assistant, calls, waiting, prompts>>

\* Mutant of StartTurn: the transcript is sent as the last turn left it.
StartTurnUnrepaired(limit) ==
    /\ ~running
    /\ prompts < MaxPrompts
    /\ running' = TRUE
    /\ cancelled' = FALSE
    /\ transcript' = Append(transcript, UserText)
    /\ assistant' = <<>>
    /\ calls' = <<>>
    /\ waiting' = FALSE
    /\ prompts' = prompts + 1
    /\ phase' = "Ready" /\ obs' = NoObservation /\ end' = "none" /\ effect_id' = 0
    /\ turns' = 0 /\ repairs' = 0 /\ hooks' = 0 /\ result' = "ok" /\ start' = 0
    /\ maxTurns' = limit /\ issued' = <<>> /\ acked' = <<>>
    /\ UNCHANGED replies

\* begin_turn and the first part of run: repair, prompt, a new machine.
StartTurn(limit) ==
    /\ ~running
    /\ prompts < MaxPrompts
    /\ running' = TRUE
    /\ cancelled' = FALSE
    /\ transcript' = Append(RepairToolResultHistory(transcript), UserText)
    /\ assistant' = <<>>
    /\ calls' = <<>>
    /\ waiting' = FALSE
    /\ prompts' = prompts + 1
    /\ phase' = "Ready" /\ obs' = NoObservation /\ end' = "none" /\ effect_id' = 0
    /\ turns' = 0 /\ repairs' = 0 /\ hooks' = 0 /\ result' = "ok" /\ start' = 0
    /\ maxTurns' = limit /\ issued' = <<>> /\ acked' = <<>>
    /\ UNCHANGED replies

Cancel ==
    /\ running
    /\ cancelled' = TRUE
    /\ UNCHANGED <<vars, running, transcript, assistant, calls, waiting, prompts,
                   replies>>

-----------------------------------------------------------------------------
(* The effects, each with the acknowledgement execute_loop makes of it *)

EnterLoop ==
    /\ running
    /\ phase = "Ready"
    /\ BeginIteration(FALSE)
    /\ UNCHANGED hostVars

DispatchModel ==
    /\ running /\ phase = "ModelPending" /\ ~waiting
    /\ ~cancelled
    /\ waiting' = TRUE
    /\ UNCHANGED <<vars, running, cancelled, transcript, assistant, calls, prompts,
                   replies>>

\* Mutant of RefuseModel: the cancelled turn keeps asking instead of failing.
RefuseModelAgain ==
    /\ running /\ phase = "ModelPending" /\ ~waiting
    /\ cancelled
    /\ UNCHANGED allVars

\* The request of a cancelled turn is not sent.
RefuseModel ==
    /\ running /\ phase = "ModelPending" /\ ~waiting
    /\ cancelled
    /\ Fail

ModelFails == running /\ phase = "ModelPending" /\ waiting /\ Fail

\* The message collected from a response, if it has visible content.
CollectedMessage(ids, text) ==
    IF text \/ ids # <<>> THEN <<Assistant(ids)>> ELSE <<>>

\* Cancellation is cooperative: the backend may still answer after it.
ModelResponds(ids, text, reasoning) ==
    /\ running /\ phase = "ModelPending" /\ waiting
    /\ ModelCompleted(effect_id, [NoObservation EXCEPT !.tools = ids # <<>>,
                                                       !.text = text,
                                                       !.reasoning = reasoning])
    /\ assistant' = CollectedMessage(ids, text)
    /\ calls' = ids
    /\ waiting' = FALSE
    /\ Continues
    /\ UNCHANGED <<cancelled, transcript, prompts, replies>>

RecordAssistant ==
    /\ running
    /\ phase = "AssistantPending"
    /\ AssistantRecorded(effect_id, NoContext)
    /\ transcript' = transcript \o assistant
    /\ assistant' = <<>>
    /\ Continues
    /\ UNCHANGED <<cancelled, calls, waiting, prompts, replies>>

ContinueTurn ==
    /\ running
    /\ phase = "ContinuationPending"
    /\ CheckpointCompleted(effect_id, FALSE)
    /\ transcript' = Append(transcript, UserText)
    /\ Continues
    /\ UNCHANGED <<cancelled, assistant, calls, waiting, prompts, replies>>

RunStopHooks ==
    /\ running
    /\ phase = "StopHooksPending"
    /\ StopHooksCompleted(effect_id, "AllowCompletion")
    /\ Continues
    /\ UNCHANGED <<cancelled, transcript, assistant, calls, waiting, prompts, replies>>

\* Commit a completed reply before another call can fail or suspend.
RecordReply(id) ==
    /\ transcript' = Append(transcript, ResultMessage(<<RealResult(id)>>))
    /\ replies' = Append(replies, RealResult(id))

\* prepare_call of a cancelled turn: the rest of the batch is abandoned.
PrepareCancelled ==
    /\ running /\ phase = "ToolsPending" /\ calls # <<>> /\ ~waiting
    /\ cancelled
    /\ Fail

\* prepare_call of a tool the session does not have.
PrepareUnknown ==
    /\ running /\ phase = "ToolsPending" /\ calls # <<>> /\ ~waiting
    /\ ~cancelled
    /\ RecordReply(calls[1])
    /\ calls' = Tail(calls)
    /\ UNCHANGED <<vars, running, cancelled, assistant, waiting, prompts>>

Prepare ==
    /\ running /\ phase = "ToolsPending" /\ calls # <<>> /\ ~waiting
    /\ ~cancelled
    /\ waiting' = TRUE
    /\ UNCHANGED <<vars, running, cancelled, transcript, assistant, calls, prompts,
                   replies>>

\* Mutant of CompleteCall: the reply of a tool that ran is dropped by a cancellation.
CompleteCallUnlessCancelled ==
    /\ running /\ phase = "ToolsPending" /\ waiting
    /\ IF cancelled THEN UNCHANGED transcript /\ replies' = Append(replies, RealResult(calls[1]))
       ELSE RecordReply(calls[1])
    /\ calls' = Tail(calls)
    /\ waiting' = FALSE
    /\ UNCHANGED <<vars, running, cancelled, assistant, prompts>>

\* The tool returns, with a value or an error: both become a reply.
CompleteCall ==
    /\ running /\ phase = "ToolsPending" /\ waiting
    /\ RecordReply(calls[1])
    /\ calls' = Tail(calls)
    /\ waiting' = FALSE
    /\ UNCHANGED <<vars, running, cancelled, assistant, prompts>>

BatchDone ==
    /\ running /\ phase = "ToolsPending" /\ calls = <<>>
    /\ ToolsCompleted(effect_id, "ResultsAvailable")
    /\ Continues
    /\ UNCHANGED <<cancelled, transcript, assistant, calls, waiting, prompts, replies>>

CommitToolResults ==
    /\ running
    /\ phase = "ToolResultsPending"
    /\ CheckpointCompleted(effect_id, FALSE)
    /\ Continues
    /\ UNCHANGED <<cancelled, transcript, assistant, calls, waiting, prompts, replies>>

\* The ends this host supports.  Its observations provoke none of the others,
\* for which finalize_turn fails.
FinalizeTurn ==
    /\ running
    /\ phase = "Finalizing"
    /\ end \in {"ResponseComplete", "MaxTurnsReached"}
    /\ FinalizationCompleted(effect_id)
    /\ running' = FALSE
    /\ UNCHANGED <<cancelled, transcript, assistant, calls, waiting, prompts, replies>>

TurnStep ==
    \/ EnterLoop
    \/ DispatchModel \/ RefuseModel \/ ModelFails
    \/ \E ids \in BoundedSeq(Ids, MaxCalls), text, reasoning \in BOOLEAN :
           ModelResponds(ids, text, reasoning)
    \/ RecordAssistant \/ ContinueTurn \/ RunStopHooks
    \/ PrepareCancelled \/ PrepareUnknown \/ Prepare \/ CompleteCall \/ BatchDone
    \/ CommitToolResults
    \/ FinalizeTurn

HostNext ==
    \/ \E t \in Replacements : ReplaceTranscript(t)
    \/ \E limit \in TurnLimits : StartTurn(limit)
    \/ Cancel
    \/ TurnStep

HostSpec == HostInit /\ [][HostNext]_allVars

\* Models and tools return: the loop itself adds no timeout.
FairHostSpec == HostSpec /\ WF_allVars(TurnStep)

-----------------------------------------------------------------------------
(* Properties *)

\* Every request sent to the model answers each recorded tool call exactly
\* once, directly after the message that made it, although earlier turns were
\* cancelled in the middle of a batch, failed, or were replaced by a client's
\* transcript (repair_tool_result_history at the start of run, record_reply).
RequestsPaired ==
    running /\ phase = "ModelPending" => WellPaired(transcript)

\* No completed tool work is lost: at every moment the recorded results that
\* answer calls of the transcript are exactly the replies of the calls that
\* completed, in order; a repair neither drops nor repeats one, and a
\* cancelled turn keeps those that completed before it stopped.
RepliesKept ==
    RecordedAnswers(transcript) = replies

\* Whatever an interrupted turn left behind or a client installed, the repair
\* with which the next turn begins answers every tool call exactly once, right
\* after it, keeps what was recorded for a call, and changes nothing in a
\* transcript that is in order, its own result among them.
RepairIsReference ==
    LET repaired == RepairToolResultHistory(transcript)
    IN  ~running =>
          /\ WellPaired(repaired)
          /\ RecordedAnswers(repaired) = RecordedAnswers(transcript)
          /\ RepairToolResultHistory(repaired) = repaired
          /\ WellPaired(transcript) => repaired = transcript

\* A turn with a limit ends, in success or failure, if its model and tools
\* return; a model that only reasons cannot keep it going for ever.
TurnEnds == (running /\ maxTurns # NoLimit) ~> ~running
=============================================================================
