----------------------------- MODULE LoopMachine -----------------------------
(***************************************************************************)
(* The control state of one entry into the shared agent loop               *)
(* (rara-agent, machine.rs), driven by an arbitrary host.                   *)
(*                                                                         *)
(* The host keeps every request it was ever given, so it can acknowledge    *)
(* the pending one, repeat an old receipt, or report the wrong kind of      *)
(* completion.  A call that the machine refuses returns an error and is a   *)
(* step here too: `result' holds what the last call returned.               *)
(*                                                                         *)
(* An effect is named by its most specific part: Continue(c) by the         *)
(* continuation c, Finalize(e) by the end e, and RunStopHooks with          *)
(* stop_hook_active set by "RunStopHooksActive".  Token counts matter only  *)
(* through whether the budget is exhausted when it is read.                 *)
(***************************************************************************)
EXTENDS Integers, Sequences, FiniteSets

CONSTANTS
    MaxPlanExitRepairs,        \* MAX_PLAN_EXIT_REPAIRS
    MaxStopHookContinuations,  \* MAX_STOP_HOOK_CONTINUATIONS
    CounterMax,                \* largest agentic turn count (usize::MAX)
    IdMax,                     \* largest effect identity (u64::MAX)
    TurnLimits                 \* the limits max_turns may have

NoLimit == -1

ASSUME RepairAssumption == MaxPlanExitRepairs \in Nat
ASSUME HookAssumption == MaxStopHookContinuations \in Nat
ASSUME CounterAssumption == CounterMax \in Nat
ASSUME IdAssumption == IdMax \in Nat \ {0}
ASSUME LimitAssumption == TurnLimits \subseteq Nat \cup {NoLimit}

VARIABLES
    phase,      \* the variant of State
    obs,        \* the observation AssistantPending carries
    end,        \* the LoopEnd Finalizing and Finished carry, or "none"
    effect_id,  \* identity of the last request
    turns,      \* progress.agentic_turns
    repairs,    \* plan_exit_repairs
    hooks,      \* stop_hook_continuations
    result,     \* what the last call returned: "ok" or an error
    start,      \* the progress the machine was created with
    maxTurns,   \* the max_turns of the host's budget, or NoLimit
    issued,     \* history: the effect requested under each identity
    acked       \* history: the receipts accepted, with their inputs

machine == <<phase, obs, end, effect_id, turns, repairs, hooks>>
history == <<issued, acked>>
vars == <<phase, obs, end, effect_id, turns, repairs, hooks, result, start,
          maxTurns, issued, acked>>

Phases == {"Ready", "ModelPending", "AssistantPending", "StopHooksPending",
           "ToolsPending", "ToolResultsPending", "ContinuationPending",
           "Finalizing", "Finished"}
Continuations == {"PlanExitRepair", "PlanNeedsEvidence", "PlanReasoningOnly",
                  "ExecuteNeedsInspection", "ExecuteReasoningOnly",
                  "StopHookBlocked"}
Ends == {"ResponseComplete", "StopHookLimitReached", "MaxTurnsReached",
         "TokenBudgetReached", "PlanExitRepairExhausted", "AwaitingApproval"}
HookEffects == {"RunStopHooks", "RunStopHooksActive"}
Effects == {"RequestModel", "RecordAssistant", "RunTools", "CommitToolResults"}
               \cup HookEffects \cup Continuations \cup Ends
Inputs == {"ModelCompleted", "AssistantRecorded", "StopHooksCompleted",
           "ToolsCompleted", "CheckpointCompleted", "FinalizationCompleted"}
Errors == {"WrongEffect", "WrongPhase", "CounterOverflow", "EffectCounterOverflow"}

Observation == [tools: BOOLEAN, plan_exit: BOOLEAN, plan_updated: BOOLEAN,
                malformed: BOOLEAN, inspect: BOOLEAN, text: BOOLEAN,
                reasoning: BOOLEAN]
\* The plan-exit call is one of the response's tool calls.
Observations == {o \in Observation : o.plan_exit => o.tools}
NoObservation == [tools |-> FALSE, plan_exit |-> FALSE, plan_updated |-> FALSE,
                  malformed |-> FALSE, inspect |-> FALSE, text |-> FALSE,
                  reasoning |-> FALSE]
\* plan_steps is told apart as none, one and several.
Contexts == [mode: {"Execute", "Plan", "Review"}, plan_steps: 0..2,
             any_evidence: BOOLEAN, minimum_evidence: BOOLEAN, pending: BOOLEAN]

Init ==
    /\ phase = "Ready"
    /\ obs = NoObservation
    /\ end = "none"
    /\ effect_id = 0
    /\ start \in 0..CounterMax
    /\ turns = start
    /\ repairs = 0
    /\ hooks = 0
    /\ result = "ok"
    /\ maxTurns \in TurnLimits
    /\ issued = <<>>
    /\ acked = <<>>

-----------------------------------------------------------------------------
(* Helpers shared by the transitions *)

\* Mutant of Checks: any receipt ever issued acknowledges the pending request.
ChecksPhaseOnly(receipt, phases) ==
    IF phase \notin phases THEN "WrongPhase"
    ELSE IF effect_id = IdMax THEN "EffectCounterOverflow"
    ELSE "ok"

\* require_effect, then require_phase, then next_effect_id.
Checks(receipt, phases) ==
    IF receipt # effect_id THEN "WrongEffect"
    ELSE IF phase \notin phases THEN "WrongPhase"
    ELSE IF effect_id = IdMax THEN "EffectCounterOverflow"
    ELSE "ok"

\* A call that returns an error before it assigns anything.
Refuse(error) ==
    /\ error # "ok"
    /\ result' = error
    /\ UNCHANGED <<machine, start, maxTurns, history>>

\* What an accepted receipt adds to the history.
Accept(receipt, input) ==
    /\ acked' = Append(acked, [id |-> receipt, input |-> input])
    /\ result' = "ok"
    /\ UNCHANGED <<start, maxTurns>>

Request(next, effect) ==
    /\ phase' = next
    /\ effect_id' = effect_id + 1
    /\ issued' = Append(issued, effect)

Finalize(e) ==
    /\ Request("Finalizing", e)
    /\ end' = e
    /\ UNCHANGED <<turns, repairs, hooks>>

\* Mutant of IncrementTurn: the counter saturates instead of failing.
IncrementTurnSaturating ==
    turns' = IF turns < CounterMax THEN turns + 1 ELSE turns

IncrementTurn == turns < CounterMax /\ turns' = turns + 1

\* A transition whose increment_turn fails.
Overflow == turns = CounterMax /\ Refuse("CounterOverflow")

MayRepairPlanExit == repairs < MaxPlanExitRepairs

MayBlockCompletion == hooks < MaxStopHookContinuations

ContinueWith(c) == Request("ContinuationPending", c) /\ UNCHANGED end

\* exhausted: has the token budget been used up when the host reads it?
NextIteration(exhausted) ==
    IF maxTurns # NoLimit /\ turns >= maxTurns THEN Finalize("MaxTurnsReached")
    ELSE IF exhausted THEN Finalize("TokenBudgetReached")
    ELSE /\ Request("ModelPending", "RequestModel")
         /\ UNCHANGED <<end, turns, repairs, hooks>>

InvalidPlanExit(o) == o.plan_exit /\ (o.malformed \/ ~o.plan_updated)

ReasoningOnly(o) == o.reasoning /\ ~o.text

\* The automatic continuation of a response without tool calls, or "none".
Continuation(o, ctx) ==
    LET shallow == o.plan_updated /\ turns = 0 /\ ctx.plan_steps <= 1
        missing == /\ turns > 0
                   /\ ~o.plan_updated
                   /\ ctx.any_evidence
                   /\ ~ctx.minimum_evidence
        wanted == o.inspect \/ shallow \/ missing \/ ReasoningOnly(o)
        grounded == \/ o.inspect \/ ctx.any_evidence \/ ctx.plan_steps > 0
                    \/ o.text \/ ReasoningOnly(o)
        automatic ==
            IF ctx.mode = "Plan" /\ wanted /\ grounded
                THEN IF ReasoningOnly(o) THEN "PlanReasoningOnly"
                     ELSE "PlanNeedsEvidence"
            ELSE IF ctx.mode = "Execute" /\ ReasoningOnly(o)
                THEN "ExecuteReasoningOnly"
            ELSE IF ctx.mode = "Execute" /\ o.inspect
                THEN "ExecuteNeedsInspection"
            ELSE "none"
    IN  IF ctx.pending THEN "none" ELSE automatic

StopHookEffect == IF hooks > 0 THEN "RunStopHooksActive" ELSE "RunStopHooks"

-----------------------------------------------------------------------------
(* The transitions, one per method of LoopMachine *)

\* A fresh machine's identity is 0, so next_effect_id cannot overflow here.
BeginIteration(exhausted) ==
    \/ phase # "Ready" /\ Refuse("WrongPhase")
    \/ /\ phase = "Ready"
       /\ NextIteration(exhausted)
       /\ result' = "ok"
       /\ UNCHANGED <<obs, start, maxTurns, acked>>

ModelCompleted(receipt, o) ==
    LET check == Checks(receipt, {"ModelPending"})
        accepted == check = "ok" /\ Accept(receipt, "ModelCompleted")
    IN  \/ Refuse(check)
        \/ /\ check = "ok"
           /\ InvalidPlanExit(o)
           /\ MayRepairPlanExit
           /\ Overflow
        \/ /\ accepted
           /\ InvalidPlanExit(o)
           /\ MayRepairPlanExit
           /\ IncrementTurn
           /\ repairs' = repairs + 1
           /\ ContinueWith("PlanExitRepair")
           /\ UNCHANGED <<obs, hooks>>
        \/ /\ accepted
           /\ InvalidPlanExit(o)
           /\ ~MayRepairPlanExit
           /\ Finalize("PlanExitRepairExhausted")
           /\ UNCHANGED obs
        \/ /\ accepted
           /\ ~InvalidPlanExit(o)
           /\ obs' = o
           /\ Request("AssistantPending", "RecordAssistant")
           /\ UNCHANGED <<end, turns, repairs, hooks>>

\* assistant_recorded computes the next identity before it looks at the state;
\* the call is refused either way.
AssistantRecorded(receipt, ctx) ==
    LET check == Checks(receipt, {"AssistantPending"})
        accepted == check = "ok" /\ Accept(receipt, "AssistantRecorded")
        continuation == Continuation(obs, ctx)
    IN  \/ /\ receipt = effect_id
           /\ effect_id = IdMax
           /\ Refuse("EffectCounterOverflow")
        \/ (receipt # effect_id \/ effect_id < IdMax) /\ Refuse(check)
        \/ check = "ok" /\ (obs.tools \/ continuation # "none") /\ Overflow
        \/ /\ accepted
           /\ obs.tools
           /\ IncrementTurn
           /\ Request("ToolsPending", "RunTools")
           /\ obs' = NoObservation
           /\ UNCHANGED <<end, repairs, hooks>>
        \/ /\ accepted
           /\ ~obs.tools
           /\ continuation # "none"
           /\ IncrementTurn
           /\ ContinueWith(continuation)
           /\ obs' = NoObservation
           /\ UNCHANGED <<repairs, hooks>>
        \/ /\ accepted
           /\ ~obs.tools
           /\ continuation = "none"
           /\ Request("StopHooksPending", StopHookEffect)
           /\ obs' = NoObservation
           /\ UNCHANGED <<end, turns, repairs, hooks>>

StopHooksCompleted(receipt, outcome) ==
    LET check == Checks(receipt, {"StopHooksPending"})
        accepted == check = "ok" /\ Accept(receipt, "StopHooksCompleted")
    IN  \/ Refuse(check)
        \/ /\ accepted
           /\ outcome = "AllowCompletion"
           /\ Finalize("ResponseComplete")
           /\ UNCHANGED obs
        \/ /\ check = "ok"
           /\ outcome = "BlockCompletion"
           /\ MayBlockCompletion
           /\ Overflow
        \/ /\ accepted
           /\ outcome = "BlockCompletion"
           /\ MayBlockCompletion
           /\ IncrementTurn
           /\ hooks' = hooks + 1
           /\ ContinueWith("StopHookBlocked")
           /\ UNCHANGED <<obs, repairs>>
        \/ /\ accepted
           /\ outcome = "BlockCompletion"
           /\ ~MayBlockCompletion
           /\ Finalize("StopHookLimitReached")
           /\ UNCHANGED obs

\* Mutant of ToolsCompleted: the model is asked again before the results are committed.
ToolsCompletedUncommitted(receipt, outcome) ==
    LET check == Checks(receipt, {"ToolsPending"})
    IN  \/ Refuse(check)
        \/ /\ check = "ok"
           /\ Accept(receipt, "ToolsCompleted")
           /\ IF outcome = "ResultsAvailable"
              THEN NextIteration(FALSE)
              ELSE Finalize("AwaitingApproval")
           /\ UNCHANGED obs

ToolsCompleted(receipt, outcome) ==
    LET check == Checks(receipt, {"ToolsPending"})
        accepted == check = "ok" /\ Accept(receipt, "ToolsCompleted")
    IN  \/ Refuse(check)
        \/ /\ accepted
           /\ outcome = "ResultsAvailable"
           /\ Request("ToolResultsPending", "CommitToolResults")
           /\ UNCHANGED <<obs, end, turns, repairs, hooks>>
        \/ /\ accepted
           /\ outcome = "AwaitingApproval"
           /\ Finalize("AwaitingApproval")
           /\ UNCHANGED obs

CheckpointCompleted(receipt, exhausted) ==
    LET check == Checks(receipt, {"ContinuationPending", "ToolResultsPending"})
    IN  \/ Refuse(check)
        \/ /\ check = "ok"
           /\ Accept(receipt, "CheckpointCompleted")
           /\ NextIteration(exhausted)
           /\ UNCHANGED obs

\* The last receipt stays the machine's identity: only the phase refuses a repeat.
FinalizationCompleted(receipt) ==
    \/ receipt # effect_id /\ Refuse("WrongEffect")
    \/ receipt = effect_id /\ phase # "Finalizing" /\ Refuse("WrongPhase")
    \/ /\ receipt = effect_id
       /\ phase = "Finalizing"
       /\ Accept(receipt, "FinalizationCompleted")
       /\ phase' = "Finished"
       /\ UNCHANGED <<obs, end, effect_id, turns, repairs, hooks, issued>>

NoContext == [mode |-> "Execute", plan_steps |-> 0, any_evidence |-> FALSE,
              minimum_evidence |-> FALSE, pending |-> FALSE]

\* A receipt of an older request, in any call; what else the call carries is
\* never looked at.
OldReceipt(r) ==
    \/ ModelCompleted(r, NoObservation)
    \/ AssistantRecorded(r, NoContext)
    \/ StopHooksCompleted(r, "AllowCompletion")
    \/ ToolsCompleted(r, "ResultsAvailable")
    \/ CheckpointCompleted(r, FALSE)
    \/ FinalizationCompleted(r)

\* The pending receipt, in any call.
PendingReceipt ==
    \/ \E o \in Observations : ModelCompleted(effect_id, o)
    \/ \E ctx \in Contexts : AssistantRecorded(effect_id, ctx)
    \/ \E outcome \in {"AllowCompletion", "BlockCompletion"} :
           StopHooksCompleted(effect_id, outcome)
    \/ \E outcome \in {"ResultsAvailable", "AwaitingApproval"} :
           ToolsCompleted(effect_id, outcome)
    \/ \E exhausted \in BOOLEAN : CheckpointCompleted(effect_id, exhausted)
    \/ FinalizationCompleted(effect_id)

Next ==
    \/ \E exhausted \in BOOLEAN : BeginIteration(exhausted)
    \/ phase # "Ready" /\ PendingReceipt
    \/ \E r \in 1..(effect_id - 1) : OldReceipt(r)

Spec == Init /\ [][Next]_vars

-----------------------------------------------------------------------------
(* Properties *)

TypeOK ==
    /\ phase \in Phases
    /\ obs \in Observation
    /\ end \in Ends \cup {"none"}
    /\ effect_id \in 0..IdMax
    /\ turns \in 0..CounterMax
    /\ repairs \in 0..MaxPlanExitRepairs
    /\ hooks \in 0..MaxStopHookContinuations
    /\ result \in Errors \cup {"ok"}
    /\ start \in 0..CounterMax
    /\ maxTurns \in Nat \cup {NoLimit}
    /\ issued \in Seq(Effects)
    /\ acked \in Seq([id: Nat, input: Inputs])

\* The one input that completes an effect.
Answer(e) ==
    IF e = "RequestModel" THEN "ModelCompleted"
    ELSE IF e = "RecordAssistant" THEN "AssistantRecorded"
    ELSE IF e \in HookEffects THEN "StopHooksCompleted"
    ELSE IF e = "RunTools" THEN "ToolsCompleted"
    ELSE IF e \in Ends THEN "FinalizationCompleted"
    ELSE "CheckpointCompleted"

\* Every receipt is accepted at most once, in the order the effects were
\* requested, and only with the completion its effect calls for, whatever
\* receipts the host repeats, reorders or mixes up; and no effect is requested
\* before the previous one was acknowledged (require_effect, require_phase).
ReceiptsInOrder ==
    /\ Len(acked) \in {Len(issued) - 1, Len(issued)} \cap Nat
    /\ \A i \in 1..Len(acked) :
           acked[i] = [id |-> i, input |-> Answer(issued[i])]

\* What may come before an effect (none: it may be the first).
Before(e) ==
    IF e \in {"RequestModel", "MaxTurnsReached", "TokenBudgetReached"}
        THEN Continuations \cup {"CommitToolResults", "none"}
    ELSE IF e \in {"RecordAssistant", "PlanExitRepair", "PlanExitRepairExhausted"}
        THEN {"RequestModel"}
    ELSE IF e \in {"StopHookBlocked", "StopHookLimitReached", "ResponseComplete"}
        THEN HookEffects
    ELSE IF e \in {"CommitToolResults", "AwaitingApproval"}
        THEN {"RunTools"}
    ELSE {"RecordAssistant"}  \* tools, hooks and automatic continuations

\* The boundaries of the loop hold along the whole run: the model is asked
\* again only after a continuation or the tool results were committed, tools
\* run and hooks are consulted only after the assistant message was recorded,
\* and nothing follows a finalization (docs/features/portable-agent-loop.md).
BoundariesKept ==
    \A i \in 1..Len(issued) :
        (IF i = 1 THEN "none" ELSE issued[i - 1]) \in Before(issued[i])

Requested(S) == {i \in 1..Len(issued) : issued[i] \in S}

\* agentic_turns counts exactly the tool iterations and forced continuations
\* that were requested, and the two recovery counters their own continuations,
\* so none is lost or counted twice across the transitions that touch them.
CountersFaithful ==
    /\ turns = start + Cardinality(Requested(Continuations \cup {"RunTools"}))
    /\ repairs = Cardinality(Requested({"PlanExitRepair"}))
    /\ hooks = Cardinality(Requested({"StopHookBlocked"}))

\* With a limit on turns the model is asked at most limit - start times in one
\* entry, and not at all when the limit was reached before (next_iteration).
ModelCallsBounded ==
    maxTurns # NoLimit =>
        \/ Requested({"RequestModel"}) = {}
        \/ Cardinality(Requested({"RequestModel"})) <= maxTurns - start

\* A recovery that gives up has used every attempt it has, and the entry never
\* issues more of them: PlanExitRepairExhausted after MAX_PLAN_EXIT_REPAIRS
\* repairs, StopHookLimitReached after MAX_STOP_HOOK_CONTINUATIONS blocks.
RecoveryBounded ==
    /\ Cardinality(Requested({"PlanExitRepair"})) <= MaxPlanExitRepairs
    /\ Cardinality(Requested({"StopHookBlocked"})) <= MaxStopHookContinuations
    /\ end = "PlanExitRepairExhausted" =>
           Cardinality(Requested({"PlanExitRepair"})) = MaxPlanExitRepairs
    /\ end = "StopHookLimitReached" =>
           Cardinality(Requested({"StopHookBlocked"})) = MaxStopHookContinuations

\* Stop hooks are told that an earlier block is in force in every later
\* consultation of the entry, also after tools ran in between, and never
\* before the first block (stop_hook_active).
StopHookActiveFaithful ==
    \A i \in 1..Len(issued) : issued[i] \in HookEffects =>
        (issued[i] = "RunStopHooksActive") <=>
            \E j \in 1..(i - 1) : issued[j] = "StopHookBlocked"

\* A refused call (stale or repeated receipt, wrong phase, counter overflow)
\* leaves the machine as it was: no counter moves and no identity is consumed.
RefusalChangesNothing ==
    [][result' # "ok" => UNCHANGED <<machine, history>>]_vars

\* What an entry counts and spends is exact: its counters, its model requests
\* against a limit on turns, its recoveries against their limits, and whether
\* its stop hooks are told of an earlier block.
BudgetsKept ==
    CountersFaithful /\ ModelCallsBounded /\ RecoveryBounded /\ StopHookActiveFaithful
=============================================================================
