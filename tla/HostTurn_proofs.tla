--------------------------- MODULE HostTurn_proofs ---------------------------
(***************************************************************************)
(* Proofs about the shared agent loop and the turns that drive it.         *)
(*                                                                         *)
(* The machine: its type invariant, the order of the receipts it accepts   *)
(* and of the effects it requests, what its counters count, the bound on   *)
(* model requests, and that a refused call changes nothing.                *)
(*                                                                         *)
(* Transcripts: how many calls are outstanding after each message, and the *)
(* repair of tool results, for histories of every length.                  *)
(*                                                                         *)
(* Turns: every request to the model is well paired and no completed tool  *)
(* work is lost, whatever stopped the turns before.                        *)
(***************************************************************************)
EXTENDS HostTurn, Enumeration_proofs, SequenceTheorems

-----------------------------------------------------------------------------
(* The machine *)

\* The effects a phase waits for; Ready waits for none.
Waiting(p) ==
    IF p = "Ready" THEN {}
    ELSE IF p = "ModelPending" THEN {"RequestModel"}
    ELSE IF p = "AssistantPending" THEN {"RecordAssistant"}
    ELSE IF p = "StopHooksPending" THEN HookEffects
    ELSE IF p = "ToolsPending" THEN {"RunTools"}
    ELSE IF p = "ToolResultsPending" THEN {"CommitToolResults"}
    ELSE IF p = "ContinuationPending" THEN Continuations
    ELSE Ends

\* The phase says which effect is outstanding, and the histories are as long
\* as the effect identity says.
PhaseInv ==
    /\ Len(issued) = effect_id
    /\ phase = "Ready" <=> effect_id = 0
    /\ phase # "Ready" => issued[effect_id] \in Waiting(phase)
    /\ Len(acked) = IF phase \in {"Ready", "Finished"} THEN effect_id
                    ELSE effect_id - 1

LedgerInv == TypeOK /\ PhaseInv /\ ReceiptsInOrder /\ BoundariesKept

Pending == Phases \ {"Ready", "Finished"}

\* What every accepted receipt does to the histories.
Advance(in, e) ==
    /\ acked' = Append(acked, [id |-> effect_id, input |-> in])
    /\ issued' = Append(issued, e)
    /\ effect_id' = effect_id + 1

\* What Append does to the length and the elements of a sequence.
LEMMA AppendProps ==
    ASSUME NEW S, NEW s \in Seq(S), NEW e \in S
    PROVE  /\ Append(s, e) \in Seq(S)
           /\ Len(Append(s, e)) = Len(s) + 1
           /\ \A i \in 1..Len(s) : Append(s, e)[i] = s[i]
           /\ Append(s, e)[Len(s) + 1] = e
OBVIOUS

\* An accepted receipt that requests an allowed successor keeps the ledger.
LEMMA AdvanceKeepsLedger ==
    ASSUME LedgerInv, NEW in \in Inputs, NEW e \in Effects,
           phase \in Pending, phase' \in Pending,
           in = Answer(issued[effect_id]),
           issued[effect_id] \in Before(e),
           e \in Waiting(phase'),
           Advance(in, e)
    PROVE  PhaseInv' /\ ReceiptsInOrder' /\ BoundariesKept'
<1>1. /\ effect_id \in Nat /\ effect_id >= 1
      /\ issued \in Seq(Effects) /\ Len(issued) = effect_id
      /\ acked \in Seq([id : Nat, input : Inputs])
      /\ Len(acked) = effect_id - 1
  BY IdAssumption DEF LedgerInv, TypeOK, PhaseInv, Pending
<1>2. [id |-> effect_id, input |-> in] \in [id : Nat, input : Inputs]
  BY <1>1
<1>3. /\ issued' \in Seq(Effects) /\ Len(issued') = effect_id + 1
      /\ \A i \in 1..effect_id : issued'[i] = issued[i]
      /\ issued'[effect_id + 1] = e
  BY <1>1, AppendProps DEF Advance
<1>4. /\ acked' \in Seq([id : Nat, input : Inputs]) /\ Len(acked') = effect_id
      /\ \A i \in 1..(effect_id - 1) : acked'[i] = acked[i]
      /\ acked'[effect_id] = [id |-> effect_id, input |-> in]
  <2>1. Len(acked) + 1 = effect_id
    BY <1>1
  <2> QED BY <1>1, <1>2, <2>1, AppendProps DEF Advance
<1>5. effect_id' = effect_id + 1
  BY DEF Advance
<1>6. PhaseInv'
  BY <1>1, <1>3, <1>4, <1>5 DEF PhaseInv, Pending
<1>7. ReceiptsInOrder'
  <2>1. \A i \in 1..(effect_id - 1) :
            acked[i] = [id |-> i, input |-> Answer(issued[i])]
    BY <1>1 DEF LedgerInv, ReceiptsInOrder
  <2>2. ASSUME NEW i \in 1..effect_id
        PROVE  acked'[i] = [id |-> i, input |-> Answer(issued'[i])]
    <3>1. CASE i = effect_id
      BY <3>1, <1>1, <1>3, <1>4
    <3>2. CASE i # effect_id
      <4>1. i \in 1..(effect_id - 1)
        BY <3>2, <1>1
      <4> QED BY <4>1, <2>1, <1>1, <1>3, <1>4
    <3> QED BY <3>1, <3>2
  <2>3. (\A i \in 1..Len(acked) :
             acked[i] = [id |-> i, input |-> Answer(issued[i])])'
    BY <2>2, <1>4 DEF Answer
  <2>4. Len(acked') \in {Len(issued') - 1, Len(issued')} \cap Nat
    BY <1>1, <1>3, <1>4
  <2> QED BY <2>3, <2>4 DEF ReceiptsInOrder
<1>8. BoundariesKept'
  <2>1. ASSUME NEW i \in 1..(effect_id + 1)
        PROVE  (IF i = 1 THEN "none" ELSE issued'[i - 1]) \in Before(issued'[i])
    <3>1. CASE i = effect_id + 1
      BY <3>1, <1>1, <1>3
    <3>2. CASE i # effect_id + 1
      <4>1. i \in 1..effect_id /\ (i # 1 => i - 1 \in 1..effect_id)
        BY <3>2, <1>1
      <4>2. (IF i = 1 THEN "none" ELSE issued[i - 1]) \in Before(issued[i])
        BY <4>1, <1>1 DEF LedgerInv, BoundariesKept
      <4> QED BY <4>1, <4>2, <1>3
    <3> QED BY <3>1, <3>2
  <2> QED BY <2>1, <1>3 DEF BoundariesKept, Before
<1> QED BY <1>6, <1>7, <1>8

-----------------------------------------------------------------------------
(* Every step is a refusal, the first request, an accepted receipt that    *)
(* requests the next effect, or the acknowledged finalization.             *)

Counted == Continuations \cup {"RunTools"}

Refusal ==
    /\ result' \in Errors
    /\ UNCHANGED <<machine, start, maxTurns, history>>

\* What requesting effect e does to the machine.
Issues(e) ==
    /\ e \in Effects
    /\ phase' \in Pending
    /\ e \in Waiting(phase')
    /\ effect_id < IdMax
    /\ effect_id' = effect_id + 1
    /\ issued' = Append(issued, e)
    /\ turns' = IF e \in Counted THEN turns + 1 ELSE turns
    /\ e \in Counted => turns < CounterMax
    /\ repairs' = IF e = "PlanExitRepair" THEN repairs + 1 ELSE repairs
    /\ e = "PlanExitRepair" => repairs < MaxPlanExitRepairs
    /\ hooks' = IF e = "StopHookBlocked" THEN hooks + 1 ELSE hooks
    /\ e = "StopHookBlocked" => hooks < MaxStopHookContinuations
    /\ e = "RequestModel" => maxTurns = NoLimit \/ turns < maxTurns
    /\ e = "PlanExitRepairExhausted" => repairs = MaxPlanExitRepairs
    /\ e = "StopHookLimitReached" => hooks = MaxStopHookContinuations
    /\ e = "RunStopHooks" => hooks = 0
    /\ e = "RunStopHooksActive" => hooks > 0
    /\ end' = IF e \in Ends THEN e ELSE end
    /\ obs' \in Observation
    /\ result' = "ok"
    /\ UNCHANGED <<start, maxTurns>>

Opening(e) ==
    /\ phase = "Ready"
    /\ "none" \in Before(e)
    /\ UNCHANGED acked
    /\ Issues(e)

Progress(e) ==
    /\ phase \in Pending \ {"Finalizing"}
    /\ issued[effect_id] \in Before(e)
    /\ acked' = Append(acked, [id |-> effect_id,
                               input |-> Answer(issued[effect_id])])
    /\ Issues(e)

Closing ==
    /\ phase = "Finalizing"
    /\ phase' = "Finished"
    /\ acked' = Append(acked, [id |-> effect_id,
                               input |-> Answer(issued[effect_id])])
    /\ result' = "ok"
    /\ UNCHANGED <<obs, end, effect_id, turns, repairs, hooks, start, maxTurns,
                   issued>>

Step == Refusal \/ Closing \/ \E e \in Effects : Opening(e) \/ Progress(e)

\* Observations are records of the observation type.
LEMMA ObservationTyped == NoObservation \in Observation /\ Observations \subseteq Observation
BY DEF NoObservation, Observation, Observations

\* A transition that refuses with some error is a refusal.
LEMMA RefuseIsRefusal ==
    ASSUME NEW error \in Errors \cup {"ok"}, Refuse(error)
    PROVE  Refusal
BY DEF Refuse, Refusal, Errors

\* The checks pass exactly for the pending receipt, in the right phase, with an
\* identity left for the next request.
LEMMA ChecksTyped ==
    ASSUME NEW receipt, NEW phases
    PROVE  /\ Checks(receipt, phases) \in Errors \cup {"ok"}
           /\ Checks(receipt, phases) = "ok" <=>
                  receipt = effect_id /\ phase \in phases /\ effect_id # IdMax
BY DEF Checks, Errors

\* A counter overflow is a refusal: increment_turn fails before any assignment.
LEMMA OverflowIsRefusal == Overflow => Refusal
BY RefuseIsRefusal DEF Overflow, Errors

\* Admitting or refusing another iteration requests one of three effects.
LEMMA NextIterationIssues ==
    ASSUME LedgerInv, NEW exhausted \in BOOLEAN, NextIteration(exhausted),
           effect_id < IdMax, obs' \in Observation, result' = "ok",
           UNCHANGED <<start, maxTurns>>
    PROVE  \E e \in {"RequestModel", "MaxTurnsReached", "TokenBudgetReached"} :
               Issues(e)
<1> USE DEF Issues, Request, Pending, Phases, Waiting, Ends, Effects, Counted,
            Continuations, HookEffects
<1>0. /\ turns \in Nat /\ maxTurns \in Nat \cup {NoLimit}
  BY CounterAssumption DEF LedgerInv, TypeOK
<1>1. CASE Finalize("MaxTurnsReached")
  <2>1. Issues("MaxTurnsReached")
    BY <1>1 DEF Finalize
  <2> QED BY <2>1
<1>2. CASE Finalize("TokenBudgetReached")
  <2>1. Issues("TokenBudgetReached")
    BY <1>2 DEF Finalize
  <2> QED BY <2>1
<1>3. CASE /\ ~(maxTurns # NoLimit /\ turns >= maxTurns)
           /\ Request("ModelPending", "RequestModel")
           /\ UNCHANGED <<end, turns, repairs, hooks>>
  <2>1. maxTurns = NoLimit \/ turns < maxTurns
    BY <1>3, <1>0 DEF NoLimit
  <2>2. Issues("RequestModel")
    BY <1>3, <2>1
  <2> QED BY <2>2
<1> QED BY <1>1, <1>2, <1>3 DEF NextIteration

\* begin_iteration opens the entry with a model request or an early end.
LEMMA BeginStep ==
    ASSUME LedgerInv, NEW exhausted \in BOOLEAN, BeginIteration(exhausted)
    PROVE  Step
<1>1. CASE Refuse("WrongPhase")
  BY <1>1, RefuseIsRefusal DEF Errors, Step
<1>2. CASE /\ phase = "Ready"
           /\ NextIteration(exhausted)
           /\ result' = "ok"
           /\ UNCHANGED <<obs, start, maxTurns, acked>>
  <2>1. effect_id < IdMax /\ obs' \in Observation
    BY <1>2, IdAssumption DEF LedgerInv, PhaseInv, TypeOK
  <2>2. PICK e \in {"RequestModel", "MaxTurnsReached", "TokenBudgetReached"} :
            Issues(e)
    BY <1>2, <2>1, NextIterationIssues
  <2>3. Opening(e)
    BY <1>2, <2>2 DEF Opening, Before
  <2> QED BY <2>2, <2>3 DEF Step, Issues
<1> QED BY <1>1, <1>2 DEF BeginIteration

\* model_completed issues a successor that may follow the model request.
LEMMA ModelStep ==
    ASSUME LedgerInv, NEW receipt, NEW o \in Observations,
           ModelCompleted(receipt, o)
    PROVE  Step
<1> DEFINE check == Checks(receipt, {"ModelPending"})
           accepted == check = "ok" /\ Accept(receipt, "ModelCompleted")
<1>0. /\ check \in Errors \cup {"ok"}
      /\ check = "ok" => /\ receipt = effect_id
                         /\ phase = "ModelPending"
                         /\ effect_id # IdMax
  BY ChecksTyped
<1>a. /\ effect_id \in 0..IdMax /\ obs \in Observation /\ IdMax \in Nat
      /\ repairs \in 0..MaxPlanExitRepairs
      /\ phase = "ModelPending" => issued[effect_id] = "RequestModel"
  BY IdAssumption DEF LedgerInv, TypeOK, PhaseInv, Waiting
<1>b. ASSUME NEW e, accepted, e \in {"PlanExitRepair", "PlanExitRepairExhausted",
                                     "RecordAssistant"}, Issues(e)
      PROVE  Step
  <2>1. Progress(e)
    BY <1>b, <1>0, <1>a DEF Progress, Accept, Before, Answer, Pending, Phases
  <2> QED BY <2>1, <1>b DEF Step, Issues
<1>1. CASE Refuse(check)
  BY <1>1, <1>0, RefuseIsRefusal DEF Step
<1>2. CASE Overflow
  BY <1>2, OverflowIsRefusal DEF Step
<1> USE DEF Request, Pending, Phases, Waiting, Ends, Effects, Counted,
            Continuations, HookEffects
<1>3. CASE /\ accepted
           /\ MayRepairPlanExit
           /\ IncrementTurn
           /\ repairs' = repairs + 1
           /\ ContinueWith("PlanExitRepair")
           /\ UNCHANGED <<obs, hooks>>
  <2>1. Issues("PlanExitRepair")
    BY <1>3, <1>0, <1>a DEF Issues, Accept, MayRepairPlanExit, IncrementTurn, ContinueWith
  <2> QED BY <2>1, <1>3, <1>b
<1>4. CASE /\ accepted
           /\ ~MayRepairPlanExit
           /\ Finalize("PlanExitRepairExhausted")
           /\ UNCHANGED obs
  <2>1. repairs = MaxPlanExitRepairs
    BY <1>4, <1>a, RepairAssumption DEF MayRepairPlanExit
  <2>2. Issues("PlanExitRepairExhausted")
    BY <1>4, <1>0, <1>a, <2>1 DEF Issues, Accept, Finalize
  <2> QED BY <2>2, <1>4, <1>b
<1>5. CASE /\ accepted
           /\ obs' = o
           /\ Request("AssistantPending", "RecordAssistant")
           /\ UNCHANGED <<end, turns, repairs, hooks>>
  <2>1. obs' \in Observation
    BY <1>5, ObservationTyped
  <2>2. Issues("RecordAssistant")
    BY <1>5, <1>0, <1>a, <2>1 DEF Issues, Accept
  <2> QED BY <2>2, <1>5, <1>b
<1> HIDE DEF accepted, check
<1> QED BY <1>1, <1>2, <1>3, <1>4, <1>5, Zenon DEF ModelCompleted, accepted, check

\* The automatic continuations are never a plan repair or a hook block.
LEMMA ContinuationTyped ==
    ASSUME NEW o, NEW ctx
    PROVE  Continuation(o, ctx) \in (Continuations \ {"PlanExitRepair", "StopHookBlocked"})
                                        \cup {"none"}
BY DEF Continuation, Continuations

\* assistant_recorded issues a successor that may follow the recorded message.
LEMMA AssistantStep ==
    ASSUME LedgerInv, NEW receipt, NEW ctx, AssistantRecorded(receipt, ctx)
    PROVE  Step
<1> DEFINE check == Checks(receipt, {"AssistantPending"})
           accepted == check = "ok" /\ Accept(receipt, "AssistantRecorded")
           c == Continuation(obs, ctx)
<1>0. /\ check \in Errors \cup {"ok"}
      /\ check = "ok" => /\ receipt = effect_id
                         /\ phase = "AssistantPending"
                         /\ effect_id # IdMax
  BY ChecksTyped
<1>a. /\ effect_id \in 0..IdMax /\ IdMax \in Nat
      /\ hooks \in Nat
      /\ phase = "AssistantPending" => issued[effect_id] = "RecordAssistant"
  BY IdAssumption, HookAssumption DEF LedgerInv, TypeOK, PhaseInv, Waiting
<1>c. c \in (Continuations \ {"PlanExitRepair", "StopHookBlocked"}) \cup {"none"}
  BY ContinuationTyped
<1>b. ASSUME NEW e, accepted,
             e \in HookEffects \cup {"RunTools"}
                      \cup (Continuations \ {"PlanExitRepair", "StopHookBlocked"}),
             Issues(e)
      PROVE  Step
  <2>1. Progress(e)
    BY <1>b, <1>0, <1>a
       DEF Progress, Accept, Before, Answer, Pending, Phases, HookEffects, Continuations
  <2> QED BY <2>1, <1>b DEF Step, Issues
<1>1. CASE Refuse(check)
  BY <1>1, <1>0, RefuseIsRefusal DEF Step
<1>2. CASE Refuse("EffectCounterOverflow")
  BY <1>2, RefuseIsRefusal DEF Step, Errors
<1>3. CASE Overflow
  BY <1>3, OverflowIsRefusal DEF Step
<1> HIDE DEF c
<1> USE DEF Request, Pending, Phases, Waiting, Ends, Effects, Counted,
            Continuations, HookEffects
<1>4. CASE /\ accepted
           /\ IncrementTurn
           /\ Request("ToolsPending", "RunTools")
           /\ obs' = NoObservation
           /\ UNCHANGED <<end, repairs, hooks>>
  <2>1. Issues("RunTools")
    BY <1>4, <1>0, <1>a, ObservationTyped DEF Issues, Accept, IncrementTurn
  <2> QED BY <2>1, <1>4, <1>b
<1>5. CASE /\ accepted
           /\ c # "none"
           /\ IncrementTurn
           /\ ContinueWith(c)
           /\ obs' = NoObservation
           /\ UNCHANGED <<repairs, hooks>>
  <2>1. Issues(c)
    BY <1>5, <1>0, <1>a, <1>c, ObservationTyped DEF Issues, Accept, IncrementTurn, ContinueWith
  <2> QED BY <2>1, <1>5, <1>c, <1>b
<1>6. CASE /\ accepted
           /\ Request("StopHooksPending", StopHookEffect)
           /\ obs' = NoObservation
           /\ UNCHANGED <<end, turns, repairs, hooks>>
  <2>1. Issues(StopHookEffect)
    BY <1>6, <1>0, <1>a, ObservationTyped DEF Issues, Accept, StopHookEffect
  <2> QED BY <2>1, <1>6, <1>b DEF StopHookEffect
<1> HIDE DEF accepted, check
<1> QED BY <1>1, <1>2, <1>3, <1>4, <1>5, <1>6, Zenon
        DEF AssistantRecorded, accepted, check, c

\* stop_hooks_completed issues a successor that may follow the hooks.
LEMMA HooksStep ==
    ASSUME LedgerInv, NEW receipt, NEW outcome,
           StopHooksCompleted(receipt, outcome)
    PROVE  Step
<1> DEFINE check == Checks(receipt, {"StopHooksPending"})
           accepted == check = "ok" /\ Accept(receipt, "StopHooksCompleted")
<1>0. /\ check \in Errors \cup {"ok"}
      /\ check = "ok" => /\ receipt = effect_id
                         /\ phase = "StopHooksPending"
                         /\ effect_id # IdMax
  BY ChecksTyped
<1>a. /\ effect_id \in 0..IdMax /\ obs \in Observation /\ IdMax \in Nat
      /\ hooks \in 0..MaxStopHookContinuations
      /\ phase = "StopHooksPending" => issued[effect_id] \in HookEffects
  BY IdAssumption DEF LedgerInv, TypeOK, PhaseInv, Waiting
<1>b. ASSUME NEW e, accepted, e \in {"ResponseComplete", "StopHookBlocked",
                                     "StopHookLimitReached"}, Issues(e)
      PROVE  Step
  <2>1. Progress(e)
    BY <1>b, <1>0, <1>a
       DEF Progress, Accept, Before, Answer, Pending, Phases, HookEffects
  <2> QED BY <2>1, <1>b DEF Step, Issues
<1>1. CASE Refuse(check)
  BY <1>1, <1>0, RefuseIsRefusal DEF Step
<1>2. CASE Overflow
  BY <1>2, OverflowIsRefusal DEF Step
<1> USE DEF Request, Pending, Phases, Waiting, Ends, Effects, Counted,
            Continuations, HookEffects
<1>3. CASE /\ accepted
           /\ Finalize("ResponseComplete")
           /\ UNCHANGED obs
  <2>1. Issues("ResponseComplete")
    BY <1>3, <1>0, <1>a DEF Issues, Accept, Finalize
  <2> QED BY <2>1, <1>3, <1>b
<1>4. CASE /\ accepted
           /\ MayBlockCompletion
           /\ IncrementTurn
           /\ hooks' = hooks + 1
           /\ ContinueWith("StopHookBlocked")
           /\ UNCHANGED <<obs, repairs>>
  <2>1. Issues("StopHookBlocked")
    BY <1>4, <1>0, <1>a DEF Issues, Accept, MayBlockCompletion, IncrementTurn, ContinueWith
  <2> QED BY <2>1, <1>4, <1>b
<1>5. CASE /\ accepted
           /\ ~MayBlockCompletion
           /\ Finalize("StopHookLimitReached")
           /\ UNCHANGED obs
  <2>1. hooks = MaxStopHookContinuations
    BY <1>5, <1>a, HookAssumption DEF MayBlockCompletion
  <2>2. Issues("StopHookLimitReached")
    BY <1>5, <1>0, <1>a, <2>1 DEF Issues, Accept, Finalize
  <2> QED BY <2>2, <1>5, <1>b
<1> HIDE DEF accepted, check
<1> QED BY <1>1, <1>2, <1>3, <1>4, <1>5, Zenon DEF StopHooksCompleted, accepted, check

\* tools_completed issues the commit of the results, or ends for an approval.
LEMMA ToolsStep ==
    ASSUME LedgerInv, NEW receipt, NEW outcome, ToolsCompleted(receipt, outcome)
    PROVE  Step
<1> DEFINE check == Checks(receipt, {"ToolsPending"})
           accepted == check = "ok" /\ Accept(receipt, "ToolsCompleted")
<1>0. /\ check \in Errors \cup {"ok"}
      /\ check = "ok" => /\ receipt = effect_id
                         /\ phase = "ToolsPending"
                         /\ effect_id # IdMax
  BY ChecksTyped
<1>a. /\ effect_id \in 0..IdMax /\ obs \in Observation /\ IdMax \in Nat
      /\ phase = "ToolsPending" => issued[effect_id] = "RunTools"
  BY IdAssumption DEF LedgerInv, TypeOK, PhaseInv, Waiting
<1>b. ASSUME NEW e, accepted, e \in {"CommitToolResults", "AwaitingApproval"},
             Issues(e)
      PROVE  Step
  <2>1. Progress(e)
    BY <1>b, <1>0, <1>a
       DEF Progress, Accept, Before, Answer, Pending, Phases, HookEffects
  <2> QED BY <2>1, <1>b DEF Step, Issues
<1>1. CASE Refuse(check)
  BY <1>1, <1>0, RefuseIsRefusal DEF Step
<1> USE DEF Request, Pending, Phases, Waiting, Ends, Effects, Counted,
            Continuations, HookEffects
<1>2. CASE /\ accepted
           /\ Request("ToolResultsPending", "CommitToolResults")
           /\ UNCHANGED <<obs, end, turns, repairs, hooks>>
  <2>1. Issues("CommitToolResults")
    BY <1>2, <1>0, <1>a DEF Issues, Accept
  <2> QED BY <2>1, <1>2, <1>b
<1>3. CASE /\ accepted
           /\ Finalize("AwaitingApproval")
           /\ UNCHANGED obs
  <2>1. Issues("AwaitingApproval")
    BY <1>3, <1>0, <1>a DEF Issues, Accept, Finalize
  <2> QED BY <2>1, <1>3, <1>b
<1> HIDE DEF accepted, check
<1> QED BY <1>1, <1>2, <1>3, Zenon DEF ToolsCompleted, accepted, check

\* checkpoint_completed issues the next model request or a limit's end.
LEMMA CheckpointStep ==
    ASSUME LedgerInv, NEW receipt, NEW exhausted \in BOOLEAN,
           CheckpointCompleted(receipt, exhausted)
    PROVE  Step
<1> DEFINE check == Checks(receipt, {"ContinuationPending", "ToolResultsPending"})
<1>0. /\ check \in Errors \cup {"ok"}
      /\ check = "ok" => /\ receipt = effect_id
                         /\ phase \in {"ContinuationPending", "ToolResultsPending"}
                         /\ effect_id # IdMax
  BY ChecksTyped
<1>1. CASE Refuse(check)
  BY <1>1, <1>0, RefuseIsRefusal DEF Step
<1>2. CASE /\ check = "ok"
           /\ Accept(receipt, "CheckpointCompleted")
           /\ NextIteration(exhausted)
           /\ UNCHANGED obs
  <2>1. effect_id < IdMax /\ obs' \in Observation
    BY <1>2, <1>0, IdAssumption DEF LedgerInv, TypeOK
  <2>2. result' = "ok" /\ UNCHANGED <<start, maxTurns>>
    BY <1>2 DEF Accept
  <2>3. PICK e \in {"RequestModel", "MaxTurnsReached", "TokenBudgetReached"} :
            Issues(e)
    BY <1>2, <2>1, <2>2, NextIterationIssues
  <2>4. issued[effect_id] \in Continuations \cup {"CommitToolResults"}
    BY <1>2, <1>0 DEF LedgerInv, PhaseInv, Waiting
  <2>5. Progress(e)
    BY <1>2, <1>0, <2>3, <2>4
       DEF Progress, Accept, Before, Answer, Pending, Phases, Continuations, HookEffects, Ends
  <2> QED BY <2>3, <2>5 DEF Step, Issues
<1> QED BY <1>1, <1>2 DEF CheckpointCompleted

\* finalization_completed acknowledges the end and issues nothing.
LEMMA FinalizationStep ==
    ASSUME LedgerInv, NEW receipt, FinalizationCompleted(receipt)
    PROVE  Step
<1>1. CASE Refuse("WrongEffect")
  BY <1>1, RefuseIsRefusal DEF Step, Errors
<1>2. CASE Refuse("WrongPhase")
  BY <1>2, RefuseIsRefusal DEF Step, Errors
<1>3. CASE /\ receipt = effect_id
           /\ phase = "Finalizing"
           /\ Accept(receipt, "FinalizationCompleted")
           /\ phase' = "Finished"
           /\ UNCHANGED <<obs, end, effect_id, turns, repairs, hooks, issued>>
  <2>1. issued[effect_id] \in Ends
    BY <1>3 DEF LedgerInv, PhaseInv, Waiting
  <2>2. Closing
    BY <1>3, <2>1 DEF Closing, Accept, Answer, Ends, HookEffects
  <2> QED BY <2>2 DEF Step
<1> QED BY <1>1, <1>2, <1>3 DEF FinalizationCompleted

\* Every call of the machine is a refusal, the opening, progress or the close.
LEMMA NextIsStep == ASSUME LedgerInv, Next PROVE Step
<1>1. NoObservation \in Observations /\ FALSE \in BOOLEAN
  BY DEF NoObservation, Observation, Observations
<1>2. CASE \E exhausted \in BOOLEAN : BeginIteration(exhausted)
  BY <1>2, BeginStep
<1>3. CASE PendingReceipt
  BY <1>3, ModelStep, AssistantStep, HooksStep, ToolsStep, CheckpointStep,
     FinalizationStep DEF PendingReceipt
<1>4. ASSUME NEW r \in 1..(effect_id - 1), OldReceipt(r) PROVE Step
  BY <1>1, <1>4, ModelStep, AssistantStep, HooksStep, ToolsStep, CheckpointStep,
     FinalizationStep DEF OldReceipt
<1> QED BY <1>2, <1>3, <1>4 DEF Next

-----------------------------------------------------------------------------
(* The ledger of effects and receipts *)

\* Every kind of step keeps the types.
LEMMA TypeStep == ASSUME LedgerInv, Step PROVE TypeOK'
<1> USE DEF LedgerInv, TypeOK
<1>0. /\ IdMax \in Nat /\ CounterMax \in Nat /\ MaxPlanExitRepairs \in Nat
      /\ MaxStopHookContinuations \in Nat /\ effect_id \in Nat
  BY IdAssumption, CounterAssumption, RepairAssumption, HookAssumption
<1>1. CASE Refusal
  BY <1>1 DEF Refusal, machine, history
<1>2. \A e \in Effects : Answer(e) \in Inputs
  BY DEF Answer, Inputs
<1>3. phase # "Ready" => issued[effect_id] \in Effects
  BY <1>0 DEF PhaseInv
<1>4. phase # "Ready" =>
        Append(acked, [id |-> effect_id, input |-> Answer(issued[effect_id])])
            \in Seq([id : Nat, input : Inputs])
  BY <1>0, <1>2, <1>3, AppendProps
<1>5. CASE Closing
  <2>1. acked' \in Seq([id : Nat, input : Inputs])
    BY <1>4, <1>5 DEF Closing
  <2>2. phase' \in Phases
    BY <1>5 DEF Closing, Phases
  <2> QED BY <1>5, <2>1, <2>2 DEF Closing
<1>6. ASSUME NEW e \in Effects, Issues(e)
      PROVE  /\ phase' \in Phases /\ obs' \in Observation
             /\ end' \in Ends \cup {"none"} /\ effect_id' \in 0..IdMax
             /\ turns' \in 0..CounterMax /\ repairs' \in 0..MaxPlanExitRepairs
             /\ hooks' \in 0..MaxStopHookContinuations
             /\ result' \in Errors \cup {"ok"} /\ start' \in 0..CounterMax
             /\ maxTurns' \in Nat \cup {NoLimit} /\ issued' \in Seq(Effects)
  <2>1. issued' \in Seq(Effects)
    BY <1>6, AppendProps DEF Issues
  <2>2. phase' \in Phases
    BY <1>6 DEF Issues, Pending
  <2>3. end' \in Ends \cup {"none"}
    BY <1>6 DEF Issues
  <2>4. /\ effect_id' \in 0..IdMax /\ turns' \in 0..CounterMax
        /\ repairs' \in 0..MaxPlanExitRepairs
        /\ hooks' \in 0..MaxStopHookContinuations
    BY <1>6, <1>0 DEF Issues
  <2> QED BY <1>6, <2>1, <2>2, <2>3, <2>4 DEF Issues
<1>7. ASSUME NEW e \in Effects, Opening(e) PROVE TypeOK'
  BY <1>6, <1>7 DEF Opening
<1>8. ASSUME NEW e \in Effects, Progress(e) PROVE TypeOK'
  <2>1. acked' \in Seq([id : Nat, input : Inputs])
    BY <1>4, <1>8 DEF Progress, Pending
  <2> QED BY <1>6, <1>8, <2>1 DEF Progress
<1> QED BY <1>1, <1>5, <1>7, <1>8 DEF Step

\* A step that leaves machine and histories alone keeps the ledger.
LEMMA LedgerUnchanged ==
    ASSUME LedgerInv,
           UNCHANGED <<machine, start, maxTurns, history>>
    PROVE  PhaseInv' /\ ReceiptsInOrder' /\ BoundariesKept'
BY DEF LedgerInv, machine, history, PhaseInv, ReceiptsInOrder, BoundariesKept,
       Before, Answer

\* The first request keeps the ledger.
LEMMA OpeningKeepsLedger ==
    ASSUME LedgerInv, NEW e \in Effects, Opening(e)
    PROVE  PhaseInv' /\ ReceiptsInOrder' /\ BoundariesKept'
<1>1. /\ effect_id = 0 /\ Len(issued) = 0 /\ Len(acked) = 0
      /\ issued \in Seq(Effects)
  BY DEF LedgerInv, PhaseInv, TypeOK, Opening
<1>2. /\ Len(issued') = 1 /\ issued'[1] = e /\ effect_id' = 1 /\ acked' = acked
  BY <1>1, AppendProps DEF Opening, Issues
<1>3. PhaseInv'
  BY <1>1, <1>2 DEF PhaseInv, Opening, Issues, Pending
<1>4. ReceiptsInOrder'
  BY <1>1, <1>2 DEF ReceiptsInOrder
<1>5. \A i \in 1..1 :
         (IF i = 1 THEN "none" ELSE issued'[i - 1]) \in Before(issued'[i])
  BY <1>2 DEF Opening
<1>6. BoundariesKept'
  BY <1>2, <1>5 DEF BoundariesKept, Before
<1> QED BY <1>3, <1>4, <1>6

\* Acknowledging one effect and requesting the next keeps the ledger.
LEMMA ProgressKeepsLedger ==
    ASSUME LedgerInv, NEW e \in Effects, Progress(e)
    PROVE  PhaseInv' /\ ReceiptsInOrder' /\ BoundariesKept'
<1>1. Advance(Answer(issued[effect_id]), e)
  BY DEF Advance, Progress, Issues
<1>2. Answer(issued[effect_id]) \in Inputs
  BY DEF Answer, Inputs
<1>3. phase \in Pending /\ phase' \in Pending /\ e \in Waiting(phase')
  BY DEF Progress, Issues
<1>4. issued[effect_id] \in Before(e)
  BY DEF Progress
<1> QED BY <1>1, <1>2, <1>3, <1>4, AdvanceKeepsLedger

\* Acknowledging the finalization keeps the ledger.
LEMMA ClosingKeepsLedger ==
    ASSUME LedgerInv, Closing
    PROVE  PhaseInv' /\ ReceiptsInOrder' /\ BoundariesKept'
<1>1. /\ effect_id \in Nat /\ effect_id >= 1 /\ Len(issued) = effect_id
      /\ Len(acked) = effect_id - 1 /\ issued[effect_id] \in Waiting(phase)
      /\ acked \in Seq([id : Nat, input : Inputs])
  BY IdAssumption DEF LedgerInv, PhaseInv, TypeOK, Closing
<1> DEFINE a == [id |-> effect_id, input |-> Answer(issued[effect_id])]
<1>2. a \in [id : Nat, input : Inputs]
  BY <1>1 DEF Answer, Inputs
<1>3. /\ Len(acked') = effect_id
      /\ \A i \in 1..(effect_id - 1) : acked'[i] = acked[i]
      /\ acked'[effect_id] = a
  <2>1. Len(acked) + 1 = effect_id
    BY <1>1
  <2> QED BY <1>1, <1>2, <2>1, AppendProps DEF Closing
<1>4. issued' = issued /\ effect_id' = effect_id /\ phase' = "Finished"
  BY DEF Closing
<1>5. PhaseInv'
  BY <1>1, <1>3, <1>4 DEF PhaseInv, Waiting, Closing
<1>6. ReceiptsInOrder'
  <2>1. ASSUME NEW i \in 1..effect_id
        PROVE  acked'[i] = [id |-> i, input |-> Answer(issued[i])]
    <3>1. CASE i = effect_id
      BY <3>1, <1>3
    <3>2. CASE i # effect_id
      <4>1. i \in 1..(effect_id - 1)
        BY <3>2, <1>1
      <4> QED BY <4>1, <1>1, <1>3 DEF LedgerInv, ReceiptsInOrder
    <3> QED BY <3>1, <3>2
  <2>2. (\A i \in 1..Len(acked) :
             acked[i] = [id |-> i, input |-> Answer(issued[i])])'
    BY <2>1, <1>3, <1>4 DEF Answer
  <2>3. Len(acked') \in {Len(issued') - 1, Len(issued')} \cap Nat
    BY <1>1, <1>3, <1>4
  <2> QED BY <2>2, <2>3 DEF ReceiptsInOrder
<1>7. BoundariesKept'
  BY <1>4 DEF LedgerInv, BoundariesKept, Before
<1> QED BY <1>5, <1>6, <1>7

\* A fresh machine satisfies the ledger invariant.
LEMMA LedgerInit == Init => LedgerInv
BY IdAssumption, CounterAssumption, RepairAssumption, HookAssumption,
   LimitAssumption, ObservationTyped
   DEF Init, LedgerInv, TypeOK, PhaseInv, ReceiptsInOrder, BoundariesKept, Phases

\* Every step of the machine keeps the ledger invariant.
LEMMA LedgerStep == ASSUME LedgerInv, [Next]_vars PROVE LedgerInv'
<1>1. CASE Next
  <2>1. Step
    BY <1>1, NextIsStep
  <2>2. TypeOK'
    BY <2>1, TypeStep
  <2>3. CASE Refusal
    BY <2>2, <2>3, LedgerUnchanged DEF Refusal, LedgerInv
  <2>4. CASE Closing
    BY <2>2, <2>4, ClosingKeepsLedger DEF LedgerInv
  <2>5. CASE \E e \in Effects : Opening(e) \/ Progress(e)
    BY <2>2, <2>5, OpeningKeepsLedger, ProgressKeepsLedger DEF LedgerInv
  <2> QED BY <2>1, <2>3, <2>4, <2>5 DEF Step
<1>2. CASE UNCHANGED vars
  <2>1. TypeOK'
    BY <1>2 DEF vars, LedgerInv, TypeOK
  <2>2. UNCHANGED <<machine, start, maxTurns, history>>
    BY <1>2 DEF vars, machine, history
  <2> QED BY <2>1, <2>2, LedgerUnchanged DEF LedgerInv
<1> QED BY <1>1, <1>2

\* The machine's counters and identities stay within their widths.
THEOREM TypeCorrect == Spec => []TypeOK
<1>1. LedgerInv => TypeOK
  BY DEF LedgerInv
<1> QED BY <1>1, LedgerInit, LedgerStep, PTL DEF Spec

\* Each effect is acknowledged at most once, in order and with its own
\* completion, whatever receipts the host presents.
THEOREM ReceiptsTheorem == Spec => []ReceiptsInOrder
<1>1. LedgerInv => ReceiptsInOrder
  BY DEF LedgerInv
<1> QED BY <1>1, LedgerInit, LedgerStep, PTL DEF Spec

\* The loop boundaries hold in every run: no model request before the
\* continuation or the tool results are committed.
THEOREM BoundariesTheorem == Spec => []BoundariesKept
<1>1. LedgerInv => BoundariesKept
  BY DEF LedgerInv
<1> QED BY <1>1, LedgerInit, LedgerStep, PTL DEF Spec

\* A refused call changes neither the machine nor the history.
THEOREM RefusalTheorem == Spec => RefusalChangesNothing
<1>1. ASSUME LedgerInv, Next, result' # "ok"
      PROVE  UNCHANGED <<machine, history>>
  <2>1. Step
    BY <1>1, NextIsStep
  <2> QED BY <1>1, <2>1 DEF Step, Refusal, Closing, Opening, Progress, Issues
<1>2. ASSUME LedgerInv, [Next]_vars
      PROVE  [result' # "ok" => UNCHANGED <<machine, history>>]_vars
  BY <1>1, <1>2
<1> QED BY <1>2, LedgerInit, LedgerStep, PTL DEF Spec, RefusalChangesNothing

-----------------------------------------------------------------------------
(* The counters and the limits *)

Calls == Cardinality(Requested({"RequestModel"}))

\* How many requests separate the counter from the model calls: one while an
\* iteration is under way that has not been counted yet.
CallsInv ==
    /\ phase \in {"Ready", "ToolsPending", "ToolResultsPending",
                  "ContinuationPending"} => Calls = turns - start
    /\ phase \in {"ModelPending", "AssistantPending", "StopHooksPending"} =>
           Calls = turns - start + 1

EndInv ==
    /\ phase \notin {"Finalizing", "Finished"} => end = "none"
    /\ end = "PlanExitRepairExhausted" => repairs = MaxPlanExitRepairs
    /\ end = "StopHookLimitReached" => hooks = MaxStopHookContinuations

CounterInv ==
    /\ LedgerInv
    /\ CountersFaithful
    /\ CallsInv
    /\ ModelCallsBounded
    /\ EndInv
    /\ StopHookActiveFaithful

\* The requests of an entry are finitely many, so they can be counted.
LEMMA RequestedFinite ==
    ASSUME LedgerInv, NEW S
    PROVE  IsFiniteSet(Requested(S)) /\ Cardinality(Requested(S)) \in Nat
<1>1. Len(issued) \in Nat
  BY DEF LedgerInv, TypeOK
<1>2. IsFiniteSet(1..Len(issued))
  BY <1>1, FS_Interval
<1>3. Requested(S) \subseteq 1..Len(issued)
  BY DEF Requested
<1>4. IsFiniteSet(Requested(S))
  BY <1>2, <1>3, FS_Subset
<1> QED BY <1>4, FS_CardinalityType

\* Requesting one more effect adds one to the count of the sets that hold it.
LEMMA RequestedGrows ==
    ASSUME LedgerInv, NEW S, NEW e \in Effects, issued' = Append(issued, e)
    PROVE  /\ e \in S => Cardinality(Requested(S)') = Cardinality(Requested(S)) + 1
           /\ e \notin S => Requested(S)' = Requested(S)
<1> DEFINE n == Len(issued)
<1>1. n \in Nat /\ issued \in Seq(Effects)
  BY DEF LedgerInv, TypeOK
<1>2. /\ Len(issued') = n + 1
      /\ \A i \in 1..n : issued'[i] = issued[i]
      /\ issued'[n + 1] = e
  BY <1>1, AppendProps
<1>3. ASSUME e \in S PROVE Requested(S)' = Requested(S) \cup {n + 1}
  BY <1>1, <1>2, <1>3 DEF Requested
<1>4. ASSUME e \notin S PROVE Requested(S)' = Requested(S)
  BY <1>1, <1>2, <1>4 DEF Requested
<1>5. n + 1 \notin Requested(S)
  BY <1>1 DEF Requested
<1>6. IsFiniteSet(Requested(S))
  BY RequestedFinite
<1>7. Cardinality(Requested(S) \cup {n + 1}) = Cardinality(Requested(S)) + 1
  BY <1>5, <1>6, FS_AddElement
<1> QED BY <1>3, <1>4, <1>7

\* The counts a request of effect e changes, with the primes inside.
LEMMA CountsAfter ==
    ASSUME LedgerInv, NEW e \in Effects, issued' = Append(issued, e)
    PROVE  \A S \in {Counted, {"PlanExitRepair"}, {"StopHookBlocked"}, {"RequestModel"}} :
               Cardinality(Requested(S)') =
                   IF e \in S THEN Cardinality(Requested(S)) + 1
                   ELSE Cardinality(Requested(S))
<1>1. TAKE S \in {Counted, {"PlanExitRepair"}, {"StopHookBlocked"}, {"RequestModel"}}
<1>2. /\ e \in S => Cardinality(Requested(S)') = Cardinality(Requested(S)) + 1
      /\ e \notin S => Requested(S)' = Requested(S)
  BY RequestedGrows
<1>3. CASE e \in S
  BY <1>2, <1>3
<1>4. CASE e \notin S
  BY <1>2, <1>4
<1> QED BY <1>3, <1>4

\* A transition that requests an effect keeps the counters in step with it.
LEMMA IssuesKeepCounters ==
    ASSUME CounterInv, NEW e \in Effects, Opening(e) \/ Progress(e)
    PROVE  /\ CountersFaithful' /\ CallsInv' /\ ModelCallsBounded' /\ EndInv'
           /\ StopHookActiveFaithful'
<1> DEFINE turnsC == Cardinality(Requested(Counted))
           repairsC == Cardinality(Requested({"PlanExitRepair"}))
           hooksC == Cardinality(Requested({"StopHookBlocked"}))
<1>0. /\ LedgerInv /\ Issues(e) /\ issued' = Append(issued, e)
      /\ Len(issued) = effect_id /\ issued \in Seq(Effects)
      /\ effect_id \in Nat /\ turns \in Nat /\ start \in Nat /\ repairs \in Nat
      /\ hooks \in Nat /\ maxTurns \in Nat \cup {NoLimit}
  BY IdAssumption, CounterAssumption, RepairAssumption, HookAssumption
     DEF CounterInv, LedgerInv, TypeOK, PhaseInv, Opening, Progress, Issues
<1>1. /\ turnsC \in Nat /\ repairsC \in Nat /\ hooksC \in Nat /\ Calls \in Nat
  BY <1>0, RequestedFinite DEF Calls
<1>2. /\ turns = start + turnsC /\ repairs = repairsC /\ hooks = hooksC
  BY DEF CounterInv, CountersFaithful, Counted
<1>3. /\ turnsC' = IF e \in Counted THEN turnsC + 1 ELSE turnsC
      /\ repairsC' = IF e = "PlanExitRepair" THEN repairsC + 1 ELSE repairsC
      /\ hooksC' = IF e = "StopHookBlocked" THEN hooksC + 1 ELSE hooksC
      /\ Calls' = IF e = "RequestModel" THEN Calls + 1 ELSE Calls
  BY <1>0, CountsAfter DEF Calls
<1>4. start' = start /\ maxTurns' = maxTurns
  BY <1>0 DEF Issues
<1>5. CountersFaithful'
  <2>1. turns' = start' + turnsC' /\ repairs' = repairsC' /\ hooks' = hooksC'
    BY <1>0, <1>1, <1>2, <1>3, <1>4 DEF Issues
  <2> QED BY <2>1 DEF CountersFaithful, Counted
<1>6. /\ e = "RequestModel" => Calls = turns - start
      /\ e \in Counted \cup {"RecordAssistant"} \cup HookEffects =>
             Calls = turns - start + 1
      /\ e = "CommitToolResults" => Calls = turns - start
  <2>1. CASE Opening(e)
    BY <2>1 DEF Opening, CounterInv, CallsInv, Before, Counted, Continuations,
                HookEffects
  <2>2. CASE Progress(e)
    <3>1. issued[effect_id] \in Waiting(phase) /\ phase # "Ready"
          /\ issued[effect_id] \in Before(e)
      BY <2>2, <1>0 DEF LedgerInv, PhaseInv, Progress, Pending
    <3>2. /\ e = "RequestModel" => phase \in {"ToolResultsPending", "ContinuationPending"}
          /\ e \in Counted \cup {"RecordAssistant"} \cup HookEffects =>
                phase \in {"ModelPending", "AssistantPending", "StopHooksPending"}
          /\ e = "CommitToolResults" => phase = "ToolsPending"
      BY <3>1, <2>2 DEF Waiting, Before, Counted, Continuations, HookEffects, Ends,
                        Progress, Pending, Phases
    <3> QED BY <3>2 DEF CounterInv, CallsInv
  <2> QED BY <2>1, <2>2
<1>7. CallsInv'
  <2>1. /\ phase' = "ModelPending" => e = "RequestModel"
        /\ phase' = "AssistantPending" => e = "RecordAssistant"
        /\ phase' = "StopHooksPending" => e \in HookEffects
        /\ phase' \in {"ToolsPending", "ContinuationPending"} => e \in Counted
        /\ phase' = "ToolResultsPending" => e = "CommitToolResults"
        /\ phase' # "Ready"
    BY <1>0 DEF Issues, Waiting, Counted, Pending, Phases
  <2>2. /\ e \in Counted => turns' = turns + 1 /\ Calls' = Calls
        /\ e = "RequestModel" => turns' = turns /\ Calls' = Calls + 1
        /\ e \in HookEffects \cup {"RecordAssistant", "CommitToolResults"} =>
               turns' = turns /\ Calls' = Calls
    BY <1>0, <1>3 DEF Issues, Counted, Continuations, HookEffects
  <2>3. phase' \in {"ToolsPending", "ToolResultsPending", "ContinuationPending"} =>
            Calls' = turns' - start
    BY <2>1, <2>2, <1>0, <1>1, <1>6
  <2>4. phase' \in {"ModelPending", "AssistantPending", "StopHooksPending"} =>
            Calls' = turns' - start + 1
    BY <2>1, <2>2, <1>0, <1>1, <1>6
  <2> QED BY <2>1, <2>3, <2>4, <1>4 DEF CallsInv
<1>8. ModelCallsBounded'
  <2>1. CASE e = "RequestModel"
    <3>1. maxTurns # NoLimit => turns < maxTurns /\ maxTurns \in Nat
      BY <2>1, <1>0 DEF Issues
    <3>2. maxTurns # NoLimit => Calls' <= maxTurns - start
      BY <3>1, <2>1, <1>0, <1>1, <1>3, <1>6
    <3> QED BY <3>2, <1>4 DEF ModelCallsBounded, Calls
  <2>2. CASE e # "RequestModel"
    <3>1. Requested({"RequestModel"})' = Requested({"RequestModel"})
      BY <2>2, <1>0, RequestedGrows
    <3> QED BY <3>1, <1>4 DEF CounterInv, ModelCallsBounded
  <2> QED BY <2>1, <2>2
<1>9. EndInv'
  <2>1. end = "none"
    BY DEF CounterInv, EndInv, Opening, Progress, Pending
  <2>2. /\ end' = IF e \in Ends THEN e ELSE "none"
        /\ e \in Ends => phase' = "Finalizing" /\ repairs' = repairs /\ hooks' = hooks
    BY <1>0, <2>1
       DEF Issues, Waiting, Pending, Phases, Ends, Continuations, HookEffects
  <2>3. /\ e = "PlanExitRepairExhausted" => repairs = MaxPlanExitRepairs
        /\ e = "StopHookLimitReached" => hooks = MaxStopHookContinuations
    BY <1>0 DEF Issues
  <2> QED BY <2>2, <2>3 DEF EndInv
<1>10. StopHookActiveFaithful'
  <2>1. /\ Len(issued') = effect_id + 1
        /\ \A i \in 1..effect_id : issued'[i] = issued[i]
        /\ issued'[effect_id + 1] = e
    BY <1>0, AppendProps
  <2>2. hooks > 0 <=> \E j \in 1..effect_id : issued[j] = "StopHookBlocked"
    <3>1. IsFiniteSet(Requested({"StopHookBlocked"}))
      BY <1>0, RequestedFinite
    <3>2. hooksC = 0 <=> Requested({"StopHookBlocked"}) = {}
      BY <3>1, FS_EmptySet
    <3> QED BY <3>2, <1>0, <1>1, <1>2 DEF Requested
  <2>3. ASSUME NEW i \in 1..(effect_id + 1), issued'[i] \in HookEffects
        PROVE  (issued'[i] = "RunStopHooksActive") <=>
                   \E j \in 1..(i - 1) : issued'[j] = "StopHookBlocked"
    <3>1. CASE i = effect_id + 1
      <4>1. (e = "RunStopHooksActive") <=> hooks > 0
        BY <3>1, <2>1, <2>3, <1>0 DEF Issues, HookEffects
      <4>2. i - 1 = effect_id
        BY <3>1, <1>0
      <4> QED BY <4>1, <4>2, <3>1, <2>1, <2>2
    <3>2. CASE i # effect_id + 1
      <4>1. i \in 1..effect_id /\ \A j \in 1..(i - 1) : j \in 1..effect_id
        BY <3>2, <1>0
      <4>2. (issued[i] = "RunStopHooksActive") <=>
                \E j \in 1..(i - 1) : issued[j] = "StopHookBlocked"
        BY <4>1, <2>1, <2>3, <1>0 DEF CounterInv, StopHookActiveFaithful
      <4> QED BY <4>1, <4>2, <2>1
    <3> QED BY <3>1, <3>2
  <2> QED BY <2>1, <2>3 DEF StopHookActiveFaithful
<1> QED BY <1>5, <1>7, <1>8, <1>9, <1>10

\* A step that requests nothing keeps the counters.
LEMMA SameIssuedKeepsCounters ==
    ASSUME CounterInv, UNCHANGED <<end, turns, repairs, hooks, start, maxTurns, issued>>,
           phase' = phase \/ (phase = "Finalizing" /\ phase' = "Finished")
    PROVE  /\ CountersFaithful' /\ CallsInv' /\ ModelCallsBounded' /\ EndInv'
           /\ StopHookActiveFaithful'
<1>1. \A S : Requested(S)' = Requested(S)
  BY DEF Requested
<1>2. CountersFaithful'
  BY <1>1 DEF CounterInv, CountersFaithful
<1>3. CallsInv'
  BY <1>1 DEF CounterInv, CallsInv, Calls
<1>4. ModelCallsBounded'
  BY <1>1 DEF CounterInv, ModelCallsBounded
<1>5. EndInv' /\ StopHookActiveFaithful'
  BY DEF CounterInv, EndInv, StopHookActiveFaithful
<1> QED BY <1>2, <1>3, <1>4, <1>5

\* Every step of the machine keeps the counter invariant.
LEMMA CounterStep == ASSUME CounterInv, [Next]_vars PROVE CounterInv'
<1>1. LedgerInv /\ LedgerInv'
  BY LedgerStep DEF CounterInv
<1>2. CASE Next
  <2>1. Step
    BY <1>1, <1>2, NextIsStep
  <2>2. CASE Refusal
    BY <1>1, <2>2, SameIssuedKeepsCounters DEF Refusal, machine, history, CounterInv
  <2>3. CASE Closing
    BY <1>1, <2>3, SameIssuedKeepsCounters DEF Closing, CounterInv
  <2>4. CASE \E e \in Effects : Opening(e) \/ Progress(e)
    BY <1>1, <2>4, IssuesKeepCounters DEF CounterInv
  <2> QED BY <2>1, <2>2, <2>3, <2>4 DEF Step
<1>3. CASE UNCHANGED vars
  BY <1>1, <1>3, SameIssuedKeepsCounters DEF vars, CounterInv
<1> QED BY <1>2, <1>3

\* A fresh machine satisfies the counter invariant.
LEMMA CounterInit == Init => CounterInv
<1> SUFFICES ASSUME Init PROVE CounterInv
  OBVIOUS
<1>1. LedgerInv
  BY LedgerInit
<1>2. \A S : Requested(S) = {}
  BY DEF Init, Requested
<1>3. \A S : Cardinality(Requested(S)) = 0
  BY <1>2, FS_EmptySet
<1>4. CountersFaithful /\ CallsInv /\ ModelCallsBounded /\ EndInv
  BY <1>2, <1>3, CounterAssumption
     DEF Init, CountersFaithful, CallsInv, Calls, ModelCallsBounded, EndInv
<1>5. StopHookActiveFaithful
  BY DEF Init, StopHookActiveFaithful
<1> QED BY <1>1, <1>4, <1>5 DEF CounterInv

\* agentic_turns and the recovery counters count what was requested.
THEOREM CountersTheorem == Spec => []CountersFaithful
<1>1. CounterInv => CountersFaithful
  BY DEF CounterInv
<1> QED BY <1>1, CounterInit, CounterStep, PTL DEF Spec

\* A limit on turns bounds the model requests of an entry.
THEOREM ModelCallsTheorem == Spec => []ModelCallsBounded
<1>1. CounterInv => ModelCallsBounded
  BY DEF CounterInv
<1> QED BY <1>1, CounterInit, CounterStep, PTL DEF Spec

\* Plan repairs and stop-hook blocks are bounded, and giving up means that the
\* bound was used in full.
THEOREM RecoveryTheorem == Spec => []RecoveryBounded
<1>1. CounterInv => RecoveryBounded
  BY RepairAssumption, HookAssumption
     DEF CounterInv, LedgerInv, TypeOK, CountersFaithful, EndInv, RecoveryBounded
<1> QED BY <1>1, CounterInit, CounterStep, PTL DEF Spec

\* Stop hooks learn of an earlier block in every later consultation.
THEOREM StopHookActiveTheorem == Spec => []StopHookActiveFaithful
<1>1. CounterInv => StopHookActiveFaithful
  BY DEF CounterInv
<1> QED BY <1>1, CounterInit, CounterStep, PTL DEF Spec

\* What an entry counts, spends and tells its stop hooks is exact, for every
\* limit and every width of the counters.
THEOREM BudgetsTheorem == Spec => []BudgetsKept
<1> QED BY CountersTheorem, ModelCallsTheorem, RecoveryTheorem, StopHookActiveTheorem,
           PTL DEF BudgetsKept

-----------------------------------------------------------------------------
(* Accounts of calls and results *)

\* The places of a call in the calls of a message, and of the results for an
\* identity in a sequence of results.
Uses(uses, id) == {k \in DOMAIN uses : uses[k] = id}
Answers(results, id) == {q \in DOMAIN results : results[q].id = id}
CallsOf(uses, id) == Cardinality(Uses(uses, id))
ResultsOf(results, id) == Cardinality(Answers(results, id))

\* The calls of every message but the last ones are settled: no result is
\* missing or left over when a message without results follows.
Settled(h) ==
    \A k \in DOMAIN h, id \in Ids :
        ~HasToolResult(h[k]) => Outstanding(h, k - 1, id) = 0

\* Counting up to one more number.
LEMMA CountNext ==
    ASSUME NEW n \in Nat, NEW A \in SUBSET (1..(n + 1))
    PROVE  /\ IsFiniteSet(A) /\ Cardinality(A) \in Nat
           /\ Cardinality(A \cap (1..n)) \in Nat
           /\ Cardinality(A) = Cardinality(A \cap (1..n)) + (IF n + 1 \in A THEN 1 ELSE 0)
<1>1. IsFiniteSet(1..(n + 1)) /\ IsFiniteSet(1..n)
  BY FS_Interval
<1>2. PICK B : B = A \cap (1..n)
  OBVIOUS
<1>3. IsFiniteSet(A) /\ IsFiniteSet(B)
  <2>1. IsFiniteSet(A)
    BY <1>1, FS_Subset
  <2> QED
    BY <1>2, <2>1, FS_Subset
<1>4. Cardinality(A) \in Nat /\ Cardinality(B) \in Nat
  BY <1>3, FS_CardinalityType
<1>5. B = A \ {n + 1}
  <2>1. \A x \in A : x \in 1..n <=> x # n + 1
    OBVIOUS
  <2> QED
    BY <1>2, <2>1, Zenon
<1>6. Cardinality(B) = IF n + 1 \in A THEN Cardinality(A) - 1 ELSE Cardinality(A)
  BY <1>3, <1>5, FS_RemoveElement
<1> QED
  BY <1>2, <1>3, <1>4, <1>6

\* The places in a sequence are finitely many.
LEMMA CountsFinite ==
    ASSUME NEW S, NEW s \in Seq(S), NEW id
    PROVE  /\ IsFiniteSet(Uses(s, id)) /\ CallsOf(s, id) \in Nat
           /\ IsFiniteSet(Answers(s, id)) /\ ResultsOf(s, id) \in Nat
<1>1. IsFiniteSet(1..Len(s))
  BY FS_Interval
<1>2. Uses(s, id) \in SUBSET (1..Len(s)) /\ Answers(s, id) \in SUBSET (1..Len(s))
  BY DEF Uses, Answers
<1>3. IsFiniteSet(Uses(s, id)) /\ IsFiniteSet(Answers(s, id))
  BY <1>1, <1>2, FS_Subset
<1> QED
  BY <1>3, FS_CardinalityType DEF CallsOf, ResultsOf

\* A message has results or calls, never both.
LEMMA MessageTypes ==
    ASSUME NEW m \in Message
    PROVE  /\ m.uses \in Seq(Ids) /\ m.results \in Seq(Result)
           /\ HasToolResult(m) => m = ResultMessage(m.results)
           /\ HasToolResult(m) => m.role # "assistant"
           /\ ~HasToolResult(m) => m.results = <<>>
           /\ ~HasToolResult(m) /\ m.role # "assistant" => m.uses = <<>>
<1>e. <<>> \in Seq(Ids) /\ <<>> \in Seq(Result)
  BY EmptySeq
<1>1. CASE m \in [role : {"assistant"}, uses : Seq(Ids), results : {<<>>}]
  <2>1. m.role = "assistant" /\ m.uses \in Seq(Ids) /\ m.results = <<>>
    BY <1>1, Zenon
  <2> QED
    BY <1>e, <2>1, Zenon DEF HasToolResult
<1>2. CASE m \in [role : {"user"}, uses : {<<>>}, results : Seq(Result)]
  <2>1. m.role = "user" /\ m.uses = <<>> /\ m.results \in Seq(Result)
    BY <1>2, Zenon
  <2>2. m = [role |-> "user", uses |-> <<>>, results |-> m.results]
    BY <1>2, <2>1
  <2>3. "user" # "assistant"
    OBVIOUS
  <2>4. m = ResultMessage(m.results)
    BY <2>2, Zenon DEF ResultMessage
  <2>5. ~HasToolResult(m) => m.results = <<>>
    BY Zenon DEF HasToolResult
  <2> QED
    BY <1>e, <2>1, <2>3, <2>4, <2>5, Zenon
<1> QED
  BY <1>1, <1>2 DEF Message

\* The messages a turn adds.
LEMMA MessagesBuilt ==
    /\ UserText \in Message /\ ~HasToolResult(UserText) /\ UserText.uses = <<>>
    /\ \A ids \in Seq(Ids) : /\ Assistant(ids) \in Message /\ ~HasToolResult(Assistant(ids))
                             /\ Assistant(ids).uses = ids
    /\ \A results \in Seq(Result) :
          /\ ResultMessage(results) \in Message
          /\ ResultMessage(results).results = results
          /\ HasToolResult(ResultMessage(results)) <=> results # <<>>
BY DEF UserText, Assistant, ResultMessage, Message, HasToolResult

\* There is a last message that results may follow.
LEMMA LastAsker ==
    ASSUME NEW h \in Seq(Message), NEW n \in 0..Len(h)
    PROVE  /\ Max(Askers(h, n)) \in Askers(h, n)
           /\ Max(Askers(h, n)) \in 0..n
           /\ \A j \in Askers(h, n) : j <= Max(Askers(h, n))
<1>1. Askers(h, n) \subseteq 0..n /\ 0 \in Askers(h, n)
  BY DEF Askers
<1>2. \E x \in Askers(h, n) : \A y \in Askers(h, n) : x >= y
  <2>1. PICK T : T = Askers(h, n) \ {0}
    OBVIOUS
  <2>2. T \in SUBSET (1..n) /\ n \in Nat
    BY <1>1, <2>1
  <2>3. CASE T = {}
    BY <1>1, <2>1, <2>3
  <2>4. CASE T # {}
    <3>1. PICK x \in T : \A y \in T : x >= y
      BY <2>2, <2>4, GreatestNumber
    <3> QED
      BY <1>1, <2>1, <2>2, <3>1
  <2> QED
    BY <2>3, <2>4
<1>3. /\ Max(Askers(h, n)) \in Askers(h, n)
      /\ \A y \in Askers(h, n) : Max(Askers(h, n)) >= y
  BY <1>2, Zenon DEF Max
<1>4. \A y \in Askers(h, n) : Max(Askers(h, n)) >= y => y <= Max(Askers(h, n))
  BY <1>1, <1>3
<1> QED
  BY <1>1, <1>3, <1>4

\* The results after a message, up to one more message.
LEMMA ResultsGrow ==
    ASSUME NEW h \in Seq(Message), NEW n \in Nat, n < Len(h), NEW i \in 0..n, NEW id,
           IsFiniteSet(ResultsAfter(h, i, n, id))
    PROVE  /\ IsFiniteSet(ResultsAfter(h, i, n + 1, id))
           /\ Cardinality(ResultsAfter(h, i, n + 1, id))
                = Cardinality(ResultsAfter(h, i, n, id)) + ResultsOf(h[n + 1].results, id)
<1>1. PICK A : A = Answers(h[n + 1].results, id)
  OBVIOUS
<1>2. PICK R : R = ResultsAfter(h, i, n, id)
  OBVIOUS
<1>3. h[n + 1] \in Message /\ n + 1 \in 1..Len(h)
  OBVIOUS
<1>4. IsFiniteSet(A)
  BY <1>1, <1>3, MessageTypes, CountsFinite
<1>5. IsFiniteSet({n + 1} \X A) /\ Cardinality({n + 1} \X A) = Cardinality(A)
  <2>1. IsFiniteSet({n + 1}) /\ Cardinality({n + 1}) = 1
    BY FS_Singleton
  <2>2. Cardinality(A) \in Nat
    BY <1>4, FS_CardinalityType
  <2> QED
    BY <1>4, <2>1, <2>2, FS_Product
<1>6. ResultsAfter(h, i, n + 1, id) = R \cup ({n + 1} \X A)
  <2>1. (i + 1)..(n + 1) = ((i + 1)..n) \cup {n + 1}
    OBVIOUS
  <2>2. ASSUME NEW p PROVE p \in ResultsAfter(h, i, n + 1, id)
                             <=> p \in R \/ p \in {n + 1} \X A
    <3>1. p \in ResultsAfter(h, i, n + 1, id)
            <=> \E k \in (i + 1)..(n + 1) : p \in {k} \X Answers(h[k].results, id)
      BY DEF ResultsAfter, Answers
    <3>2. p \in R <=> \E k \in (i + 1)..n : p \in {k} \X Answers(h[k].results, id)
      BY <1>2 DEF ResultsAfter, Answers
    <3> QED
      BY <1>1, <2>1, <3>1, <3>2, Zenon
  <2> QED
    BY <2>2, Zenon
<1>7. R \cap ({n + 1} \X A) = {}
  <2>1. ASSUME NEW p \in R, p \in {n + 1} \X A PROVE FALSE
    <3>1. PICK k \in (i + 1)..n : p \in {k} \X Answers(h[k].results, id)
      BY <1>2, <2>1 DEF ResultsAfter, Answers
    <3>2. p[1] = k /\ p[1] = n + 1
      BY <2>1, <3>1
    <3> QED
      BY <3>2
  <2> QED
    BY <2>1
<1>8. Cardinality(R) \in Nat /\ Cardinality(A) \in Nat
  BY <1>2, <1>4, FS_CardinalityType
<1>9. Cardinality(R \cap ({n + 1} \X A)) = 0
  BY <1>7, FS_EmptySet
<1>10. /\ IsFiniteSet(R \cup ({n + 1} \X A))
       /\ Cardinality(R \cup ({n + 1} \X A)) = Cardinality(R) + Cardinality(A) - 0
  <2>1. PICK P : P = {n + 1} \X A
    OBVIOUS
  <2>2. IsFiniteSet(R) /\ IsFiniteSet(P)
    BY <1>2, <1>5, <2>1
  <2>3. /\ IsFiniteSet(R \cup P)
        /\ Cardinality(R \cup P) = Cardinality(R) + Cardinality(P) - Cardinality(R \cap P)
    BY <2>2, FS_Union
  <2>4. Cardinality(P) = Cardinality(A) /\ Cardinality(R \cap P) = 0
    BY <1>5, <1>9, <2>1
  <2> QED
    BY <2>1, <2>3, <2>4
<1>11. Cardinality(R \cup ({n + 1} \X A)) = Cardinality(R) + Cardinality(A)
  BY <1>8, <1>10
<1>12. Cardinality(A) = ResultsOf(h[n + 1].results, id)
  BY <1>1 DEF ResultsOf
<1> QED
  BY <1>2, <1>6, <1>10, <1>11, <1>12, Zenon

\* No result comes between a message and itself.
LEMMA NoResultsYet ==
    ASSUME NEW h, NEW n \in Nat, NEW id
    PROVE  ResultsAfter(h, n, n, id) = {}
<1>1. (n + 1)..n = {}
  OBVIOUS
<1> QED
  BY <1>1, Zenon DEF ResultsAfter

\* A transcript holds finitely many results.
LEMMA ResultsFinite ==
    ASSUME NEW h \in Seq(Message), NEW n \in 0..Len(h), NEW i \in 0..n, NEW id
    PROVE  /\ IsFiniteSet(ResultsAfter(h, i, n, id))
           /\ Cardinality(ResultsAfter(h, i, n, id)) \in Nat
<1> DEFINE T == {d \in Nat : i + d <= Len(h) => IsFiniteSet(ResultsAfter(h, i, i + d, id))}
<1>1. 0 \in T
  <2>1. i + 0 = i /\ i \in Nat
    OBVIOUS
  <2> QED
    BY <2>1, NoResultsYet, FS_EmptySet
<1>2. ASSUME NEW d \in T PROVE d + 1 \in T
  <2> SUFFICES ASSUME i + (d + 1) <= Len(h)
               PROVE  IsFiniteSet(ResultsAfter(h, i, i + (d + 1), id))
    OBVIOUS
  <2>1. IsFiniteSet(ResultsAfter(h, i, i + d, id))
    OBVIOUS
  <2>2. i + d \in Nat /\ i + d < Len(h) /\ i \in 0..(i + d) /\ (i + d) + 1 = i + (d + 1)
    OBVIOUS
  <2> HIDE DEF T
  <2> QED
    BY <2>1, <2>2, ResultsGrow
<1>3. n - i \in T
  <2>1. n - i \in Nat /\ T \in SUBSET Nat
    OBVIOUS
  <2> HIDE DEF T
  <2> QED
    BY <1>1, <1>2, <2>1, EveryNumber
<1>4. i + (n - i) = n /\ n <= Len(h)
  OBVIOUS
<1>5. IsFiniteSet(ResultsAfter(h, i, n, id))
  BY <1>3, <1>4
<1> QED
  BY <1>5, FS_CardinalityType

\* How often a call was made is a number.
LEMMA AskedNumber ==
    ASSUME NEW h \in Seq(Message), NEW i \in 0..Len(h), NEW id
    PROVE  /\ Asked(h, i, id) \in Nat
           /\ i # 0 => Asked(h, i, id) = CallsOf(h[i].uses, id)
<1>1. CASE i = 0
  BY <1>1 DEF Asked
<1>2. CASE i # 0
  <2>1. h[i] \in Message
    BY <1>2
  <2>2. CallsOf(h[i].uses, id) \in Nat
    BY <2>1, MessageTypes, CountsFinite
  <2> QED
    BY <1>2, <2>2 DEF Asked, CallsOf, Uses
<1> QED
  BY <1>1, <1>2

\* What is outstanding is a number.
LEMMA OutstandingNumber ==
    ASSUME NEW h \in Seq(Message), NEW n \in 0..Len(h), NEW id
    PROVE  Outstanding(h, n, id) \in Int
<1>1. PICK i \in 0..n : i = Max(Askers(h, n))
  BY LastAsker
<1>2. Cardinality(ResultsAfter(h, i, n, id)) \in Nat /\ Asked(h, i, id) \in Nat
  BY ResultsFinite, AskedNumber
<1> QED
  BY <1>1, <1>2 DEF Outstanding

-----------------------------------------------------------------------------
(* A transcript with one more message *)

\* A transcript with one message more.
LEMMA MoreMessages ==
    ASSUME NEW h \in Seq(Message), NEW m \in Message
    PROVE  /\ Append(h, m) \in Seq(Message) /\ Len(Append(h, m)) = Len(h) + 1
           /\ \A k \in 1..Len(h) : Append(h, m)[k] = h[k]
           /\ Append(h, m)[Len(h) + 1] = m
           /\ Len(h) \in Nat
OBVIOUS

\* What comes later does not change what was outstanding.
LEMMA OutstandingBefore ==
    ASSUME NEW h \in Seq(Message), NEW m \in Message, NEW n \in 0..Len(h), NEW id
    PROVE  Outstanding(Append(h, m), n, id) = Outstanding(h, n, id)
<1>1. PICK g : g = Append(h, m)
  OBVIOUS
<1>2. \A k \in 1..Len(h) : g[k] = h[k]
  BY <1>1, MoreMessages
<1>3. Askers(g, n) = Askers(h, n)
  <2>1. \A k \in 1..n : g[k] = h[k]
    BY <1>2
  <2> QED
    BY <2>1, Zenon DEF Askers
<1>4. PICK i \in 0..n : i = Max(Askers(h, n))
  BY LastAsker
<1>5. Asked(g, i, id) = Asked(h, i, id)
  <2>1. CASE i = 0
    BY <2>1 DEF Asked
  <2>2. CASE i # 0
    <3>1. g[i] = h[i]
      BY <1>2, <2>2
    <3> QED
      BY <3>1, Zenon DEF Asked
  <2> QED
    BY <2>1, <2>2
<1>6. ResultsAfter(g, i, n, id) = ResultsAfter(h, i, n, id)
  <2>1. \A k \in (i + 1)..n : g[k] = h[k]
    BY <1>2
  <2>2. ASSUME NEW p PROVE p \in ResultsAfter(g, i, n, id) <=> p \in ResultsAfter(h, i, n, id)
    <3>1. p \in ResultsAfter(g, i, n, id)
            <=> \E k \in (i + 1)..n : p \in {k} \X Answers(g[k].results, id)
      BY DEF ResultsAfter, Answers
    <3>2. p \in ResultsAfter(h, i, n, id)
            <=> \E k \in (i + 1)..n : p \in {k} \X Answers(h[k].results, id)
      BY DEF ResultsAfter, Answers
    <3> QED
      BY <2>1, <3>1, <3>2, Zenon
  <2> QED
    BY <2>2, Zenon
<1>7. Outstanding(g, n, id) = Outstanding(h, n, id)
  BY <1>3, <1>4, <1>5, <1>6, Zenon DEF Outstanding
<1> QED
  BY <1>1, <1>7

\* A message without results starts the account anew with its own calls.
LEMMA OutstandingAsked ==
    ASSUME NEW h \in Seq(Message), NEW m \in Message, ~HasToolResult(m), NEW id
    PROVE  Outstanding(Append(h, m), Len(h) + 1, id) = CallsOf(m.uses, id)
<1>1. PICK g : g = Append(h, m)
  OBVIOUS
<1>2. PICK n \in Nat : n = Len(h) + 1
  OBVIOUS
<1>3. g \in Seq(Message) /\ Len(g) = n /\ g[n] = m /\ n \in 0..Len(g) /\ n \in 1..n
  BY <1>1, <1>2, MoreMessages
<1>4. Max(Askers(g, n)) = n
  <2>1. n \in Askers(g, n)
    BY <1>3 DEF Askers
  <2>2. PICK i \in 0..n : i = Max(Askers(g, n)) /\ \A j \in Askers(g, n) : j <= i
    BY <1>3, LastAsker
  <2> QED
    BY <2>1, <2>2
<1>5. Asked(g, n, id) = CallsOf(m.uses, id)
  BY <1>2, <1>3, AskedNumber
<1>6. Cardinality(ResultsAfter(g, n, n, id)) = 0
  BY NoResultsYet, FS_EmptySet
<1>7. CallsOf(m.uses, id) \in Nat
  BY MessageTypes, CountsFinite
<1>8. Outstanding(g, n, id) = CallsOf(m.uses, id) - 0
  BY <1>4, <1>5, <1>6, Zenon DEF Outstanding
<1> QED
  BY <1>1, <1>2, <1>7, <1>8

\* A message with results settles as many calls as it has results.
LEMMA OutstandingAnswered ==
    ASSUME NEW h \in Seq(Message), NEW m \in Message, HasToolResult(m), NEW id
    PROVE  Outstanding(Append(h, m), Len(h) + 1, id)
             = Outstanding(h, Len(h), id) - ResultsOf(m.results, id)
<1>1. PICK g : g = Append(h, m)
  OBVIOUS
<1>2. PICK n \in Nat : n = Len(h)
  OBVIOUS
<1>3. /\ g \in Seq(Message) /\ Len(g) = n + 1 /\ g[n + 1] = m /\ n < Len(g)
      /\ n \in 0..Len(h) /\ n \in 0..Len(g) /\ n + 1 \in 0..Len(g)
  BY <1>1, <1>2, MoreMessages
<1>4. PICK i \in 0..n : i = Max(Askers(g, n))
  BY <1>3, LastAsker
<1>5. Askers(g, n + 1) = Askers(g, n)
  <2>1. 1..(n + 1) = (1..n) \cup {n + 1}
    OBVIOUS
  <2>2. HasToolResult(g[n + 1])
    BY <1>3
  <2> QED
    BY <2>1, <2>2, Zenon DEF Askers
<1>6. IsFiniteSet(ResultsAfter(g, i, n, id)) /\ Cardinality(ResultsAfter(g, i, n, id)) \in Nat
  BY <1>3, ResultsFinite
<1>7. Cardinality(ResultsAfter(g, i, n + 1, id))
        = Cardinality(ResultsAfter(g, i, n, id)) + ResultsOf(m.results, id)
  BY <1>3, <1>6, ResultsGrow
<1>8. Asked(g, i, id) \in Nat /\ ResultsOf(m.results, id) \in Nat
  <2>1. i \in 0..Len(g)
    BY <1>3
  <2> QED
    BY <1>3, <2>1, AskedNumber, MessageTypes, CountsFinite
<1>9. Outstanding(g, n, id) = Asked(g, i, id) - Cardinality(ResultsAfter(g, i, n, id))
  BY <1>4, Zenon DEF Outstanding
<1>10. Outstanding(g, n + 1, id) = Asked(g, i, id) - Cardinality(ResultsAfter(g, i, n + 1, id))
  BY <1>4, <1>5, Zenon DEF Outstanding
<1>11. Outstanding(g, n, id) = Outstanding(h, n, id)
  BY <1>1, <1>3, OutstandingBefore
<1>12. Outstanding(g, n + 1, id) = Outstanding(g, n, id) - ResultsOf(m.results, id)
  BY <1>6, <1>7, <1>8, <1>9, <1>10
<1> QED
  BY <1>1, <1>2, <1>11, <1>12

\* Nothing is outstanding in an empty transcript.
LEMMA OutstandingNone == \A id : Outstanding(<<>>, 0, id) = 0
<1> SUFFICES ASSUME NEW id PROVE Outstanding(<<>>, 0, id) = 0
  OBVIOUS
<1>1. <<>> \in Seq(Message) /\ 0 \in 0..Len(<<>>)
  OBVIOUS
<1>2. Max(Askers(<<>>, 0)) = 0
  <2>1. Max(Askers(<<>>, 0)) \in 0..0
    BY <1>1, LastAsker
  <2> QED
    BY <2>1
<1>3. Asked(<<>>, 0, id) = 0
  BY DEF Asked
<1>4. Cardinality(ResultsAfter(<<>>, 0, 0, id)) = 0
  BY NoResultsYet, FS_EmptySet
<1>5. Outstanding(<<>>, 0, id) = 0 - 0
  BY <1>2, <1>3, <1>4, Zenon DEF Outstanding
<1> QED
  BY <1>5

\* A transcript is well paired when it is settled and nothing is outstanding.
LEMMA PairedIsSettled ==
    ASSUME NEW h \in Seq(Message)
    PROVE  WellPaired(h) <=> Settled(h) /\ \A id \in Ids : Outstanding(h, Len(h), id) = 0
<1>1. ASSUME WellPaired(h)
      PROVE  Settled(h) /\ \A id \in Ids : Outstanding(h, Len(h), id) = 0
  <2>1. ASSUME NEW k \in DOMAIN h, NEW id \in Ids, ~HasToolResult(h[k])
        PROVE  Outstanding(h, k - 1, id) = 0
    <3>1. k \in 1..(Len(h) + 1)
      OBVIOUS
    <3> QED
      BY <1>1, <2>1, <3>1, Zenon DEF WellPaired
  <2>2. ASSUME NEW id \in Ids PROVE Outstanding(h, Len(h), id) = 0
    <3>1. Len(h) + 1 \in 1..(Len(h) + 1) /\ Len(h) + 1 \notin DOMAIN h
          /\ (Len(h) + 1) - 1 = Len(h)
      OBVIOUS
    <3>2. Outstanding(h, (Len(h) + 1) - 1, id) = 0
      BY <1>1, <3>1, Zenon DEF WellPaired
    <3> QED
      BY <3>1, <3>2
  <2> QED
    BY <2>1, <2>2, Zenon DEF Settled
<1>2. ASSUME Settled(h), \A id \in Ids : Outstanding(h, Len(h), id) = 0
      PROVE  WellPaired(h)
  <2>1. ASSUME NEW k \in 1..(Len(h) + 1), NEW id \in Ids,
               k \in DOMAIN h => ~HasToolResult(h[k])
        PROVE  Outstanding(h, k - 1, id) = 0
    <3>1. CASE k \in DOMAIN h
      BY <1>2, <2>1, <3>1, Zenon DEF Settled
    <3>2. CASE k \notin DOMAIN h
      <4>1. k - 1 = Len(h)
        BY <3>2
      <4> QED
        BY <1>2, <4>1
    <3> QED
      BY <3>1, <3>2
  <2> QED
    BY <2>1, Zenon DEF WellPaired
<1> QED
  BY <1>1, <1>2

\* A transcript stays settled when nothing was outstanding before a message
\* that is not a result.
LEMMA SettledAppend ==
    ASSUME NEW h \in Seq(Message), NEW m \in Message
    PROVE  Settled(Append(h, m))
             <=> /\ Settled(h)
                 /\ ~HasToolResult(m) => \A id \in Ids : Outstanding(h, Len(h), id) = 0
<1>1. PICK g : g = Append(h, m)
  OBVIOUS
<1>2. PICK n \in Nat : n = Len(h)
  OBVIOUS
<1>3. /\ DOMAIN g = 1..(n + 1) /\ DOMAIN h = 1..n /\ g[n + 1] = m
      /\ \A k \in 1..n : g[k] = h[k]
  BY <1>1, <1>2, MoreMessages
<1>4. \A k \in 1..(n + 1) : \A id : Outstanding(g, k - 1, id) = Outstanding(h, k - 1, id)
  <2>1. \A k \in 1..(n + 1) : k - 1 \in 0..Len(h)
    BY <1>2
  <2> QED
    BY <1>1, <2>1, OutstandingBefore
<1>5. ASSUME Settled(g)
      PROVE  Settled(h) /\ (~HasToolResult(m) => \A id \in Ids : Outstanding(h, n, id) = 0)
  <2>1. ASSUME NEW k \in DOMAIN h, NEW id \in Ids, ~HasToolResult(h[k])
        PROVE  Outstanding(h, k - 1, id) = 0
    <3>1. k \in 1..(n + 1) /\ k \in 1..n
      BY <1>3
    <3> QED
      BY <1>3, <1>4, <1>5, <2>1, <3>1, Zenon DEF Settled
  <2>2. ASSUME NEW id \in Ids, ~HasToolResult(m) PROVE Outstanding(h, n, id) = 0
    <3>1. n + 1 \in 1..(n + 1) /\ (n + 1) - 1 = n
      OBVIOUS
    <3>2. Outstanding(h, (n + 1) - 1, id) = 0
      BY <1>3, <1>4, <1>5, <2>2, <3>1, Zenon DEF Settled
    <3> QED
      BY <3>1, <3>2
  <2> QED
    BY <2>1, <2>2, Zenon DEF Settled
<1>6. ASSUME Settled(h), ~HasToolResult(m) => \A id \in Ids : Outstanding(h, n, id) = 0
      PROVE  Settled(g)
  <2>1. ASSUME NEW k \in DOMAIN g, NEW id \in Ids, ~HasToolResult(g[k])
        PROVE  Outstanding(g, k - 1, id) = 0
    <3>1. CASE k = n + 1
      <4>1. k - 1 = n /\ ~HasToolResult(m)
        BY <1>3, <2>1, <3>1
      <4> QED
        BY <1>3, <1>4, <1>6, <4>1
    <3>2. CASE k # n + 1
      <4>1. k \in 1..n /\ k \in 1..(n + 1)
        BY <1>3, <3>2
      <4> QED
        BY <1>3, <1>4, <1>6, <2>1, <4>1, Zenon DEF Settled
    <3> QED
      BY <3>1, <3>2
  <2> QED
    BY <2>1, Zenon DEF Settled
<1> QED
  BY <1>1, <1>2, <1>5, <1>6
-----------------------------------------------------------------------------
(* What was recorded *)

\* How many results for its identity a message has up to place q.
Rank(results, q) == Cardinality({p \in 1..q : results[p].id = results[q].id})

\* The results that something was recorded for, when answers are outstanding.
RecordedIn(results, left) ==
    {q \in DOMAIN results : /\ Rank(results, q) <= left[results[q].id]
                            /\ ~results[q].synthetic}
Left(h) == [id \in Ids |-> Outstanding(h, Len(h), id)]

\* Recorded results are results.
LEMMA RecordedTyped ==
    ASSUME NEW results \in Seq(Result), NEW left
    PROVE  Selected(results, RecordedIn(results, left)) \in Seq(Result)
<1>1. PICK n \in Nat : n = Len(results)
  OBVIOUS
<1>2. RecordedIn(results, left) \in SUBSET (1..n)
  BY <1>1 DEF RecordedIn
<1>3. PICK r : r = Append(results, results[1])
  OBVIOUS
<1>4. CASE n = 0
  <2>1. RecordedIn(results, left) = {}
    BY <1>2, <1>4
  <2>2. <<>> \in Seq(Result)
    OBVIOUS
  <2> QED
    BY <2>1, <2>2, SelectedNone
<1>5. CASE n # 0
  <2>1. r \in Seq(Result) /\ r[n + 1] \in Result /\ \A p \in 1..n : r[p] = results[p] /\ r[p] \in Result
    BY <1>1, <1>3, <1>5
  <2>2. Selected(r, RecordedIn(results, left)) \in Seq(Result)
    BY <1>2, <2>1, SelectedNext
  <2>3. Selected(r, RecordedIn(results, left)) = Selected(results, RecordedIn(results, left))
    BY <1>2, <2>1, SelectedSame
  <2> QED
    BY <2>2, <2>3
<1> QED
  BY <1>4, <1>5

\* What one message adds to what was recorded.
LEMMA RecordedAppend ==
    ASSUME NEW h \in Seq(Message), NEW m \in Message
    PROVE  /\ RecordedAnswers(h) \in Seq(Result)
           /\ RecordedAnswers(Append(h, m))
                = RecordedAnswers(h) \o Selected(m.results, RecordedIn(m.results, Left(h)))
<1> DEFINE Part(t, k) == Selected(t[k].results,
                            {q \in AnswersIn(t, k) : ~t[k].results[q].synthetic})
           LeftAt(t, k) == [id \in Ids |-> Outstanding(t, k - 1, id)]
<1>1. ASSUME NEW t \in Seq(Message), NEW k \in 1..Len(t)
      PROVE  Part(t, k) = Selected(t[k].results, RecordedIn(t[k].results, LeftAt(t, k)))
  <2>1. t[k].results \in Seq(Result)
    BY MessageTypes
  <2>2. \A q \in DOMAIN t[k].results : t[k].results[q].id \in Ids
    <3>1. \A q \in DOMAIN t[k].results : t[k].results[q] \in Result
      BY <2>1
    <3> QED
      BY <3>1 DEF Result
  <2>3. \A q \in DOMAIN t[k].results :
           LeftAt(t, k)[t[k].results[q].id] = Outstanding(t, k - 1, t[k].results[q].id)
    BY <2>2
  <2>4. {q \in AnswersIn(t, k) : ~t[k].results[q].synthetic}
          = RecordedIn(t[k].results, LeftAt(t, k))
    <3> HIDE DEF LeftAt
    <3> QED
      BY <2>3, Zenon DEF AnswersIn, RecordedIn, Rank
  <2> QED
    BY <2>4, Zenon
<1>2. ASSUME NEW t \in Seq(Message), NEW k \in 1..Len(t)
      PROVE  Part(t, k) \in Seq(Result)
  <2>1. t[k].results \in Seq(Result)
    BY MessageTypes
  <2> HIDE DEF Part, LeftAt
  <2> QED
    BY <1>1, <2>1, RecordedTyped
<1>3. PICK g : g = Append(h, m)
  OBVIOUS
<1>4. PICK n \in Nat : n = Len(h)
  OBVIOUS
<1>5. g \in Seq(Message) /\ Len(g) = n + 1 /\ g[n + 1] = m /\ \A k \in 1..n : g[k] = h[k]
  BY <1>3, <1>4, MoreMessages
<1>6. ASSUME NEW k \in 1..n PROVE Part(g, k) = Part(h, k)
  <2>1. LeftAt(g, k) = LeftAt(h, k)
    <3>1. k - 1 \in 0..Len(h)
      BY <1>4
    <3>2. \A id : Outstanding(g, k - 1, id) = Outstanding(h, k - 1, id)
      BY <1>3, <3>1, OutstandingBefore
    <3> QED
      BY <3>2, Zenon
  <2>2. k \in 1..Len(g) /\ k \in 1..Len(h) /\ g[k] = h[k]
    BY <1>4, <1>5
  <2> HIDE DEF Part, LeftAt
  <2> QED
    BY <1>1, <1>5, <2>1, <2>2
<1>7. Part(g, n + 1) = Selected(m.results, RecordedIn(m.results, Left(h)))
  <2>1. LeftAt(g, n + 1) = Left(h)
    <3>1. n \in 0..Len(h) /\ (n + 1) - 1 = n
      BY <1>4
    <3>2. \A id : Outstanding(g, n, id) = Outstanding(h, n, id)
      BY <1>3, <3>1, OutstandingBefore
    <3> QED
      BY <1>4, <3>1, <3>2, Zenon DEF Left
  <2>2. n + 1 \in 1..Len(g)
    BY <1>5
  <2> HIDE DEF Part, LeftAt
  <2> QED
    BY <1>1, <1>5, <2>1, <2>2
<1>8. PICK ss, tt : ss = [k \in 1..n |-> Part(h, k)] /\ tt = [k \in 1..(n + 1) |-> Part(g, k)]
  OBVIOUS
<1>9. RecordedAnswers(h) = FlattenSeq(ss) /\ RecordedAnswers(g) = FlattenSeq(tt)
  <2>1. DOMAIN h = 1..n /\ DOMAIN g = 1..(n + 1)
    BY <1>4, <1>5
  <2> QED
    BY <1>8, <2>1, Zenon DEF RecordedAnswers
<1> HIDE DEF Part
<1>10. ss \in Seq(Seq(Result)) /\ Part(g, n + 1) \in Seq(Result)
  <2>1. \A k \in 1..n : Part(h, k) \in Seq(Result)
    BY <1>2, <1>4
  <2>2. n + 1 \in 1..Len(g)
    BY <1>5
  <2> QED
    BY <1>2, <1>5, <1>8, <2>1, <2>2
<1>11. tt = Append(ss, Part(g, n + 1))
  <2>1. Len(ss) = n
    BY <1>8
  <2>2. \A k \in 1..(n + 1) : tt[k] = Append(ss, Part(g, n + 1))[k]
    <3> SUFFICES ASSUME NEW k \in 1..(n + 1) PROVE tt[k] = Append(ss, Part(g, n + 1))[k]
      OBVIOUS
    <3>1. CASE k = n + 1
      BY <1>8, <1>10, <2>1, <3>1
    <3>2. CASE k # n + 1
      BY <1>6, <1>8, <1>10, <2>1, <3>2
    <3> QED
      BY <3>1, <3>2
  <2> QED
    BY <1>8, <1>10, <2>1, <2>2
<1> QED
  BY <1>3, <1>7, <1>9, <1>10, <1>11, FlattenAppend

\* An empty transcript records nothing.
LEMMA RecordedNone == RecordedAnswers(<<>>) = <<>>
<1>1. DOMAIN <<>> = {}
  OBVIOUS
<1>2. RecordedAnswers(<<>>) = FlattenSeq(<<>>)
  BY <1>1 DEF RecordedAnswers
<1> QED
  BY <1>2, FlattenNone
-----------------------------------------------------------------------------
(* Pending calls, and the results kept for them *)

\* A pending call is one of at least one.
LEMMA ContainsCounts ==
    ASSUME NEW s \in Seq(Ids), NEW id
    PROVE  Contains(s, id) <=> CallsOf(s, id) > 0
<1>1. IsFiniteSet(Uses(s, id)) /\ CallsOf(s, id) \in Nat
  BY CountsFinite
<1>2. CallsOf(s, id) = 0 <=> Uses(s, id) = {}
  BY <1>1, FS_EmptySet DEF CallsOf
<1>3. Contains(s, id) <=> Uses(s, id) # {}
  BY DEF Contains, Uses
<1> QED
  BY <1>1, <1>2, <1>3

\* Nothing is pending when no call is.
LEMMA NoCallsLeft ==
    ASSUME NEW s \in Seq(Ids)
    PROVE  s = <<>> <=> \A id \in Ids : CallsOf(s, id) = 0
<1>1. ASSUME s = <<>>, NEW id \in Ids PROVE CallsOf(s, id) = 0
  <2>1. Uses(s, id) = {}
    BY <1>1 DEF Uses
  <2> QED
    BY <2>1, FS_EmptySet DEF CallsOf
<1>2. ASSUME \A id \in Ids : CallsOf(s, id) = 0, s # <<>> PROVE FALSE
  <2>1. 1 \in 1..Len(s) /\ s[1] \in Ids
    BY <1>2
  <2>2. Contains(s, s[1])
    BY <2>1 DEF Contains
  <2>3. CallsOf(s, s[1]) > 0
    BY <2>2, ContainsCounts
  <2> QED
    BY <1>2, <2>1, <2>3
<1> QED
  BY <1>1, <1>2

\* A sequence without one of its members.
LEMMA RemoveAtCounts ==
    ASSUME NEW s \in Seq(Ids), NEW p \in 1..Len(s)
    PROVE  /\ RemoveAt(s, p) \in Seq(Ids)
           /\ \A id : CallsOf(RemoveAt(s, p), id)
                        = IF id = s[p] THEN CallsOf(s, id) - 1 ELSE CallsOf(s, id)
<1>1. PICK n \in Nat : n = Len(s)
  OBVIOUS
<1>2. PICK r : r = RemoveAt(s, p)
  OBVIOUS
<1>3. r \in Seq(Ids) /\ Len(r) = n - 1 /\ p \in 1..n
      /\ \A k \in 1..(n - 1) : r[k] = s[IF k < p THEN k ELSE k + 1]
  <2>1. PICK u, v : u = SubSeq(s, 1, p - 1) /\ v = SubSeq(s, p + 1, n)
    OBVIOUS
  <2>2. u \in Seq(Ids) /\ Len(u) = p - 1 /\ \A k \in 1..(p - 1) : u[k] = s[k]
    BY <1>1, <2>1
  <2>3. v \in Seq(Ids) /\ Len(v) = n - p /\ \A k \in 1..(n - p) : v[k] = s[p + k]
    BY <1>1, <2>1
  <2>4. r = u \o v
    BY <1>1, <1>2, <2>1 DEF RemoveAt
  <2>5. r \in Seq(Ids) /\ Len(r) = n - 1
    <3>1. u \o v \in Seq(Ids) /\ Len(u \o v) = Len(u) + Len(v)
      BY <2>2, <2>3, ConcatProperties
    <3>2. (p - 1) + (n - p) = n - 1
      BY <1>1
    <3> QED
      BY <2>2, <2>3, <2>4, <3>1, <3>2
  <2>6. ASSUME NEW k \in 1..(n - 1) PROVE r[k] = s[IF k < p THEN k ELSE k + 1]
    <3>1. CASE k < p
      BY <1>1, <2>2, <2>3, <2>4, <3>1
    <3>2. CASE ~(k < p)
      <4>1. k - (p - 1) \in 1..(n - p) /\ p + (k - (p - 1)) = k + 1
        BY <1>1, <3>2
      <4>2. r[k] = v[k - (p - 1)]
        BY <1>1, <2>2, <2>3, <2>4, <3>2
      <4> QED
        BY <2>3, <3>2, <4>1, <4>2
    <3> QED
      BY <3>1, <3>2
  <2> QED
    BY <1>1, <2>5, <2>6
<1>4. ASSUME NEW id
      PROVE  CallsOf(r, id) = IF id = s[p] THEN CallsOf(s, id) - 1 ELSE CallsOf(s, id)
  <2>1. PICK R, T : R = Uses(r, id) /\ T = Uses(s, id) \ {p}
    OBVIOUS
  <2>2. /\ \A k : k \in R <=> k \in 1..(n - 1) /\ r[k] = id
        /\ \A k : k \in T <=> k \in 1..n /\ s[k] = id /\ k # p
    BY <1>1, <1>3, <2>1 DEF Uses
  <2>3. PICK f : f = [k \in R |-> IF k < p THEN k ELSE k + 1]
    OBVIOUS
  <2>4. f \in Bijection(R, T)
    <3>1. ASSUME NEW k \in R PROVE f[k] \in T
      <4>1. k \in 1..(n - 1) /\ r[k] = id /\ f[k] = (IF k < p THEN k ELSE k + 1)
        BY <2>2, <2>3
      <4>2. s[f[k]] = id
        BY <1>3, <4>1
      <4>3. f[k] \in 1..n /\ f[k] # p
        BY <1>1, <1>3, <4>1
      <4> QED
        BY <2>2, <4>2, <4>3
    <3>2. \A j, k \in R : f[j] = f[k] => j = k
      BY <1>1, <1>3, <2>2, <2>3
    <3>3. ASSUME NEW j \in T PROVE \E k \in R : f[k] = j
      <4>1. CASE j < p
        <5>1. j \in R
          BY <1>1, <1>3, <2>2, <4>1
        <5> QED
          BY <2>3, <4>1, <5>1
      <4>2. CASE j > p
        <5>1. j - 1 \in R
          BY <1>1, <1>3, <2>2, <4>2
        <5> QED
          BY <1>1, <2>2, <2>3, <4>2, <5>1
      <4> QED
        BY <1>1, <2>2, <4>1, <4>2
    <3>4. f \in [R -> T]
      BY <2>3, <3>1
    <3>5. f \in Injection(R, T)
      BY <3>2, <3>4 DEF Injection, IsInjective
    <3>6. f \in Surjection(R, T)
      BY <3>3, <3>4, Zenon DEF Surjection
    <3> QED
      BY <3>5, <3>6, Zenon DEF Bijection
  <2>5. IsFiniteSet(R) /\ IsFiniteSet(Uses(s, id))
    BY <1>3, <2>1, CountsFinite
  <2>6. Cardinality(T) = Cardinality(R)
    BY <2>4, <2>5, FS_Bijection, Zenon DEF ExistsBijection
  <2>7. Cardinality(T) = IF p \in Uses(s, id) THEN CallsOf(s, id) - 1 ELSE CallsOf(s, id)
    BY <2>1, <2>5, FS_RemoveElement DEF CallsOf
  <2>8. p \in Uses(s, id) <=> id = s[p]
    BY <1>1, <1>3 DEF Uses
  <2> QED
    BY <2>1, <2>6, <2>7, <2>8, Zenon DEF CallsOf
<1> QED
  BY <1>2, <1>3, <1>4

\* An answered call is pending once less (keep_or_drop_tool_results).
LEMMA RemoveFirstCounts ==
    ASSUME NEW s \in Seq(Ids), NEW e, Contains(s, e)
    PROVE  /\ RemoveFirst(s, e) \in Seq(Ids)
           /\ \A id : CallsOf(RemoveFirst(s, e), id)
                        = IF id = e THEN CallsOf(s, id) - 1 ELSE CallsOf(s, id)
<1>1. PICK T : T = {i \in 1..Len(s) : s[i] = e}
  OBVIOUS
<1>2. T # {} /\ T \in SUBSET Nat
  BY <1>1 DEF Contains
<1>3. Min(T) \in T
  <2>1. \E x \in T : \A y \in T : x =< y
    BY <1>2, LeastNumber
  <2> QED
    BY <2>1, Zenon DEF Min
<1>4. SelectInSeq(s, LAMBDA v : v = e) = Min(T)
  BY <1>1, <1>2 DEF SelectInSeq
<1>5. RemoveFirst(s, e) = RemoveAt(s, Min(T))
  BY <1>4 DEF RemoveFirst, Contains
<1>6. Min(T) \in 1..Len(s) /\ s[Min(T)] = e
  BY <1>1, <1>3
<1>7. /\ RemoveAt(s, Min(T)) \in Seq(Ids)
      /\ \A id : CallsOf(RemoveAt(s, Min(T)), id)
                   = IF id = s[Min(T)] THEN CallsOf(s, id) - 1 ELSE CallsOf(s, id)
  BY <1>6, RemoveAtCounts
<1> QED
  BY <1>5, <1>6, <1>7

\* One more result.
LEMMA ResultsAppend ==
    ASSUME NEW s \in Seq(Result), NEW r \in Result, NEW id
    PROVE  ResultsOf(Append(s, r), id) = ResultsOf(s, id) + (IF r.id = id THEN 1 ELSE 0)
<1>1. PICK n \in Nat : n = Len(s)
  OBVIOUS
<1>2. PICK t : t = Append(s, r)
  OBVIOUS
<1>3. DOMAIN t = 1..(n + 1) /\ DOMAIN s = 1..n /\ t[n + 1] = r /\ \A k \in 1..n : t[k] = s[k]
  BY <1>1, <1>2
<1>4. Answers(t, id) \in SUBSET (1..(n + 1)) /\ (n + 1 \in Answers(t, id) <=> r.id = id)
  BY <1>3 DEF Answers
<1>5. Answers(t, id) \cap (1..n) = Answers(s, id)
  <2>1. \A k \in 1..n : k \in 1..(n + 1)
    OBVIOUS
  <2> QED
    BY <1>3, <2>1, Zenon DEF Answers
<1>6. Cardinality(Answers(t, id)) = Cardinality(Answers(t, id) \cap (1..n))
                                      + (IF n + 1 \in Answers(t, id) THEN 1 ELSE 0)
  BY <1>4, CountNext
<1> QED
  BY <1>2, <1>4, <1>5, <1>6 DEF ResultsOf

\* The rank of a result is positive, and at most the number of results.
LEMMA RankBounds ==
    ASSUME NEW S, NEW s \in Seq(S), NEW q \in 1..Len(s)
    PROVE  Rank(s, q) \in Nat /\ Rank(s, q) >= 1 /\ Rank(s, q) <= ResultsOf(s, s[q].id)
<1>1. PICK A : A = {p \in 1..q : s[p].id = s[q].id}
  OBVIOUS
<1>2. A \in SUBSET Answers(s, s[q].id) /\ q \in A
  BY <1>1 DEF Answers
<1>3. IsFiniteSet(Answers(s, s[q].id))
  BY CountsFinite
<1>4. IsFiniteSet(A) /\ Cardinality(A) <= ResultsOf(s, s[q].id)
  BY <1>2, <1>3, FS_Subset DEF ResultsOf
<1>5. Cardinality(A) \in Nat /\ Cardinality(A) # 0
  BY <1>2, <1>4, FS_EmptySet, FS_CardinalityType
<1>6. Rank(s, q) = Cardinality(A)
  BY <1>1, Zenon DEF Rank
<1> QED
  BY <1>4, <1>5, <1>6
-----------------------------------------------------------------------------
(* The results that a batch keeps *)

PendingCounts(pending) == [id \in Ids |-> CallsOf(pending, id)]
Accumulators == [kept : Seq(Result), pending : Seq(Ids)]

\* The places of what was recorded in a sequence of results.
Real(results) == {q \in DOMAIN results : ~results[q].synthetic}

\* What has been kept of the first n results.
KeptSoFar(results, pending, n, acc) ==
    LET upto(id) == Cardinality({q \in 1..n : results[q].id = id})
        recorded == {q \in RecordedIn(results, PendingCounts(pending)) : q <= n}
    IN  /\ acc \in Accumulators
        /\ \A id \in Ids :
              /\ CallsOf(acc.pending, id) =
                   IF upto(id) <= CallsOf(pending, id) THEN CallsOf(pending, id) - upto(id)
                   ELSE 0
              /\ ResultsOf(acc.kept, id) = CallsOf(pending, id) - CallsOf(acc.pending, id)
        /\ Selected(acc.kept, Real(acc.kept)) = Selected(results, recorded)
        /\ (\A q \in 1..n : Rank(results, q) <= CallsOf(pending, results[q].id))
              => acc.kept = SubSeq(results, 1, n)

\* Before the first result.
LEMMA KeptNone ==
    ASSUME NEW results \in Seq(Result), NEW pending \in Seq(Ids)
    PROVE  KeptSoFar(results, pending, 0, [kept |-> <<>>, pending |-> pending])
<1>1. PICK acc : acc = [kept |-> <<>>, pending |-> pending]
  OBVIOUS
<1>2. acc \in Accumulators /\ acc.kept = <<>> /\ acc.pending = pending
  BY <1>1, EmptySeq DEF Accumulators
<1>3. \A id : Cardinality({q \in 1..0 : results[q].id = id}) = 0
  <2>1. \A id : {q \in 1..0 : results[q].id = id} = {}
    OBVIOUS
  <2> QED
    BY <2>1, FS_EmptySet
<1>4. \A id \in Ids : CallsOf(pending, id) \in Nat
  BY CountsFinite
<1>5. \A id : ResultsOf(<<>>, id) = 0
  <2>1. \A id : Answers(<<>>, id) = {}
    BY DEF Answers
  <2> QED
    BY <2>1, FS_EmptySet DEF ResultsOf
<1>6. Real(<<>>) = {} /\ {q \in RecordedIn(results, PendingCounts(pending)) : q <= 0} = {}
  BY DEF Real, RecordedIn
<1>7. SubSeq(results, 1, 0) = <<>>
  OBVIOUS
<1>8. ASSUME NEW id \in Ids
      PROVE  /\ CallsOf(acc.pending, id) =
                   IF Cardinality({q \in 1..0 : results[q].id = id}) <= CallsOf(pending, id)
                   THEN CallsOf(pending, id) - Cardinality({q \in 1..0 : results[q].id = id})
                   ELSE 0
             /\ ResultsOf(acc.kept, id) = CallsOf(pending, id) - CallsOf(acc.pending, id)
  BY <1>2, <1>3, <1>4, <1>5
<1>9. Selected(acc.kept, Real(acc.kept))
        = Selected(results, {q \in RecordedIn(results, PendingCounts(pending)) : q <= 0})
  BY <1>2, <1>6, SelectedNone
<1> QED
  BY <1>1, <1>2, <1>7, <1>8, <1>9, Zenon DEF KeptSoFar

\* A result is kept exactly when its rank is within the pending calls.
LEMMA KeptNext ==
    ASSUME NEW results \in Seq(Result), NEW pending \in Seq(Ids), NEW n \in Nat,
           n < Len(results), NEW acc, KeptSoFar(results, pending, n, acc)
    PROVE  KeptSoFar(results, pending, n + 1, KeepOrDrop(acc, results[n + 1]))
<1> DEFINE Upto(m, id) == Cardinality({q \in 1..m : results[q].id = id})
           Recorded(m) == {q \in RecordedIn(results, PendingCounts(pending)) : q <= m}
           Within(m) == \A q \in 1..m : Rank(results, q) <= CallsOf(pending, results[q].id)
<1>1. PICK r \in Result : r = results[n + 1]
  OBVIOUS
<1>2. PICK new : new = KeepOrDrop(acc, r)
  OBVIOUS
<1>3. r.id \in Ids /\ r.synthetic \in BOOLEAN
  BY DEF Result
<1>4. acc.kept \in Seq(Result) /\ acc.pending \in Seq(Ids)
  BY Zenon DEF KeptSoFar, Accumulators
<1>5. \A id : /\ CallsOf(pending, id) \in Nat /\ CallsOf(acc.pending, id) \in Nat
              /\ ResultsOf(acc.kept, id) \in Nat
  BY <1>4, CountsFinite
<1>6. \A id \in Ids :
         /\ CallsOf(acc.pending, id) =
              IF Upto(n, id) <= CallsOf(pending, id) THEN CallsOf(pending, id) - Upto(n, id)
              ELSE 0
         /\ ResultsOf(acc.kept, id) = CallsOf(pending, id) - CallsOf(acc.pending, id)
  BY Zenon DEF KeptSoFar
<1>7. Selected(acc.kept, Real(acc.kept)) = Selected(results, Recorded(n))
  BY Zenon DEF KeptSoFar
<1>8. Within(n) => acc.kept = SubSeq(results, 1, n)
  BY Zenon DEF KeptSoFar
<1>9. \A id : /\ Upto(n, id) \in Nat
              /\ Upto(n + 1, id) = Upto(n, id) + (IF r.id = id THEN 1 ELSE 0)
  <2> SUFFICES ASSUME NEW id
               PROVE  /\ Upto(n, id) \in Nat
                      /\ Upto(n + 1, id) = Upto(n, id) + (IF r.id = id THEN 1 ELSE 0)
    OBVIOUS
  <2>1. PICK A : A = {q \in 1..(n + 1) : results[q].id = id}
    OBVIOUS
  <2>2. A \in SUBSET (1..(n + 1)) /\ (n + 1 \in A <=> r.id = id)
    BY <1>1, <2>1
  <2>3. A \cap (1..n) = {q \in 1..n : results[q].id = id}
    BY <2>1
  <2>4. /\ Cardinality(A \cap (1..n)) \in Nat
        /\ Cardinality(A) = Cardinality(A \cap (1..n)) + (IF n + 1 \in A THEN 1 ELSE 0)
    BY <2>2, CountNext
  <2> QED
    BY <2>1, <2>2, <2>3, <2>4
<1>10. Rank(results, n + 1) = Upto(n, r.id) + 1
  <2>1. Rank(results, n + 1) = Upto(n + 1, r.id)
    BY <1>1, Zenon DEF Rank
  <2> QED
    BY <1>9, <2>1
<1>11. Contains(acc.pending, r.id) <=> Rank(results, n + 1) <= CallsOf(pending, r.id)
  <2>1. Contains(acc.pending, r.id) <=> CallsOf(acc.pending, r.id) > 0
    BY <1>4, ContainsCounts
  <2> HIDE DEF Upto
  <2> QED
    BY <1>3, <1>5, <1>6, <1>9, <1>10, <2>1
<1>12. /\ Recorded(n) \in SUBSET (1..n) /\ n + 1 \in DOMAIN results
       /\ Recorded(n + 1) = IF n + 1 \in RecordedIn(results, PendingCounts(pending))
                            THEN Recorded(n) \cup {n + 1} ELSE Recorded(n)
  <2>1. RecordedIn(results, PendingCounts(pending)) \in SUBSET (1..Len(results))
    BY DEF RecordedIn
  <2> HIDE DEF Within
  <2> QED
    BY <2>1
<1>13. n + 1 \in RecordedIn(results, PendingCounts(pending))
         <=> Rank(results, n + 1) <= CallsOf(pending, r.id) /\ ~r.synthetic
  <2>1. PendingCounts(pending)[r.id] = CallsOf(pending, r.id)
    BY <1>3 DEF PendingCounts
  <2> QED
    BY <1>1, <1>12, <2>1 DEF RecordedIn
<1>14. Within(n + 1) <=> Within(n) /\ Rank(results, n + 1) <= CallsOf(pending, r.id)
  <2>1. 1..(n + 1) = (1..n) \cup {n + 1}
    OBVIOUS
  <2> QED
    BY <1>1, <2>1, Zenon
<1> HIDE DEF Upto, Recorded, Within
<1>15. CASE Contains(acc.pending, r.id)
  <2>1. new = [kept |-> Append(acc.kept, r), pending |-> RemoveFirst(acc.pending, r.id)]
    BY <1>2, <1>15 DEF KeepOrDrop
  <2>2. /\ new.kept = Append(acc.kept, r) /\ new.kept \in Seq(Result)
        /\ new.pending = RemoveFirst(acc.pending, r.id) /\ new.pending \in Seq(Ids)
        /\ \A id : CallsOf(new.pending, id)
             = IF id = r.id THEN CallsOf(acc.pending, id) - 1 ELSE CallsOf(acc.pending, id)
    <3>1. Append(acc.kept, r) \in Seq(Result)
      BY <1>4
    <3> QED
      BY <1>4, <1>15, <2>1, <3>1, RemoveFirstCounts
  <2>3. new \in Accumulators
    BY <2>1, <2>2, Zenon DEF Accumulators
  <2>4. \A id : ResultsOf(new.kept, id) = ResultsOf(acc.kept, id) + (IF r.id = id THEN 1 ELSE 0)
    BY <1>4, <2>2, ResultsAppend
  <2>5. ASSUME NEW id \in Ids
        PROVE  /\ CallsOf(new.pending, id) =
                    IF Upto(n + 1, id) <= CallsOf(pending, id)
                    THEN CallsOf(pending, id) - Upto(n + 1, id) ELSE 0
               /\ ResultsOf(new.kept, id) = CallsOf(pending, id) - CallsOf(new.pending, id)
    <3>1. /\ Upto(n, id) \in Nat /\ CallsOf(pending, id) \in Nat
          /\ CallsOf(acc.pending, id) \in Nat /\ ResultsOf(acc.kept, id) \in Nat
      BY <1>5, <1>9
    <3>2. /\ CallsOf(acc.pending, id) =
               IF Upto(n, id) <= CallsOf(pending, id) THEN CallsOf(pending, id) - Upto(n, id)
               ELSE 0
          /\ ResultsOf(acc.kept, id) = CallsOf(pending, id) - CallsOf(acc.pending, id)
      BY <1>6
    <3>3. CASE id = r.id
      <4>1. Upto(n, id) + 1 <= CallsOf(pending, id)
        BY <1>10, <1>11, <1>15, <3>3
      <4>2. /\ Upto(n + 1, id) = Upto(n, id) + 1
            /\ CallsOf(new.pending, id) = CallsOf(acc.pending, id) - 1
            /\ ResultsOf(new.kept, id) = ResultsOf(acc.kept, id) + 1
        BY <1>9, <2>2, <2>4, <3>3
      <4> QED
        BY <3>1, <3>2, <4>1, <4>2
    <3>4. CASE id # r.id
      <4>1. /\ Upto(n + 1, id) = Upto(n, id)
            /\ CallsOf(new.pending, id) = CallsOf(acc.pending, id)
            /\ ResultsOf(new.kept, id) = ResultsOf(acc.kept, id)
        <5>1. Upto(n + 1, id) = Upto(n, id) + 0
          BY <1>9, <3>4
        <5>2. ResultsOf(new.kept, id) = ResultsOf(acc.kept, id) + 0
          BY <2>4, <3>4
        <5>3. CallsOf(new.pending, id) = CallsOf(acc.pending, id)
          BY <2>2, <3>4
        <5> QED
          BY <3>1, <5>1, <5>2, <5>3
      <4> QED
        BY <3>2, <4>1
    <3> QED
      BY <3>3, <3>4
  <2>6. PICK k \in Nat : k = Len(acc.kept)
    BY <1>4
  <2>7. /\ DOMAIN acc.kept = 1..k /\ DOMAIN new.kept = 1..(k + 1) /\ new.kept[k + 1] = r
        /\ \A p \in 1..k : new.kept[p] = acc.kept[p]
    BY <1>4, <2>2, <2>6
  <2>8. Real(acc.kept) \in SUBSET (1..k)
    BY <2>7 DEF Real
  <2>9. Real(new.kept) = IF r.synthetic THEN Real(acc.kept) ELSE Real(acc.kept) \cup {k + 1}
    <3>1. 1..(k + 1) = (1..k) \cup {k + 1}
      BY <2>6
    <3>2. k + 1 \in Real(new.kept) <=> ~r.synthetic
      BY <2>7, <3>1, Zenon DEF Real
    <3>3. \A p \in 1..k : p \in Real(new.kept) <=> p \in Real(acc.kept)
      BY <2>7, <3>1, Zenon DEF Real
    <3>4. \A p : p \in Real(new.kept) => p \in 1..k \/ p = k + 1
      BY <2>7, <3>1, Zenon DEF Real
    <3>5. \A p : p \in Real(acc.kept) => p \in 1..k
      BY <2>8
    <3>6. ASSUME r.synthetic, NEW p PROVE p \in Real(new.kept) <=> p \in Real(acc.kept)
      BY <3>2, <3>3, <3>4, <3>5, <3>6, Zenon
    <3>7. ASSUME ~r.synthetic, NEW p
          PROVE  p \in Real(new.kept) <=> p \in Real(acc.kept) \cup {k + 1}
      <4>1. p \in Real(acc.kept) \cup {k + 1} <=> p \in Real(acc.kept) \/ p = k + 1
        OBVIOUS
      <4> QED
        BY <3>2, <3>3, <3>4, <3>5, <3>7, <4>1, Zenon
    <3>8. CASE r.synthetic
      <4>1. \A p : p \in Real(new.kept) <=> p \in Real(acc.kept)
        BY <3>6, <3>8
      <4> QED
        BY <3>8, <4>1
    <3>9. CASE ~r.synthetic
      <4>1. \A p : p \in Real(new.kept) <=> p \in Real(acc.kept) \cup {k + 1}
        BY <3>7, <3>9
      <4> QED
        BY <3>9, <4>1
    <3> QED
      BY <3>8, <3>9
  <2>10. Selected(new.kept, Real(acc.kept)) = Selected(acc.kept, Real(acc.kept))
    BY <2>7, <2>8, SelectedSame
  <2>11. Selected(new.kept, Real(new.kept)) = Selected(results, Recorded(n + 1))
    <3>1. CASE r.synthetic
      BY <1>3, <1>7, <1>12, <1>13, <2>9, <2>10, <3>1
    <3>2. CASE ~r.synthetic
      <4>1. Selected(new.kept, Real(new.kept)) = Append(Selected(acc.kept, Real(acc.kept)), r)
        <5>1. \A p \in Real(acc.kept) : new.kept[p] \in Result
          BY <2>2, <2>7, <2>8
        <5>2. new.kept[k + 1] \in Result
          BY <2>7
        <5>3. Selected(new.kept, Real(acc.kept) \cup {k + 1})
                = Append(Selected(new.kept, Real(acc.kept)), new.kept[k + 1])
          BY <2>6, <2>8, <5>1, <5>2, SelectedNext
        <5> QED
          BY <2>7, <2>9, <2>10, <3>2, <5>3
      <4>2. Selected(results, Recorded(n + 1)) = Append(Selected(results, Recorded(n)), r)
        <5>1. \A p \in Recorded(n) : results[p] \in Result
          BY <1>12
        <5>2. Selected(results, Recorded(n) \cup {n + 1})
                = Append(Selected(results, Recorded(n)), results[n + 1])
          BY <1>1, <1>12, <5>1, SelectedNext
        <5> QED
          BY <1>1, <1>11, <1>12, <1>13, <1>15, <3>2, <5>2
      <4> QED
        BY <1>7, <4>1, <4>2
    <3> QED
      BY <1>3, <3>1, <3>2
  <2>12. Within(n + 1) => new.kept = SubSeq(results, 1, n + 1)
    <3>1. SubSeq(results, 1, n + 1) = Append(SubSeq(results, 1, n), results[n + 1])
      OBVIOUS
    <3> QED
      BY <1>1, <1>8, <1>14, <2>2, <3>1
  <2> QED
    BY <1>1, <1>2, <2>3, <2>5, <2>11, <2>12, Zenon DEF KeptSoFar, Upto, Recorded, Within
<1>16. CASE ~Contains(acc.pending, r.id)
  <2>1. new = acc
    BY <1>2, <1>16 DEF KeepOrDrop
  <2>2. acc \in Accumulators
    BY Zenon DEF KeptSoFar
  <2>3. ASSUME NEW id \in Ids
        PROVE  /\ CallsOf(acc.pending, id) =
                    IF Upto(n + 1, id) <= CallsOf(pending, id)
                    THEN CallsOf(pending, id) - Upto(n + 1, id) ELSE 0
               /\ ResultsOf(acc.kept, id) = CallsOf(pending, id) - CallsOf(acc.pending, id)
    <3>1. /\ Upto(n, id) \in Nat /\ CallsOf(pending, id) \in Nat
          /\ Upto(n + 1, id) = Upto(n, id) + (IF r.id = id THEN 1 ELSE 0)
      BY <1>5, <1>9
    <3>2. /\ CallsOf(acc.pending, id) =
               IF Upto(n, id) <= CallsOf(pending, id) THEN CallsOf(pending, id) - Upto(n, id)
               ELSE 0
          /\ ResultsOf(acc.kept, id) = CallsOf(pending, id) - CallsOf(acc.pending, id)
      BY <1>6
    <3>3. r.id = id => ~(Upto(n, id) + 1 <= CallsOf(pending, id))
      BY <1>10, <1>11, <1>16
    <3> QED
      BY <3>1, <3>2, <3>3
  <2>4. Recorded(n + 1) = Recorded(n) /\ ~Within(n + 1)
    BY <1>11, <1>12, <1>13, <1>14, <1>16
  <2> QED
    BY <1>1, <1>2, <1>7, <2>1, <2>2, <2>3, <2>4, Zenon DEF KeptSoFar, Upto, Recorded, Within
<1> QED
  BY <1>15, <1>16
\* What a batch keeps: for each identity as many results as calls were pending,
\* the first ones; all of them if no result is in excess.
LEMMA KeptIs ==
    ASSUME NEW results \in Seq(Result), NEW pending \in Seq(Ids)
    PROVE  KeptSoFar(results, pending, Len(results), KeepOrDropToolResults(results, pending))
<1>1. PICK N \in Nat : N = Len(results)
  OBVIOUS
<1>2. PICK first : first = [kept |-> <<>>, pending |-> pending]
  OBVIOUS
<1>3. PICK step : step = [n \in 1..N |-> [acc \in Accumulators |-> KeepOrDrop(acc, results[n])]]
  OBVIOUS
<1>4. first \in Accumulators
  BY <1>2, EmptySeq DEF Accumulators
<1>5. ASSUME NEW acc \in Accumulators, NEW r \in Result PROVE KeepOrDrop(acc, r) \in Accumulators
  <2>1. acc.kept \in Seq(Result) /\ acc.pending \in Seq(Ids)
    BY Zenon DEF Accumulators
  <2>2. CASE Contains(acc.pending, r.id)
    <3>1. Append(acc.kept, r) \in Seq(Result)
      BY <2>1
    <3>2. RemoveFirst(acc.pending, r.id) \in Seq(Ids)
      BY <2>1, <2>2, RemoveFirstCounts
    <3>3. KeepOrDrop(acc, r)
            = [kept |-> Append(acc.kept, r), pending |-> RemoveFirst(acc.pending, r.id)]
      BY <2>2 DEF KeepOrDrop
    <3> QED
      BY <3>1, <3>2, <3>3 DEF Accumulators
  <2>3. CASE ~Contains(acc.pending, r.id)
    BY <2>3 DEF KeepOrDrop
  <2> QED
    BY <2>2, <2>3
<1>6. step \in [1..N -> [Accumulators -> Accumulators]]
  <2>1. \A n \in 1..N : results[n] \in Result
    BY <1>1
  <2>2. \A n \in 1..N : \A acc \in Accumulators : KeepOrDrop(acc, results[n]) \in Accumulators
    BY <1>5, <2>1
  <2> QED
    BY <1>3, <2>2
<1>7. PICK f : Computes(f, Accumulators, N, first, step)
  <2>1. \E f : Computes(f, Accumulators, N, first, step)
    BY <1>4, <1>6, RecursionExists
  <2> QED
    BY <2>1
<1> DEFINE Solves(g) == g = [n \in 0..N |-> IF n = 0 THEN [kept |-> <<>>, pending |-> pending]
                                            ELSE KeepOrDrop(g[n - 1], results[n])]
<1>8. KeepOrDropToolResults(results, pending) = (CHOOSE g : Solves(g))[N]
  BY <1>1, Zenon DEF KeepOrDropToolResults
<1>9. Solves(f)
  <2>1. f \in [0..N -> Accumulators] /\ f[0] = first
        /\ \A n \in 1..N : f[n] = step[n][f[n - 1]]
    BY <1>7, Zenon DEF Computes
  <2>2. \A n \in 1..N : f[n] = KeepOrDrop(f[n - 1], results[n])
    <3>1. \A n \in 1..N : f[n - 1] \in Accumulators
      BY <2>1
    <3> QED
      BY <1>3, <2>1, <3>1
  <2>3. \A n \in 0..N : f[n] = IF n = 0 THEN [kept |-> <<>>, pending |-> pending]
                               ELSE KeepOrDrop(f[n - 1], results[n])
    <3>1. \A n \in 0..N : n # 0 => n \in 1..N
      OBVIOUS
    <3> QED
      BY <1>2, <2>1, <2>2, <3>1
  <2> QED
    BY <2>1, <2>3
<1>10. PICK g : g = (CHOOSE e : Solves(e)) /\ Solves(g)
  <2> HIDE DEF Solves
  <2> QED
    BY <1>9
<1>11. g[0] = [kept |-> <<>>, pending |-> pending]
       /\ \A n \in 1..N : g[n] = KeepOrDrop(g[n - 1], results[n])
  <2>1. 0 \in 0..N /\ \A n \in 1..N : n \in 0..N /\ n # 0
    OBVIOUS
  <2>2. \A n \in 0..N : g[n] = IF n = 0 THEN [kept |-> <<>>, pending |-> pending]
                               ELSE KeepOrDrop(g[n - 1], results[n])
    BY <1>10
  <2> QED
    BY <2>1, <2>2
<1> DEFINE T == {n \in Nat : n <= N => KeptSoFar(results, pending, n, g[n])}
<1>12. 0 \in T
  BY <1>11, KeptNone
<1>13. ASSUME NEW n \in T PROVE n + 1 \in T
  <2> SUFFICES ASSUME n + 1 <= N PROVE KeptSoFar(results, pending, n + 1, g[n + 1])
    OBVIOUS
  <2>1. n \in Nat /\ n < Len(results) /\ KeptSoFar(results, pending, n, g[n])
    BY <1>1
  <2>2. n + 1 \in 1..N /\ (n + 1) - 1 = n
    BY <2>1
  <2>3. g[n + 1] = KeepOrDrop(g[n], results[n + 1])
    BY <1>11, <2>2
  <2> QED
    BY <2>1, <2>3, KeptNext
<1>14. N \in T
  <2>1. T \in SUBSET Nat
    OBVIOUS
  <2> HIDE DEF T
  <2> QED
    BY <1>12, <1>13, <2>1, EveryNumber
<1> QED
  BY <1>1, <1>8, <1>10, <1>14

\* The same, for the whole batch.
LEMMA KeptResults ==
    ASSUME NEW results \in Seq(Result), NEW pending \in Seq(Ids),
           NEW out, out = KeepOrDropToolResults(results, pending)
    PROVE  /\ out.kept \in Seq(Result) /\ out.pending \in Seq(Ids)
           /\ \A id \in Ids :
                /\ CallsOf(out.pending, id) =
                     IF ResultsOf(results, id) <= CallsOf(pending, id)
                     THEN CallsOf(pending, id) - ResultsOf(results, id) ELSE 0
                /\ ResultsOf(out.kept, id) = CallsOf(pending, id) - CallsOf(out.pending, id)
           /\ Selected(out.kept, RecordedIn(out.kept, PendingCounts(pending)))
                = Selected(results, RecordedIn(results, PendingCounts(pending)))
           /\ (\A id \in Ids : ResultsOf(results, id) <= CallsOf(pending, id))
                => out.kept = results
<1>1. PICK N \in Nat : N = Len(results)
  OBVIOUS
<1>2. KeptSoFar(results, pending, N, out)
  BY <1>1, KeptIs
<1>3. out.kept \in Seq(Result) /\ out.pending \in Seq(Ids)
  BY <1>2, Zenon DEF KeptSoFar, Accumulators
<1>4. \A id : Cardinality({q \in 1..N : results[q].id = id}) = ResultsOf(results, id)
  <2>1. DOMAIN results = 1..N
    BY <1>1
  <2> QED
    BY <2>1, Zenon DEF ResultsOf, Answers
<1>5. \A id \in Ids :
         /\ CallsOf(out.pending, id) =
              IF ResultsOf(results, id) <= CallsOf(pending, id)
              THEN CallsOf(pending, id) - ResultsOf(results, id) ELSE 0
         /\ ResultsOf(out.kept, id) = CallsOf(pending, id) - CallsOf(out.pending, id)
  <2> SUFFICES ASSUME NEW id \in Ids
               PROVE  /\ CallsOf(out.pending, id) =
                           IF ResultsOf(results, id) <= CallsOf(pending, id)
                           THEN CallsOf(pending, id) - ResultsOf(results, id) ELSE 0
                      /\ ResultsOf(out.kept, id)
                           = CallsOf(pending, id) - CallsOf(out.pending, id)
    OBVIOUS
  <2>1. PICK c : c = Cardinality({q \in 1..N : results[q].id = id})
    OBVIOUS
  <2>2. /\ CallsOf(out.pending, id) =
             IF c <= CallsOf(pending, id) THEN CallsOf(pending, id) - c ELSE 0
        /\ ResultsOf(out.kept, id) = CallsOf(pending, id) - CallsOf(out.pending, id)
    BY <1>2, <2>1, Zenon DEF KeptSoFar
  <2>3. c = ResultsOf(results, id)
    BY <1>4, <2>1
  <2> QED
    BY <2>2, <2>3
<1>6. {q \in RecordedIn(results, PendingCounts(pending)) : q <= N}
        = RecordedIn(results, PendingCounts(pending))
  <2>1. \A q \in RecordedIn(results, PendingCounts(pending)) : q <= N
    BY <1>1 DEF RecordedIn
  <2> QED
    BY <2>1
<1>7. Selected(out.kept, Real(out.kept)) = Selected(results, RecordedIn(results, PendingCounts(pending)))
  BY <1>2, <1>6, Zenon DEF KeptSoFar
<1>8. RecordedIn(out.kept, PendingCounts(pending)) = Real(out.kept)
  <2>1. ASSUME NEW q \in DOMAIN out.kept
        PROVE  Rank(out.kept, q) <= PendingCounts(pending)[out.kept[q].id]
    <3>1. PICK id \in Ids : id = out.kept[q].id
      <4>1. out.kept[q] \in Result
        BY <1>3
      <4> QED
        BY <4>1 DEF Result
    <3>2. Rank(out.kept, q) \in Nat /\ Rank(out.kept, q) <= ResultsOf(out.kept, id)
      <4>1. q \in 1..Len(out.kept)
        BY <1>3
      <4> QED
        BY <1>3, <3>1, <4>1, RankBounds
    <3>3. /\ CallsOf(pending, id) \in Nat /\ CallsOf(out.pending, id) \in Nat
          /\ ResultsOf(out.kept, id) = CallsOf(pending, id) - CallsOf(out.pending, id)
      BY <1>3, <1>5, CountsFinite
    <3>4. PendingCounts(pending)[id] = CallsOf(pending, id)
      BY DEF PendingCounts
    <3> QED
      BY <3>1, <3>2, <3>3, <3>4
  <2> QED
    BY <2>1, Zenon DEF RecordedIn, Real
<1>9. ASSUME \A id \in Ids : ResultsOf(results, id) <= CallsOf(pending, id)
      PROVE  out.kept = results
  <2>1. ASSUME NEW q \in 1..N PROVE Rank(results, q) <= CallsOf(pending, results[q].id)
    <3>1. PICK id \in Ids : id = results[q].id
      <4>1. results[q] \in Result
        BY <1>1
      <4> QED
        BY <4>1 DEF Result
    <3>2. Rank(results, q) \in Nat /\ Rank(results, q) <= ResultsOf(results, id)
      BY <1>1, <3>1, RankBounds
    <3>3. CallsOf(pending, id) \in Nat /\ ResultsOf(results, id) \in Nat
      BY CountsFinite
    <3> QED
      BY <1>9, <3>1, <3>2, <3>3
  <2>2. out.kept = SubSeq(results, 1, N)
    BY <1>2, <2>1, Zenon DEF KeptSoFar
  <2> QED
    BY <1>1, <2>2
<1> QED
  BY <1>3, <1>5, <1>7, <1>8, <1>9

-----------------------------------------------------------------------------
(* The repair *)

\* What the scan has made of the transcript h so far.
Linked(h, acc) ==
    /\ acc.repaired \in Seq(Message) /\ acc.pending \in Seq(Ids)
    /\ Settled(acc.repaired)
    /\ \A id \in Ids :
          /\ Outstanding(acc.repaired, Len(acc.repaired), id) = CallsOf(acc.pending, id)
          /\ CallsOf(acc.pending, id) = IF Outstanding(h, Len(h), id) > 0
                                        THEN Outstanding(h, Len(h), id) ELSE 0
    /\ RecordedAnswers(acc.repaired) = RecordedAnswers(h)
    /\ Settled(h) /\ (\A id \in Ids : Outstanding(h, Len(h), id) >= 0) => acc.repaired = h

\* The results that stand for missing ones.
LEMMA SyntheticCounts ==
    ASSUME NEW pending \in Seq(Ids)
    PROVE  LET s == SyntheticToolResults(pending)
           IN  /\ s \in Seq(Result) /\ (s = <<>> <=> pending = <<>>)
               /\ \A id : ResultsOf(s, id) = CallsOf(pending, id)
               /\ \A left : RecordedIn(s, left) = {}
<1>1. PICK n \in Nat : n = Len(pending)
  OBVIOUS
<1>2. PICK s : s = SyntheticToolResults(pending)
  OBVIOUS
<1>3. s = [i \in 1..n |-> [id |-> pending[i], synthetic |-> TRUE]]
  <2>1. DOMAIN pending = 1..n
    BY <1>1
  <2> QED
    BY <1>2, <2>1, Zenon DEF SyntheticToolResults, SyntheticResult
<1>4. s \in Seq(Result) /\ Len(s) = n
  <2>1. \A i \in 1..n : [id |-> pending[i], synthetic |-> TRUE] \in Result
    BY <1>1 DEF Result
  <2> QED
    BY <1>3, <2>1
<1>5. \A i \in 1..n : s[i].id = pending[i] /\ s[i].synthetic = TRUE
  BY <1>3
<1>6. ASSUME NEW id PROVE ResultsOf(s, id) = CallsOf(pending, id)
  <2>1. Answers(s, id) = Uses(pending, id)
    BY <1>1, <1>3, <1>5 DEF Answers, Uses
  <2> QED
    BY <2>1 DEF ResultsOf, CallsOf
<1>7. ASSUME NEW left PROVE RecordedIn(s, left) = {}
  BY <1>3, <1>5 DEF RecordedIn
<1>8. s = <<>> <=> pending = <<>>
  BY <1>1, <1>4, EmptySeq
<1> QED
  BY <1>2, <1>4, <1>6, <1>7, <1>8
\* Before a message without results the open calls are answered: the account
\* is then balanced, and nothing that was recorded has changed.
LEMMA FlushSettles ==
    ASSUME NEW h \in Seq(Message), NEW acc, Linked(h, acc)
    PROVE  LET t == FlushPending(acc).repaired
           IN  /\ t \in Seq(Message) /\ Settled(t)
               /\ \A id \in Ids : Outstanding(t, Len(t), id) = 0
               /\ RecordedAnswers(t) = RecordedAnswers(h)
               /\ (Settled(h) /\ \A id \in Ids : Outstanding(h, Len(h), id) = 0) => t = h
<1>1. /\ acc.repaired \in Seq(Message) /\ acc.pending \in Seq(Ids) /\ Settled(acc.repaired)
      /\ RecordedAnswers(acc.repaired) = RecordedAnswers(h)
  BY Zenon DEF Linked
<1>2. \A id \in Ids :
        /\ Outstanding(acc.repaired, Len(acc.repaired), id) = CallsOf(acc.pending, id)
        /\ CallsOf(acc.pending, id) = IF Outstanding(h, Len(h), id) > 0
                                      THEN Outstanding(h, Len(h), id) ELSE 0
  BY Zenon DEF Linked
<1>3. Settled(h) /\ (\A id \in Ids : Outstanding(h, Len(h), id) >= 0) => acc.repaired = h
  BY Zenon DEF Linked
<1>4. \A id \in Ids : CallsOf(acc.pending, id) \in Nat
  BY <1>1, CountsFinite
<1>5. CASE acc.pending = <<>>
  <2>1. FlushPending(acc).repaired = acc.repaired
    BY <1>5 DEF FlushPending
  <2>2. \A id \in Ids : CallsOf(acc.pending, id) = 0
    BY <1>1, <1>5, NoCallsLeft
  <2>3. \A id \in Ids : Outstanding(acc.repaired, Len(acc.repaired), id) = 0
    BY <1>2, <2>2
  <2>4. (\A id \in Ids : Outstanding(h, Len(h), id) = 0)
           => \A id \in Ids : Outstanding(h, Len(h), id) >= 0
    OBVIOUS
  <2> QED
    BY <1>1, <1>3, <2>1, <2>3, <2>4, Zenon
<1>6. CASE acc.pending # <<>>
  <2>1. PICK s : s = SyntheticToolResults(acc.pending)
    OBVIOUS
  <2>2. PICK m : m = ResultMessage(s)
    OBVIOUS
  <2>3. FlushPending(acc).repaired = Append(acc.repaired, m)
    BY <1>6, <2>1, <2>2 DEF FlushPending
  <2>4. /\ s \in Seq(Result) /\ s # <<>>
        /\ \A id : ResultsOf(s, id) = CallsOf(acc.pending, id)
        /\ \A left : RecordedIn(s, left) = {}
    BY <1>1, <1>6, <2>1, SyntheticCounts
  <2>5. m \in Message /\ m.results = s /\ HasToolResult(m)
    BY <2>2, <2>4, MessagesBuilt
  <2>6. PICK t : t = Append(acc.repaired, m)
    OBVIOUS
  <2>7. t \in Seq(Message) /\ Len(t) = Len(acc.repaired) + 1
    BY <1>1, <2>5, <2>6, MoreMessages
  <2>8. Settled(t)
    BY <1>1, <2>5, <2>6, SettledAppend
  <2>9. ASSUME NEW id \in Ids PROVE Outstanding(t, Len(t), id) = 0
    <3>1. Outstanding(t, Len(acc.repaired) + 1, id)
            = Outstanding(acc.repaired, Len(acc.repaired), id) - ResultsOf(s, id)
      BY <1>1, <2>5, <2>6, OutstandingAnswered
    <3> QED
      BY <1>2, <1>4, <2>4, <2>7, <3>1
  <2>10. RecordedAnswers(t) = RecordedAnswers(h)
    <3>1. /\ RecordedAnswers(acc.repaired) \in Seq(Result)
          /\ RecordedAnswers(t) = RecordedAnswers(acc.repaired)
                                    \o Selected(s, RecordedIn(s, Left(acc.repaired)))
      BY <1>1, <2>5, <2>6, RecordedAppend
    <3>2. Selected(s, RecordedIn(s, Left(acc.repaired))) = <<>>
      BY <2>4, SelectedNone
    <3> QED
      BY <1>1, <3>1, <3>2
  <2>11. ~ \A id \in Ids : Outstanding(h, Len(h), id) = 0
    <3>1. PICK id \in Ids : CallsOf(acc.pending, id) # 0
      BY <1>1, <1>6, NoCallsLeft
    <3> QED
      BY <1>2, <3>1
  <2> QED
    BY <2>3, <2>6, <2>7, <2>8, <2>9, <2>10, <2>11, Zenon
<1> QED
  BY <1>5, <1>6

\* A message without results, after what was open has been answered.
LEMMA LinkedAsker ==
    ASSUME NEW h \in Seq(Message), NEW m \in Message, ~HasToolResult(m),
           NEW acc, Linked(h, acc)
    PROVE  Linked(Append(h, m), [repaired |-> Append(FlushPending(acc).repaired, m),
                                 pending |-> m.uses])
<1>1. PICK t : t = FlushPending(acc).repaired
  OBVIOUS
<1>2. /\ t \in Seq(Message) /\ Settled(t)
      /\ \A id \in Ids : Outstanding(t, Len(t), id) = 0
      /\ RecordedAnswers(t) = RecordedAnswers(h)
      /\ (Settled(h) /\ \A id \in Ids : Outstanding(h, Len(h), id) = 0) => t = h
  BY <1>1, FlushSettles, Zenon
<1>3. PICK g, u : g = Append(h, m) /\ u = Append(t, m)
  OBVIOUS
<1>4. /\ g \in Seq(Message) /\ Len(g) = Len(h) + 1
      /\ u \in Seq(Message) /\ Len(u) = Len(t) + 1
  BY <1>2, <1>3, MoreMessages
<1>5. m.uses \in Seq(Ids) /\ m.results = <<>>
  BY MessageTypes
<1>6. Settled(u)
  BY <1>2, <1>3, SettledAppend
<1>7. \A id : /\ Outstanding(u, Len(u), id) = CallsOf(m.uses, id)
              /\ Outstanding(g, Len(g), id) = CallsOf(m.uses, id)
              /\ CallsOf(m.uses, id) \in Nat
  BY <1>2, <1>3, <1>4, <1>5, OutstandingAsked, CountsFinite
<1>8. RecordedAnswers(u) = RecordedAnswers(g)
  <2>1. \A left : Selected(m.results, RecordedIn(m.results, left)) = <<>>
    <3>1. \A left : RecordedIn(m.results, left) = {}
      BY <1>5 DEF RecordedIn
    <3> QED
      BY <3>1, SelectedNone
  <2>2. /\ RecordedAnswers(u) = RecordedAnswers(t) \o <<>>
        /\ RecordedAnswers(g) = RecordedAnswers(h) \o <<>>
    BY <1>2, <1>3, <2>1, RecordedAppend
  <2> QED
    BY <1>2, <2>2
<1>9. Settled(g) => u = g
  <2>1. Settled(g) => Settled(h) /\ \A id \in Ids : Outstanding(h, Len(h), id) = 0
    BY <1>3, SettledAppend
  <2> QED
    BY <1>2, <1>3, <2>1
<1>10. PICK new : new = [repaired |-> u, pending |-> m.uses]
  OBVIOUS
<1>11. new.repaired = u /\ new.pending = m.uses
  BY <1>10
<1>12. ASSUME NEW id \in Ids
       PROVE  /\ Outstanding(u, Len(u), id) = CallsOf(m.uses, id)
              /\ CallsOf(m.uses, id) = IF Outstanding(g, Len(g), id) > 0
                                       THEN Outstanding(g, Len(g), id) ELSE 0
  BY <1>7
<1>13. Linked(g, new)
  BY <1>4, <1>5, <1>6, <1>8, <1>9, <1>11, <1>12, Zenon DEF Linked
<1> QED
  BY <1>1, <1>3, <1>10, <1>13

\* A message with results, of which the repair keeps those that answer a call.
LEMMA LinkedResults ==
    ASSUME NEW h \in Seq(Message), NEW m \in Message, HasToolResult(m),
           NEW acc, Linked(h, acc),
           NEW out, out = KeepOrDropToolResults(m.results, acc.pending)
    PROVE  Linked(Append(h, m),
                  [repaired |-> IF out.kept = <<>> THEN acc.repaired
                                ELSE Append(acc.repaired, ResultMessage(out.kept)),
                   pending |-> out.pending])
<1>1. /\ acc.repaired \in Seq(Message) /\ acc.pending \in Seq(Ids) /\ Settled(acc.repaired)
      /\ RecordedAnswers(acc.repaired) = RecordedAnswers(h)
  BY Zenon DEF Linked
<1>2. \A id \in Ids :
        /\ Outstanding(acc.repaired, Len(acc.repaired), id) = CallsOf(acc.pending, id)
        /\ CallsOf(acc.pending, id) = IF Outstanding(h, Len(h), id) > 0
                                      THEN Outstanding(h, Len(h), id) ELSE 0
  BY Zenon DEF Linked
<1>3. Settled(h) /\ (\A id \in Ids : Outstanding(h, Len(h), id) >= 0) => acc.repaired = h
  BY Zenon DEF Linked
<1>4. m.results \in Seq(Result) /\ m = ResultMessage(m.results) /\ m.results # <<>>
  BY MessageTypes DEF HasToolResult
<1>5. PICK C : C = PendingCounts(acc.pending)
  OBVIOUS
<1>6. /\ out.kept \in Seq(Result) /\ out.pending \in Seq(Ids)
      /\ \A id \in Ids :
           /\ CallsOf(out.pending, id) =
                IF ResultsOf(m.results, id) <= CallsOf(acc.pending, id)
                THEN CallsOf(acc.pending, id) - ResultsOf(m.results, id) ELSE 0
           /\ ResultsOf(out.kept, id) = CallsOf(acc.pending, id) - CallsOf(out.pending, id)
      /\ Selected(out.kept, RecordedIn(out.kept, C)) = Selected(m.results, RecordedIn(m.results, C))
      /\ (\A id \in Ids : ResultsOf(m.results, id) <= CallsOf(acc.pending, id))
           => out.kept = m.results
  BY <1>1, <1>4, <1>5, KeptResults
<1>7. \A id \in Ids : /\ CallsOf(acc.pending, id) \in Nat /\ CallsOf(out.pending, id) \in Nat
                      /\ ResultsOf(m.results, id) \in Nat /\ ResultsOf(out.kept, id) \in Nat
                      /\ Outstanding(h, Len(h), id) \in Int
  <2>1. Len(h) \in 0..Len(h)
    OBVIOUS
  <2> QED
    BY <1>1, <1>4, <1>6, <2>1, CountsFinite, OutstandingNumber
<1>8. PICK g : g = Append(h, m)
  OBVIOUS
<1>9. g \in Seq(Message) /\ Len(g) = Len(h) + 1
  BY <1>8, MoreMessages
<1>10. \A id \in Ids : Outstanding(g, Len(g), id)
                         = Outstanding(h, Len(h), id) - ResultsOf(m.results, id)
  BY <1>8, <1>9, OutstandingAnswered
<1>11. PICK k : k = ResultMessage(out.kept)
  OBVIOUS
<1>12. k \in Message /\ k.results = out.kept /\ (HasToolResult(k) <=> out.kept # <<>>)
  BY <1>6, <1>11, MessagesBuilt
<1>13. PICK u : u = IF out.kept = <<>> THEN acc.repaired ELSE Append(acc.repaired, k)
  OBVIOUS
<1>14. /\ RecordedAnswers(acc.repaired) \in Seq(Result)
       /\ RecordedAnswers(g) = RecordedAnswers(acc.repaired)
                                 \o Selected(m.results, RecordedIn(m.results, C))
  <2>1. RecordedIn(m.results, Left(h)) = RecordedIn(m.results, C)
    <3>1. ASSUME NEW q \in DOMAIN m.results
          PROVE  Rank(m.results, q) <= Left(h)[m.results[q].id]
                   <=> Rank(m.results, q) <= C[m.results[q].id]
      <4>1. PICK id \in Ids : id = m.results[q].id
        <5>1. m.results[q] \in Result
          BY <1>4
        <5> QED
          BY <5>1 DEF Result
      <4>2. Rank(m.results, q) \in Nat /\ Rank(m.results, q) >= 1
        <5>1. q \in 1..Len(m.results)
          BY <1>4
        <5> QED
          BY <1>4, <5>1, RankBounds
      <4>3. Left(h)[id] = Outstanding(h, Len(h), id) /\ C[id] = CallsOf(acc.pending, id)
        BY <1>5 DEF Left, PendingCounts
      <4> QED
        BY <1>2, <1>7, <4>1, <4>2, <4>3
    <3> QED
      BY <3>1, Zenon DEF RecordedIn
  <2>2. RecordedAnswers(g) = RecordedAnswers(h)
                               \o Selected(m.results, RecordedIn(m.results, Left(h)))
    BY <1>8, RecordedAppend
  <2>3. RecordedAnswers(acc.repaired) \in Seq(Result)
    BY <1>1, RecordedAppend
  <2> QED
    BY <1>1, <2>1, <2>2, <2>3
<1>15. /\ u \in Seq(Message) /\ Settled(u)
       /\ \A id \in Ids : Outstanding(u, Len(u), id) = CallsOf(out.pending, id)
       /\ RecordedAnswers(u) = RecordedAnswers(g)
  <2>1. CASE out.kept = <<>>
    <3>1. \A id : ResultsOf(out.kept, id) = 0
      <4>1. \A id : Answers(out.kept, id) = {}
        BY <2>1 DEF Answers
      <4> QED
        BY <4>1, FS_EmptySet DEF ResultsOf
    <3>2. u = acc.repaired
      BY <1>13, <2>1
    <3>3. \A id \in Ids : CallsOf(out.pending, id) = CallsOf(acc.pending, id)
      BY <1>6, <1>7, <3>1
    <3>4. Selected(m.results, RecordedIn(m.results, C)) = <<>>
      <4>1. RecordedIn(out.kept, C) = {}
        BY <2>1 DEF RecordedIn
      <4> QED
        BY <1>6, <4>1, SelectedNone
    <3>5. RecordedAnswers(g) = RecordedAnswers(acc.repaired)
      BY <1>14, <3>4
    <3> QED
      BY <1>1, <1>2, <3>2, <3>3, <3>5
  <2>2. CASE out.kept # <<>>
    <3>1. u = Append(acc.repaired, k) /\ HasToolResult(k)
      BY <1>12, <1>13, <2>2
    <3>2. u \in Seq(Message) /\ Len(u) = Len(acc.repaired) + 1
      BY <1>1, <1>12, <3>1, MoreMessages
    <3>3. Settled(u)
      BY <1>1, <1>12, <3>1, SettledAppend
    <3>4. ASSUME NEW id \in Ids PROVE Outstanding(u, Len(u), id) = CallsOf(out.pending, id)
      <4>1. Outstanding(u, Len(acc.repaired) + 1, id)
              = Outstanding(acc.repaired, Len(acc.repaired), id) - ResultsOf(out.kept, id)
        BY <1>1, <1>12, <3>1, OutstandingAnswered
      <4>2. Outstanding(acc.repaired, Len(acc.repaired), id) = CallsOf(acc.pending, id)
        BY <1>2
      <4>3. ResultsOf(out.kept, id) = CallsOf(acc.pending, id) - CallsOf(out.pending, id)
        BY <1>6
      <4>4. CallsOf(acc.pending, id) \in Nat /\ CallsOf(out.pending, id) \in Nat
        BY <1>7
      <4>5. Outstanding(u, Len(u), id)
              = CallsOf(acc.pending, id) - (CallsOf(acc.pending, id) - CallsOf(out.pending, id))
        BY <3>2, <4>1, <4>2, <4>3
      <4> QED
        BY <4>4, <4>5
    <3>5. RecordedAnswers(u) = RecordedAnswers(g)
      <4>1. Left(acc.repaired) = C
        BY <1>2, <1>5, Zenon DEF Left, PendingCounts
      <4>2. RecordedAnswers(u) = RecordedAnswers(acc.repaired)
                                   \o Selected(out.kept, RecordedIn(out.kept, C))
        BY <1>1, <1>12, <3>1, <4>1, RecordedAppend
      <4> QED
        BY <1>6, <1>14, <4>2
    <3> QED
      BY <3>2, <3>3, <3>4, <3>5
  <2> QED
    BY <2>1, <2>2
<1>16. ASSUME Settled(g), \A id \in Ids : Outstanding(g, Len(g), id) >= 0
       PROVE  u = g
  <2>1. Settled(h)
    BY <1>8, <1>16, SettledAppend
  <2>2. \A id \in Ids : /\ Outstanding(h, Len(h), id) >= 0
                        /\ ResultsOf(m.results, id) <= CallsOf(acc.pending, id)
    <3> SUFFICES ASSUME NEW id \in Ids
                 PROVE  /\ Outstanding(h, Len(h), id) >= 0
                        /\ ResultsOf(m.results, id) <= CallsOf(acc.pending, id)
      OBVIOUS
    <3>1. Outstanding(h, Len(h), id) - ResultsOf(m.results, id) >= 0
      BY <1>10, <1>16
    <3> QED
      BY <1>2, <1>7, <3>1
  <2>3. acc.repaired = h /\ out.kept = m.results
    BY <1>3, <1>6, <2>1, <2>2
  <2> QED
    BY <1>4, <1>8, <1>11, <1>13, <2>3
<1>17. \A id \in Ids : CallsOf(out.pending, id) = IF Outstanding(g, Len(g), id) > 0
                                                  THEN Outstanding(g, Len(g), id) ELSE 0
  <2> SUFFICES ASSUME NEW id \in Ids
               PROVE  CallsOf(out.pending, id) = IF Outstanding(g, Len(g), id) > 0
                                                 THEN Outstanding(g, Len(g), id) ELSE 0
    OBVIOUS
  <2>1. /\ CallsOf(out.pending, id) =
             IF ResultsOf(m.results, id) <= CallsOf(acc.pending, id)
             THEN CallsOf(acc.pending, id) - ResultsOf(m.results, id) ELSE 0
        /\ CallsOf(acc.pending, id) = IF Outstanding(h, Len(h), id) > 0
                                      THEN Outstanding(h, Len(h), id) ELSE 0
        /\ Outstanding(g, Len(g), id) = Outstanding(h, Len(h), id) - ResultsOf(m.results, id)
    BY <1>2, <1>6, <1>10
  <2> QED
    BY <1>7, <2>1
<1>18. PICK new : new = [repaired |-> u, pending |-> out.pending]
  OBVIOUS
<1>19. new.repaired = u /\ new.pending = out.pending
  BY <1>18
<1>20. Linked(g, new)
  BY <1>6, <1>15, <1>16, <1>17, <1>19, Zenon DEF Linked
<1> QED
  BY <1>8, <1>11, <1>13, <1>18, <1>20

\* The scan takes one message more (repair_tool_result_history).
LEMMA LinkedStep ==
    ASSUME NEW h \in Seq(Message), NEW m \in Message, NEW acc, Linked(h, acc)
    PROVE  Linked(Append(h, m), RepairMessage(acc, m))
<1>1. CASE HasToolResult(m)
  <2>1. m.role # "assistant"
    BY <1>1, MessageTypes
  <2>2. PICK out : out = KeepOrDropToolResults(m.results, acc.pending)
    OBVIOUS
  <2>3. RepairMessage(acc, m)
          = [repaired |-> IF out.kept = <<>> THEN acc.repaired
                          ELSE Append(acc.repaired, ResultMessage(out.kept)),
             pending |-> out.pending]
    BY <1>1, <2>1, <2>2, Zenon DEF RepairMessage
  <2> QED
    BY <1>1, <2>2, <2>3, LinkedResults
<1>2. CASE ~HasToolResult(m)
  <2>1. RepairMessage(acc, m) = [repaired |-> Append(FlushPending(acc).repaired, m),
                                 pending |-> m.uses]
    <3>1. CASE m.role = "assistant"
      BY <3>1, Zenon DEF RepairMessage
    <3>2. CASE m.role # "assistant"
      <4>1. m.uses = <<>>
        BY <1>2, <3>2, MessageTypes
      <4> QED
        BY <1>2, <3>2, <4>1, Zenon DEF RepairMessage
    <3> QED
      BY <3>1, <3>2
  <2> QED
    BY <1>2, <2>1, LinkedAsker
<1> QED
  BY <1>1, <1>2
\* What a scan accumulates.
Scans == [repaired : Seq(Message), pending : Seq(Ids)]

\* Before the first message.
LEMMA LinkedNone == Linked(<<>>, [repaired |-> <<>>, pending |-> <<>>])
<1>1. PICK acc : acc = [repaired |-> <<>>, pending |-> <<>>]
  OBVIOUS
<1>2. acc.repaired = <<>> /\ acc.pending = <<>> /\ Len(<<>>) = 0
  BY <1>1
<1>3. <<>> \in Seq(Message) /\ <<>> \in Seq(Ids)
  BY EmptySeq
<1>4. Settled(<<>>)
  <2>1. DOMAIN <<>> = {}
    OBVIOUS
  <2> QED
    BY <2>1, Zenon DEF Settled
<1>5. \A id \in Ids : CallsOf(<<>>, id) = 0
  BY <1>3, NoCallsLeft
<1>6. \A id : Outstanding(<<>>, Len(<<>>), id) = 0
  BY <1>2, OutstandingNone
<1>7. ASSUME NEW id \in Ids
      PROVE  /\ Outstanding(<<>>, Len(<<>>), id) = CallsOf(<<>>, id)
             /\ CallsOf(<<>>, id) = IF Outstanding(<<>>, Len(<<>>), id) > 0
                                    THEN Outstanding(<<>>, Len(<<>>), id) ELSE 0
  BY <1>5, <1>6
<1>8. Linked(<<>>, acc)
  BY <1>2, <1>3, <1>4, <1>7, Zenon DEF Linked
<1> QED
  BY <1>1, <1>8

\* The results made up for pending calls are messages.
LEMMA FlushTyped ==
    ASSUME NEW acc \in Scans
    PROVE  FlushPending(acc).repaired \in Seq(Message)
<1>1. acc.repaired \in Seq(Message) /\ acc.pending \in Seq(Ids)
  BY Zenon DEF Scans
<1>2. CASE acc.pending = <<>>
  BY <1>1, <1>2 DEF FlushPending
<1>3. CASE acc.pending # <<>>
  <2>1. PICK m : m = ResultMessage(SyntheticToolResults(acc.pending))
    OBVIOUS
  <2>2. m \in Message
    BY <1>1, <2>1, SyntheticCounts, MessagesBuilt
  <2>3. FlushPending(acc).repaired = Append(acc.repaired, m)
    BY <1>3, <2>1 DEF FlushPending
  <2> QED
    BY <1>1, <2>2, <2>3
<1> QED
  BY <1>2, <1>3

\* The scan goes on with messages and pending calls.
LEMMA RepairMessageTyped ==
    ASSUME NEW acc \in Scans, NEW m \in Message
    PROVE  RepairMessage(acc, m) \in Scans
<1>1. acc.repaired \in Seq(Message) /\ acc.pending \in Seq(Ids)
  BY Zenon DEF Scans
<1>2. Append(FlushPending(acc).repaired, m) \in Seq(Message)
  BY FlushTyped
<1>3. m.uses \in Seq(Ids) /\ m.results \in Seq(Result) /\ <<>> \in Seq(Ids)
  BY MessageTypes, EmptySeq
<1>4. CASE m.role = "assistant"
  <2>1. RepairMessage(acc, m)
          = [repaired |-> Append(FlushPending(acc).repaired, m), pending |-> m.uses]
    BY <1>4, Zenon DEF RepairMessage
  <2> QED
    BY <1>2, <1>3, <2>1 DEF Scans
<1>5. CASE m.role # "assistant" /\ HasToolResult(m)
  <2>1. PICK out : out = KeepOrDropToolResults(m.results, acc.pending)
    OBVIOUS
  <2>2. out.kept \in Seq(Result) /\ out.pending \in Seq(Ids)
    BY <1>1, <1>3, <2>1, KeptResults
  <2>3. PICK u : u = IF out.kept = <<>> THEN acc.repaired
                     ELSE Append(acc.repaired, ResultMessage(out.kept))
    OBVIOUS
  <2>4. u \in Seq(Message)
    <3>1. ResultMessage(out.kept) \in Message
      BY <2>2, MessagesBuilt
    <3> QED
      BY <1>1, <2>3, <3>1
  <2>5. RepairMessage(acc, m) = [repaired |-> u, pending |-> out.pending]
    BY <1>5, <2>1, <2>3, Zenon DEF RepairMessage
  <2> QED
    BY <2>2, <2>4, <2>5 DEF Scans
<1>6. CASE m.role # "assistant" /\ ~HasToolResult(m)
  <2>1. RepairMessage(acc, m)
          = [repaired |-> Append(FlushPending(acc).repaired, m), pending |-> <<>>]
    BY <1>6, Zenon DEF RepairMessage
  <2> QED
    BY <1>2, <1>3, <2>1 DEF Scans
<1> QED
  BY <1>4, <1>5, <1>6

\* The whole scan, by induction over the messages of the history.
LEMMA ScanIs ==
    ASSUME NEW h \in Seq(Message)
    PROVE  \E acc : Linked(h, acc) /\ RepairToolResultHistory(h) = FlushPending(acc).repaired
<1>1. PICK N \in Nat : N = Len(h)
  OBVIOUS
<1>2. PICK first : first = [repaired |-> <<>>, pending |-> <<>>]
  OBVIOUS
<1>3. PICK step : step = [n \in 1..N |-> [acc \in Scans |-> RepairMessage(acc, h[n])]]
  OBVIOUS
<1>4. first \in Scans
  BY <1>2, EmptySeq DEF Scans
<1>5. step \in [1..N -> [Scans -> Scans]]
  <2>1. \A n \in 1..N : h[n] \in Message
    BY <1>1
  <2>2. \A n \in 1..N : \A acc \in Scans : RepairMessage(acc, h[n]) \in Scans
    BY <2>1, RepairMessageTyped
  <2> QED
    BY <1>3, <2>2
<1>6. PICK f : Computes(f, Scans, N, first, step)
  <2>1. \E f : Computes(f, Scans, N, first, step)
    BY <1>4, <1>5, RecursionExists
  <2> QED
    BY <2>1
<1> DEFINE Solves(g) == g = [n \in 0..N |-> IF n = 0 THEN [repaired |-> <<>>, pending |-> <<>>]
                                            ELSE RepairMessage(g[n - 1], h[n])]
<1>7. RepairToolResultHistory(h) = FlushPending((CHOOSE g : Solves(g))[N]).repaired
  BY <1>1, Zenon DEF RepairToolResultHistory
<1>8. Solves(f)
  <2>1. f \in [0..N -> Scans] /\ f[0] = first /\ \A n \in 1..N : f[n] = step[n][f[n - 1]]
    BY <1>6, Zenon DEF Computes
  <2>2. \A n \in 1..N : f[n] = RepairMessage(f[n - 1], h[n])
    <3>1. \A n \in 1..N : f[n - 1] \in Scans
      BY <2>1
    <3> QED
      BY <1>3, <2>1, <3>1
  <2>3. \A n \in 0..N : f[n] = IF n = 0 THEN [repaired |-> <<>>, pending |-> <<>>]
                               ELSE RepairMessage(f[n - 1], h[n])
    <3>1. \A n \in 0..N : n # 0 => n \in 1..N
      OBVIOUS
    <3> QED
      BY <1>2, <2>1, <2>2, <3>1
  <2> QED
    BY <2>1, <2>3
<1>9. PICK g : g = (CHOOSE e : Solves(e)) /\ Solves(g)
  <2> HIDE DEF Solves
  <2> QED
    BY <1>8
<1>10. g[0] = [repaired |-> <<>>, pending |-> <<>>]
       /\ \A n \in 1..N : g[n] = RepairMessage(g[n - 1], h[n])
  <2>1. 0 \in 0..N /\ \A n \in 1..N : n \in 0..N /\ n # 0
    OBVIOUS
  <2>2. \A n \in 0..N : g[n] = IF n = 0 THEN [repaired |-> <<>>, pending |-> <<>>]
                               ELSE RepairMessage(g[n - 1], h[n])
    BY <1>9
  <2> QED
    BY <2>1, <2>2
<1> DEFINE T == {n \in Nat : n <= N => Linked(SubSeq(h, 1, n), g[n])}
<1>11. 0 \in T
  <2>1. SubSeq(h, 1, 0) = <<>>
    OBVIOUS
  <2> QED
    BY <1>10, <2>1, LinkedNone
<1>12. ASSUME NEW n \in T PROVE n + 1 \in T
  <2> SUFFICES ASSUME n + 1 <= N PROVE Linked(SubSeq(h, 1, n + 1), g[n + 1])
    OBVIOUS
  <2>1. n \in Nat /\ n < Len(h) /\ Linked(SubSeq(h, 1, n), g[n])
    BY <1>1
  <2>2. n + 1 \in 1..N /\ (n + 1) - 1 = n
    BY <2>1
  <2>3. g[n + 1] = RepairMessage(g[n], h[n + 1])
    BY <1>10, <2>2
  <2>4. /\ SubSeq(h, 1, n) \in Seq(Message) /\ h[n + 1] \in Message
        /\ SubSeq(h, 1, n + 1) = Append(SubSeq(h, 1, n), h[n + 1])
    BY <1>1, <2>1, <2>2
  <2> QED
    BY <2>1, <2>3, <2>4, LinkedStep
<1>13. N \in T
  <2>1. T \in SUBSET Nat
    OBVIOUS
  <2> HIDE DEF T
  <2> QED
    BY <1>11, <1>12, <2>1, EveryNumber
<1>14. SubSeq(h, 1, N) = h
  BY <1>1
<1>15. Linked(h, g[N])
  <2>1. Linked(SubSeq(h, 1, N), g[N])
    BY <1>13
  <2> QED
    BY <1>14, <2>1
<1>16. RepairToolResultHistory(h) = FlushPending(g[N]).repaired
  BY <1>7, <1>9, Zenon
<1> QED
  BY <1>15, <1>16

\* The repair answers every call once, right after it, keeps what was recorded,
\* and leaves a transcript that is in order as it is
\* (repair_tool_result_history, keep_or_drop_tool_results).
THEOREM RepairTheorem ==
    ASSUME NEW h \in Seq(Message), NEW t, t = RepairToolResultHistory(h)
    PROVE  /\ t \in Seq(Message)
           /\ WellPaired(t)
           /\ RecordedAnswers(t) = RecordedAnswers(h)
           /\ RepairToolResultHistory(t) = t
           /\ WellPaired(h) => t = h
<1>1. ASSUME NEW g \in Seq(Message), NEW u, u = RepairToolResultHistory(g)
      PROVE  /\ u \in Seq(Message)
             /\ WellPaired(u)
             /\ RecordedAnswers(u) = RecordedAnswers(g)
             /\ WellPaired(g) => u = g
  <2>1. PICK acc : Linked(g, acc) /\ RepairToolResultHistory(g) = FlushPending(acc).repaired
    BY ScanIs
  <2>2. /\ u \in Seq(Message) /\ Settled(u)
        /\ \A id \in Ids : Outstanding(u, Len(u), id) = 0
        /\ RecordedAnswers(u) = RecordedAnswers(g)
        /\ (Settled(g) /\ \A id \in Ids : Outstanding(g, Len(g), id) = 0) => u = g
    BY <1>1, <2>1, FlushSettles, Zenon
  <2> QED
    BY <2>2, PairedIsSettled
<1>2. t \in Seq(Message) /\ WellPaired(t) /\ RecordedAnswers(t) = RecordedAnswers(h)
      /\ (WellPaired(h) => t = h)
  BY <1>1
<1>3. RepairToolResultHistory(t) = t
  BY <1>1, <1>2
<1> QED
  BY <1>2, <1>3
-----------------------------------------------------------------------------
(* The turns of a session *)

\* The calls that the transcript still has to answer.
OpenCalls == IF phase = "ToolsPending" THEN calls ELSE <<>>

\* What was recorded is what completed, and while a turn runs the account of
\* the transcript is exactly the calls of the batch that are still to come.
HostInv ==
    /\ transcript \in Seq(Message)
    /\ calls \in Seq(Ids)
    /\ RecordedAnswers(transcript) = replies
    /\ running =>
          /\ Settled(transcript)
          /\ \A id \in Ids :
                Outstanding(transcript, Len(transcript), id) = CallsOf(OpenCalls, id)
    /\ running /\ phase = "AssistantPending" =>
          /\ obs.tools = (calls # <<>>)
          /\ ~waiting
          /\ assistant \in {<<>>, <<Assistant(calls)>>}
          /\ assistant = <<>> => calls = <<>>
    /\ running /\ phase = "ToolsPending" /\ waiting => calls # <<>>

\* What the calls of the machine do when the host makes them and they succeed.
LEMMA CallsAdvance ==
    /\ phase = "Ready" /\ BeginIteration(FALSE) => phase' \in {"Finalizing", "ModelPending"}
    /\ CheckpointCompleted(effect_id, FALSE) /\ result' = "ok"
         => phase' \in {"Finalizing", "ModelPending"}
    /\ StopHooksCompleted(effect_id, "AllowCompletion") /\ result' = "ok"
         => phase' = "Finalizing"
    /\ ToolsCompleted(effect_id, "ResultsAvailable") /\ result' = "ok"
         => phase' = "ToolResultsPending"
BY DEF BeginIteration, CheckpointCompleted, StopHooksCompleted, ToolsCompleted,
       NextIteration, Finalize, Request, Refuse, Accept, Overflow

\* A response that was accepted waits to be recorded (model_completed).
LEMMA ResponseAdvances ==
    ASSUME NEW o, ~o.plan_exit, ModelCompleted(effect_id, o), result' = "ok"
    PROVE  phase' = "AssistantPending" /\ obs' = o
BY DEF ModelCompleted, InvalidPlanExit, Overflow, Refuse, Request

\* A recorded response leads to its tools or to the end of the iteration
\* (assistant_recorded).
LEMMA RecordAdvances ==
    ASSUME AssistantRecorded(effect_id, NoContext), result' = "ok"
    PROVE  \/ obs.tools /\ phase' = "ToolsPending"
           \/ ~obs.tools /\ phase' \in {"ContinuationPending", "StopHooksPending"}
BY DEF AssistantRecorded, Overflow, Refuse, Request, ContinueWith

\* What has been recorded when a message without results is added.
LEMMA AddAsker ==
    ASSUME NEW h \in Seq(Message), NEW m \in Message, ~HasToolResult(m), Settled(h),
           \A id \in Ids : Outstanding(h, Len(h), id) = 0
    PROVE  LET t == Append(h, m)
           IN  /\ t \in Seq(Message) /\ Settled(t)
               /\ \A id \in Ids : Outstanding(t, Len(t), id) = CallsOf(m.uses, id)
               /\ RecordedAnswers(t) = RecordedAnswers(h)
<1>1. PICK t : t = Append(h, m)
  OBVIOUS
<1>2. t \in Seq(Message) /\ Len(t) = Len(h) + 1
  BY <1>1, MoreMessages
<1>3. Settled(t)
  BY <1>1, SettledAppend
<1>4. \A id \in Ids : Outstanding(t, Len(t), id) = CallsOf(m.uses, id)
  BY <1>1, <1>2, OutstandingAsked
<1>5. RecordedAnswers(t) = RecordedAnswers(h)
  <2>1. m.results = <<>>
    BY MessageTypes
  <2>2. RecordedIn(m.results, Left(h)) = {}
    BY <2>1 DEF RecordedIn
  <2>3. /\ RecordedAnswers(h) \in Seq(Result)
        /\ RecordedAnswers(t) = RecordedAnswers(h) \o <<>>
    BY <1>1, <2>2, RecordedAppend, SelectedNone
  <2> QED
    BY <2>3
<1> QED
  BY <1>1, <1>2, <1>3, <1>4, <1>5

\* A batch without its first call.
LEMMA TailCounts ==
    ASSUME NEW s \in Seq(Ids), s # <<>>
    PROVE  /\ Tail(s) \in Seq(Ids) /\ s[1] \in Ids
           /\ \A id : /\ CallsOf(s, id) \in Nat
                      /\ CallsOf(Tail(s), id) = CallsOf(s, id) - (IF id = s[1] THEN 1 ELSE 0)
           /\ CallsOf(s, s[1]) >= 1
<1>1. 1 \in 1..Len(s) /\ s[1] \in Ids /\ Tail(s) \in Seq(Ids)
  BY EmptySeq
<1>2. RemoveAt(s, 1) = Tail(s)
  <2>1. SubSeq(s, 1, 1 - 1) = <<>> /\ SubSeq(s, 1 + 1, Len(s)) = Tail(s)
    BY <1>1
  <2>2. <<>> \o Tail(s) = Tail(s)
    BY <1>1
  <2> QED
    BY <2>1, <2>2 DEF RemoveAt
<1>3. \A id : CallsOf(s, id) \in Nat
  BY CountsFinite
<1>4. \A id : CallsOf(Tail(s), id) = IF id = s[1] THEN CallsOf(s, id) - 1 ELSE CallsOf(s, id)
  <2>1. \A id : CallsOf(RemoveAt(s, 1), id)
                   = IF id = s[1] THEN CallsOf(s, id) - 1 ELSE CallsOf(s, id)
    BY <1>1, RemoveAtCounts
  <2> QED
    BY <1>2, <2>1, Zenon
<1>5. CallsOf(s, s[1]) > 0
  <2>1. Contains(s, s[1])
    BY <1>1 DEF Contains
  <2> QED
    BY <2>1, ContainsCounts
<1>6. \A id : CallsOf(Tail(s), id) = CallsOf(s, id) - (IF id = s[1] THEN 1 ELSE 0)
  BY <1>3, <1>4
<1> QED
  BY <1>1, <1>3, <1>5, <1>6

\* A reply settles one call of the batch.
LEMMA AddReply ==
    ASSUME NEW h \in Seq(Message), NEW s \in Seq(Ids), s # <<>>, Settled(h),
           \A id \in Ids : Outstanding(h, Len(h), id) = CallsOf(s, id)
    PROVE  LET t == Append(h, ResultMessage(<<RealResult(s[1])>>))
           IN  /\ t \in Seq(Message) /\ Settled(t)
               /\ \A id \in Ids : Outstanding(t, Len(t), id) = CallsOf(Tail(s), id)
               /\ RecordedAnswers(t) = Append(RecordedAnswers(h), RealResult(s[1]))
<1>1. PICK r : r = RealResult(s[1])
  OBVIOUS
<1>2. /\ s[1] \in Ids
      /\ \A id : /\ CallsOf(s, id) \in Nat
                 /\ CallsOf(Tail(s), id) = CallsOf(s, id) - (IF id = s[1] THEN 1 ELSE 0)
      /\ CallsOf(s, s[1]) >= 1
  BY TailCounts
<1>3. r \in Result /\ r.id = s[1] /\ ~r.synthetic
  BY <1>1, <1>2 DEF RealResult, Result
<1>4. PICK rs : rs = <<r>>
  OBVIOUS
<1>5. rs \in Seq(Result) /\ rs # <<>> /\ Len(rs) = 1 /\ rs[1] = r /\ DOMAIN rs = 1..1
  BY <1>3, <1>4
<1>6. PICK m : m = ResultMessage(rs)
  OBVIOUS
<1>7. m \in Message /\ m.results = rs /\ HasToolResult(m)
  BY <1>5, <1>6, MessagesBuilt
<1>8. PICK t : t = Append(h, m)
  OBVIOUS
<1>9. t \in Seq(Message) /\ Len(t) = Len(h) + 1
  BY <1>7, <1>8, MoreMessages
<1>10. Settled(t)
  BY <1>7, <1>8, SettledAppend
<1>11. \A id : ResultsOf(rs, id) = IF id = s[1] THEN 1 ELSE 0
  <2>1. rs = Append(<<>>, r) /\ <<>> \in Seq(Result)
    BY <1>4, EmptySeq
  <2>2. \A id : ResultsOf(rs, id) = ResultsOf(<<>>, id) + (IF r.id = id THEN 1 ELSE 0)
    BY <1>3, <2>1, ResultsAppend
  <2>3. \A id : ResultsOf(<<>>, id) = 0
    <3>1. \A id : Answers(<<>>, id) = {}
      BY DEF Answers
    <3> QED
      BY <3>1, FS_EmptySet DEF ResultsOf
  <2> QED
    BY <1>3, <2>2, <2>3
<1>12. ASSUME NEW id \in Ids PROVE Outstanding(t, Len(t), id) = CallsOf(Tail(s), id)
  <2>1. Outstanding(t, Len(h) + 1, id) = Outstanding(h, Len(h), id) - ResultsOf(rs, id)
    BY <1>7, <1>8, OutstandingAnswered
  <2>2. CallsOf(Tail(s), id) = CallsOf(s, id) - (IF id = s[1] THEN 1 ELSE 0)
    BY <1>2
  <2>3. Outstanding(h, Len(h), id) = CallsOf(s, id)
    OBVIOUS
  <2> QED
    BY <1>9, <1>11, <2>1, <2>2, <2>3
<1>13. RecordedIn(rs, Left(h)) = {1}
  <2>1. Left(h)[s[1]] >= 1 /\ Left(h)[s[1]] \in Nat
    BY <1>2 DEF Left
  <2>2. Rank(rs, 1) = 1
    <3>1. {p \in 1..1 : rs[p].id = rs[1].id} = {1}
      OBVIOUS
    <3> QED
      BY <3>1, FS_Singleton DEF Rank
  <2>3. Rank(rs, 1) <= Left(h)[rs[1].id] /\ ~rs[1].synthetic
    BY <1>3, <1>5, <2>1, <2>2
  <2>4. \A q : q \in DOMAIN rs <=> q = 1
    BY <1>5
  <2> QED
    BY <2>3, <2>4, Zenon DEF RecordedIn
<1>14. Selected(rs, {1}) = <<r>>
  <2>1. Selected(rs, {} \cup {0 + 1}) = Append(Selected(rs, {}), rs[0 + 1])
    BY <1>3, <1>5, SelectedNext
  <2>2. {} \cup {0 + 1} = {1} /\ 0 + 1 = 1
    OBVIOUS
  <2>3. Selected(rs, {}) = <<>>
    BY SelectedNone
  <2> QED
    BY <1>5, <2>1, <2>2, <2>3
<1>15. RecordedAnswers(t) = Append(RecordedAnswers(h), r)
  <2>1. /\ RecordedAnswers(h) \in Seq(Result)
        /\ RecordedAnswers(t) = RecordedAnswers(h) \o <<r>>
    BY <1>7, <1>8, <1>13, <1>14, RecordedAppend
  <2> QED
    BY <1>3, <2>1
<1> QED
  BY <1>1, <1>4, <1>6, <1>8, <1>9, <1>10, <1>12, <1>15
\* No turn is running, and the transcript is what was recorded.
LEMMA IdleKeeps ==
    ASSUME ~running', transcript' \in Seq(Message), calls' \in Seq(Ids),
           RecordedAnswers(transcript') = replies'
    PROVE  HostInv'
BY Zenon DEF HostInv

\* A turn goes on with no call open.
LEMMA QuietKeeps ==
    ASSUME transcript' \in Seq(Message), calls' \in Seq(Ids),
           RecordedAnswers(transcript') = replies',
           running' => /\ Settled(transcript')
                       /\ \A id \in Ids :
                             Outstanding(transcript', Len(transcript'), id) = 0
                       /\ phase' \notin {"AssistantPending", "ToolsPending"}
    PROVE  HostInv'
<1>1. CASE ~running'
  BY <1>1, IdleKeeps
<1>2. CASE running'
  <2>1. OpenCalls' = <<>>
    BY <1>2 DEF OpenCalls
  <2>2. \A id \in Ids : CallsOf(<<>>, id) = 0
    BY EmptySeq, NoCallsLeft
  <2>3. \A id \in Ids : Outstanding(transcript', Len(transcript'), id) = CallsOf(OpenCalls', id)
    BY <1>2, <2>1, <2>2
  <2>4. phase' # "AssistantPending" /\ phase' # "ToolsPending"
    BY <1>2
  <2> QED
    BY <1>2, <2>3, <2>4, Zenon DEF HostInv
<1> QED
  BY <1>1, <1>2

\* Outside a batch nothing is outstanding.
LEMMA BalancedOutside ==
    ASSUME HostInv, running, phase # "ToolsPending" \/ calls = <<>>
    PROVE  /\ Settled(transcript)
           /\ \A id \in Ids : Outstanding(transcript, Len(transcript), id) = 0
<1>1. OpenCalls = <<>>
  BY DEF OpenCalls
<1>2. \A id \in Ids : CallsOf(<<>>, id) = 0
  BY EmptySeq, NoCallsLeft
<1>3. \A id \in Ids : Outstanding(transcript, Len(transcript), id) = CallsOf(<<>>, id)
  BY <1>1, Zenon DEF HostInv
<1>4. Settled(transcript)
  BY Zenon DEF HostInv
<1> QED
  BY <1>2, <1>3, <1>4

\* The types of the invariant.
LEMMA HostTypes ==
    ASSUME HostInv
    PROVE  /\ transcript \in Seq(Message) /\ calls \in Seq(Ids)
           /\ RecordedAnswers(transcript) = replies
BY Zenon DEF HostInv

\* A step that leaves the turn where it is.
LEMMA SameKeeps ==
    ASSUME HostInv, UNCHANGED <<phase, obs, running, transcript, assistant, calls, replies>>,
           phase = "AssistantPending" => waiting' = waiting,
           phase = "ToolsPending" /\ waiting' => calls # <<>>
    PROVE  HostInv'
<1>1. OpenCalls' = OpenCalls
  BY DEF OpenCalls
<1>2. /\ transcript' \in Seq(Message) /\ calls' \in Seq(Ids)
      /\ RecordedAnswers(transcript') = replies'
  BY HostTypes
<1>3. running' => /\ Settled(transcript')
                  /\ \A id \in Ids :
                       Outstanding(transcript', Len(transcript'), id) = CallsOf(OpenCalls', id)
  BY <1>1, Zenon DEF HostInv
<1>4. running' /\ phase' = "AssistantPending" =>
          /\ obs'.tools = (calls' # <<>>)
          /\ ~waiting'
          /\ assistant' \in {<<>>, <<Assistant(calls')>>}
          /\ assistant' = <<>> => calls' = <<>>
  <2> SUFFICES ASSUME running, phase = "AssistantPending"
               PROVE  /\ obs.tools = (calls # <<>>)
                      /\ ~waiting'
                      /\ assistant \in {<<>>, <<Assistant(calls)>>}
                      /\ assistant = <<>> => calls = <<>>
    OBVIOUS
  <2>1. /\ obs.tools = (calls # <<>>) /\ ~waiting
        /\ assistant \in {<<>>, <<Assistant(calls)>>}
        /\ assistant = <<>> => calls = <<>>
    BY Zenon DEF HostInv
  <2>2. waiting' = waiting
    OBVIOUS
  <2> QED
    BY <2>1, <2>2, Zenon
<1>5. running' /\ phase' = "ToolsPending" /\ waiting' => calls' # <<>>
  OBVIOUS
<1> QED
  BY <1>2, <1>3, <1>4, <1>5, Zenon DEF HostInv

\* The transcript is replaced between turns.
LEMMA ReplaceKeeps ==
    ASSUME HostInv, NEW t \in Replacements, ReplaceTranscript(t)
    PROVE  HostInv'
<1>1. /\ ~running' /\ transcript' = t /\ replies' = RecordedAnswers(t) /\ calls' = calls
  BY DEF ReplaceTranscript
<1>2. t \in Seq(Message)
  BY ReplacementAssumption
<1> QED
  BY <1>1, <1>2, HostTypes, IdleKeeps

\* A turn begins with the repaired transcript and the prompt.
LEMMA StartKeeps ==
    ASSUME HostInv, NEW limit, StartTurn(limit)
    PROVE  HostInv'
<1>1. PICK t : t = RepairToolResultHistory(transcript)
  OBVIOUS
<1>2. /\ transcript' = Append(t, UserText) /\ calls' = <<>> /\ phase' = "Ready"
      /\ replies' = replies
  BY <1>1 DEF StartTurn
<1>3. transcript \in Seq(Message) /\ RecordedAnswers(transcript) = replies
  BY HostTypes
<1>4. t \in Seq(Message) /\ WellPaired(t) /\ RecordedAnswers(t) = replies
  BY <1>1, <1>3, RepairTheorem
<1>5. Settled(t) /\ \A id \in Ids : Outstanding(t, Len(t), id) = 0
  BY <1>4, PairedIsSettled
<1>6. UserText \in Message /\ ~HasToolResult(UserText) /\ UserText.uses = <<>>
  BY MessagesBuilt
<1>7. PICK u : u = Append(t, UserText)
  OBVIOUS
<1>8. /\ u \in Seq(Message) /\ Settled(u)
      /\ \A id \in Ids : Outstanding(u, Len(u), id) = CallsOf(<<>>, id)
      /\ RecordedAnswers(u) = RecordedAnswers(t)
  BY <1>4, <1>5, <1>6, <1>7, AddAsker
<1>9. <<>> \in Seq(Ids) /\ \A id \in Ids : CallsOf(<<>>, id) = 0
  BY EmptySeq, NoCallsLeft
<1> QED
  BY <1>2, <1>4, <1>7, <1>8, <1>9, QuietKeeps

\* A turn ends with an error.
LEMMA FailKeeps ==
    ASSUME HostInv, Fail
    PROVE  HostInv'
<1>1. ~running' /\ calls' = <<>> /\ transcript' = transcript /\ replies' = replies
  BY DEF Fail
<1>2. calls' \in Seq(Ids)
  BY <1>1, EmptySeq
<1> QED
  BY <1>1, <1>2, HostTypes, IdleKeeps

\* The response is collected; the transcript does not have it yet.
LEMMA RespondKeeps ==
    ASSUME HostInv, NEW ids \in Seq(Ids), NEW text \in BOOLEAN, NEW reasoning \in BOOLEAN,
           ModelResponds(ids, text, reasoning)
    PROVE  HostInv'
<1>1. PICK o : o = [NoObservation EXCEPT !.tools = ids # <<>>, !.text = text,
                                         !.reasoning = reasoning]
  OBVIOUS
<1>2. /\ running /\ phase = "ModelPending" /\ ModelCompleted(effect_id, o)
      /\ assistant' = CollectedMessage(ids, text) /\ calls' = ids /\ waiting' = FALSE
      /\ running' = (result' = "ok") /\ transcript' = transcript /\ replies' = replies
  BY <1>1, Zenon DEF ModelResponds, Continues
<1>3. o.tools = (ids # <<>>) /\ ~o.plan_exit
  BY <1>1 DEF NoObservation
<1>4. transcript' \in Seq(Message) /\ calls' \in Seq(Ids) /\ RecordedAnswers(transcript') = replies'
  BY <1>2, HostTypes
<1>5. CASE ~running'
  BY <1>4, <1>5, IdleKeeps
<1>6. CASE running'
  <2>1. phase' = "AssistantPending" /\ obs' = o
    BY <1>2, <1>3, <1>6, ResponseAdvances
  <2>2. Settled(transcript) /\ \A id \in Ids : Outstanding(transcript, Len(transcript), id) = 0
    BY <1>2, BalancedOutside
  <2>3. OpenCalls' = <<>>
    BY <2>1 DEF OpenCalls
  <2>4. \A id \in Ids : CallsOf(<<>>, id) = 0
    BY EmptySeq, NoCallsLeft
  <2>5. \A id \in Ids : Outstanding(transcript', Len(transcript'), id) = CallsOf(OpenCalls', id)
    BY <1>2, <2>2, <2>3, <2>4
  <2>6. Settled(transcript')
    BY <1>2, <2>2
  <2>7. assistant' \in {<<>>, <<Assistant(calls')>>} /\ (assistant' = <<>> => calls' = <<>>)
    BY <1>2 DEF CollectedMessage
  <2>8. obs'.tools = (calls' # <<>>) /\ ~waiting'
    BY <1>2, <1>3, <2>1
  <2>9. phase' # "ToolsPending"
    BY <2>1
  <2> QED
    BY <1>4, <2>5, <2>6, <2>7, <2>8, <2>9, Zenon DEF HostInv
<1> QED
  BY <1>5, <1>6

\* The message that made the calls is recorded before they are executed.
LEMMA RecordKeeps ==
    ASSUME HostInv, RecordAssistant
    PROVE  HostInv'
<1>1. /\ running /\ phase = "AssistantPending" /\ AssistantRecorded(effect_id, NoContext)
      /\ transcript' = transcript \o assistant /\ assistant' = <<>>
      /\ running' = (result' = "ok") /\ calls' = calls /\ waiting' = waiting
      /\ replies' = replies
  BY Zenon DEF RecordAssistant, Continues
<1>2. /\ transcript \in Seq(Message) /\ calls \in Seq(Ids)
      /\ RecordedAnswers(transcript) = replies
  BY HostTypes
<1>3. Settled(transcript) /\ \A id \in Ids : Outstanding(transcript, Len(transcript), id) = 0
  BY <1>1, BalancedOutside
<1>4. /\ obs.tools = (calls # <<>>) /\ ~waiting
      /\ assistant \in {<<>>, <<Assistant(calls)>>}
      /\ assistant = <<>> => calls = <<>>
  BY <1>1, Zenon DEF HostInv
<1>5. /\ transcript' \in Seq(Message) /\ Settled(transcript')
      /\ \A id \in Ids : Outstanding(transcript', Len(transcript'), id) = CallsOf(calls, id)
      /\ RecordedAnswers(transcript') = replies'
  <2>1. CASE assistant = <<>>
    <3>1. transcript' = transcript
      BY <1>1, <1>2, <2>1
    <3>2. \A id \in Ids : CallsOf(calls, id) = 0
      BY <1>2, <1>4, <2>1, NoCallsLeft
    <3> QED
      BY <1>1, <1>2, <1>3, <3>1, <3>2
  <2>2. CASE assistant = <<Assistant(calls)>>
    <3>1. /\ Assistant(calls) \in Message /\ ~HasToolResult(Assistant(calls))
          /\ Assistant(calls).uses = calls
      BY <1>2, MessagesBuilt
    <3>2. transcript' = Append(transcript, Assistant(calls))
      BY <1>1, <1>2, <2>2, <3>1
    <3> QED
      BY <1>1, <1>2, <1>3, <3>1, <3>2, AddAsker
  <2> QED
    BY <1>4, <2>1, <2>2
<1>6. CASE ~running'
  BY <1>1, <1>2, <1>5, <1>6, IdleKeeps
<1>7. CASE running' /\ obs.tools
  <2>1. phase' = "ToolsPending"
    BY <1>1, <1>7, RecordAdvances
  <2>2. OpenCalls' = calls
    BY <1>1, <2>1 DEF OpenCalls
  <2>3. ~waiting' /\ phase' # "AssistantPending" /\ calls' \in Seq(Ids)
    BY <1>1, <1>2, <1>4, <2>1
  <2> QED
    BY <1>5, <2>2, <2>3, Zenon DEF HostInv
<1>8. CASE running' /\ ~obs.tools
  <2>1. phase' \notin {"AssistantPending", "ToolsPending"}
    BY <1>1, <1>8, RecordAdvances
  <2>2. \A id \in Ids : CallsOf(calls, id) = 0
    BY <1>2, <1>4, <1>8, NoCallsLeft
  <2> QED
    BY <1>1, <1>2, <1>5, <2>1, <2>2, QuietKeeps
<1> QED
  BY <1>6, <1>7, <1>8

\* The user's further text continues the turn.
LEMMA ContinueKeeps ==
    ASSUME HostInv, ContinueTurn
    PROVE  HostInv'
<1>1. /\ running /\ phase = "ContinuationPending" /\ CheckpointCompleted(effect_id, FALSE)
      /\ transcript' = Append(transcript, UserText)
      /\ running' = (result' = "ok") /\ calls' = calls /\ replies' = replies
  BY Zenon DEF ContinueTurn, Continues
<1>2. /\ transcript \in Seq(Message) /\ calls \in Seq(Ids)
      /\ RecordedAnswers(transcript) = replies
  BY HostTypes
<1>3. Settled(transcript) /\ \A id \in Ids : Outstanding(transcript, Len(transcript), id) = 0
  BY <1>1, BalancedOutside
<1>4. UserText \in Message /\ ~HasToolResult(UserText) /\ UserText.uses = <<>>
  BY MessagesBuilt
<1>5. /\ transcript' \in Seq(Message) /\ Settled(transcript')
      /\ \A id \in Ids : Outstanding(transcript', Len(transcript'), id) = CallsOf(<<>>, id)
      /\ RecordedAnswers(transcript') = replies'
  BY <1>1, <1>2, <1>3, <1>4, AddAsker
<1>6. \A id \in Ids : CallsOf(<<>>, id) = 0
  BY EmptySeq, NoCallsLeft
<1>7. running' => phase' \in {"Finalizing", "ModelPending"}
  BY <1>1, CallsAdvance
<1>8. running' => phase' \notin {"AssistantPending", "ToolsPending"}
  BY <1>7
<1> QED
  BY <1>1, <1>2, <1>5, <1>6, <1>8, QuietKeeps

\* A step between effects that leaves the transcript alone.
LEMMA PassKeeps ==
    ASSUME HostInv, running, phase # "ToolsPending" \/ calls = <<>>,
           UNCHANGED <<transcript, calls, replies>>,
           running' => phase' \notin {"AssistantPending", "ToolsPending"}
    PROVE  HostInv'
<1>1. Settled(transcript) /\ \A id \in Ids : Outstanding(transcript, Len(transcript), id) = 0
  BY BalancedOutside
<1>2. /\ transcript \in Seq(Message) /\ calls \in Seq(Ids)
      /\ RecordedAnswers(transcript) = replies
  BY HostTypes
<1> QED
  BY <1>1, <1>2, QuietKeeps

\* The reply of the first call is recorded and the call leaves the batch.
LEMMA ReplyKeeps ==
    ASSUME HostInv, running, phase = "ToolsPending", calls # <<>>, RecordReply(calls[1]),
           calls' = Tail(calls), ~waiting', UNCHANGED <<phase, running>>
    PROVE  HostInv'
<1>1. /\ transcript \in Seq(Message) /\ calls \in Seq(Ids)
      /\ RecordedAnswers(transcript) = replies
  BY HostTypes
<1>2. OpenCalls = calls /\ OpenCalls' = calls'
  BY DEF OpenCalls
<1>3. /\ Settled(transcript)
      /\ \A id \in Ids : Outstanding(transcript, Len(transcript), id) = CallsOf(calls, id)
  BY <1>2, Zenon DEF HostInv
<1>4. PICK t : t = Append(transcript, ResultMessage(<<RealResult(calls[1])>>))
  OBVIOUS
<1>5. /\ t \in Seq(Message) /\ Settled(t)
      /\ \A id \in Ids : Outstanding(t, Len(t), id) = CallsOf(Tail(calls), id)
      /\ RecordedAnswers(t) = Append(RecordedAnswers(transcript), RealResult(calls[1]))
  BY <1>1, <1>3, <1>4, AddReply
<1>6. transcript' = t /\ replies' = Append(replies, RealResult(calls[1]))
  BY <1>4 DEF RecordReply
<1>7. RecordedAnswers(transcript') = replies' /\ transcript' \in Seq(Message)
  BY <1>1, <1>5, <1>6
<1>8. calls' \in Seq(Ids)
  BY <1>1, TailCounts
<1>9. /\ Settled(transcript')
      /\ \A id \in Ids : Outstanding(transcript', Len(transcript'), id) = CallsOf(OpenCalls', id)
  BY <1>2, <1>5, <1>6
<1>10. phase' # "AssistantPending"
  OBVIOUS
<1> QED
  BY <1>7, <1>8, <1>9, <1>10, Zenon DEF HostInv

\* Every step of a turn.
LEMMA TurnStepKeeps ==
    ASSUME HostInv, TurnStep
    PROVE  HostInv'
<1>1. CASE EnterLoop
  <2>1. /\ running /\ phase = "Ready" /\ BeginIteration(FALSE)
        /\ UNCHANGED <<transcript, calls, replies>>
    BY <1>1, Zenon DEF EnterLoop, hostVars
  <2>2. phase' \in {"Finalizing", "ModelPending"}
    BY <2>1, CallsAdvance
  <2> QED
    BY <2>1, <2>2, PassKeeps
<1>2. CASE DispatchModel
  <2>1. /\ phase = "ModelPending"
        /\ UNCHANGED <<phase, obs, running, transcript, assistant, calls, replies>>
    BY <1>2 DEF DispatchModel, vars
  <2> QED
    BY <2>1, SameKeeps
<1>3. CASE RefuseModel \/ ModelFails \/ PrepareCancelled
  <2>1. Fail
    BY <1>3 DEF RefuseModel, ModelFails, PrepareCancelled
  <2> QED
    BY <2>1, FailKeeps
<1>4. ASSUME NEW ids \in BoundedSeq(Ids, MaxCalls), NEW text \in BOOLEAN,
             NEW reasoning \in BOOLEAN, ModelResponds(ids, text, reasoning)
      PROVE  HostInv'
  <2>1. PICK m \in 0 .. MaxCalls : ids \in [1 .. m -> Ids]
    BY Zenon DEF BoundedSeq, SeqOf
  <2>2. m \in Nat
    BY BoundAssumption
  <2>3. ids \in Seq(Ids)
    BY <2>1, <2>2, SMT
  <2> QED
    BY <1>4, <2>3, RespondKeeps
<1>5. CASE RecordAssistant
  BY <1>5, RecordKeeps
<1>6. CASE ContinueTurn
  BY <1>6, ContinueKeeps
<1>7. CASE RunStopHooks
  <2>1. /\ running /\ phase = "StopHooksPending"
        /\ StopHooksCompleted(effect_id, "AllowCompletion")
        /\ running' = (result' = "ok") /\ UNCHANGED <<transcript, calls, replies>>
    BY <1>7, Zenon DEF RunStopHooks, Continues
  <2>2. running' => phase' = "Finalizing"
    BY <2>1, CallsAdvance
  <2> QED
    BY <2>1, <2>2, PassKeeps
<1>8. CASE PrepareUnknown
  <2>1. /\ running /\ phase = "ToolsPending" /\ calls # <<>> /\ ~waiting
        /\ RecordReply(calls[1]) /\ calls' = Tail(calls)
        /\ UNCHANGED <<phase, running, waiting>>
    BY <1>8 DEF PrepareUnknown, vars
  <2> QED
    BY <2>1, ReplyKeeps
<1>9. CASE Prepare
  <2>1. /\ phase = "ToolsPending" /\ calls # <<>>
        /\ UNCHANGED <<phase, obs, running, transcript, assistant, calls, replies>>
    BY <1>9 DEF Prepare, vars
  <2> QED
    BY <2>1, SameKeeps
<1>10. CASE CompleteCall
  <2>1. /\ running /\ phase = "ToolsPending" /\ waiting
        /\ RecordReply(calls[1]) /\ calls' = Tail(calls) /\ ~waiting'
        /\ UNCHANGED <<phase, running>>
    BY <1>10 DEF CompleteCall, vars
  <2>2. calls # <<>>
    BY <2>1, Zenon DEF HostInv
  <2> QED
    BY <2>1, <2>2, ReplyKeeps
<1>11. CASE BatchDone
  <2>1. /\ running /\ calls = <<>> /\ ToolsCompleted(effect_id, "ResultsAvailable")
        /\ running' = (result' = "ok") /\ UNCHANGED <<transcript, calls, replies>>
    BY <1>11, Zenon DEF BatchDone, Continues
  <2>2. running' => phase' = "ToolResultsPending"
    BY <2>1, CallsAdvance
  <2> QED
    BY <2>1, <2>2, PassKeeps
<1>12. CASE CommitToolResults
  <2>1. /\ running /\ phase = "ToolResultsPending" /\ CheckpointCompleted(effect_id, FALSE)
        /\ running' = (result' = "ok") /\ UNCHANGED <<transcript, calls, replies>>
    BY <1>12, Zenon DEF CommitToolResults, Continues
  <2>2. running' => phase' \in {"Finalizing", "ModelPending"}
    BY <2>1, CallsAdvance
  <2> QED
    BY <2>1, <2>2, PassKeeps
<1>13. CASE FinalizeTurn
  <2>1. ~running' /\ UNCHANGED <<transcript, calls, replies>>
    BY <1>13 DEF FinalizeTurn
  <2> QED
    BY <2>1, HostTypes, IdleKeeps
<1> QED
  BY <1>1, <1>2, <1>3, <1>4, <1>5, <1>6, <1>7, <1>8, <1>9, <1>10, <1>11, <1>12, <1>13
     DEF TurnStep

\* Every step of the host.
LEMMA HostInvStep == ASSUME HostInv, [HostNext]_allVars PROVE HostInv'
<1>1. CASE \E t \in Replacements : ReplaceTranscript(t)
  BY <1>1, ReplaceKeeps
<1>2. CASE \E limit \in TurnLimits : StartTurn(limit)
  BY <1>2, StartKeeps
<1>3. CASE Cancel
  <2>1. UNCHANGED <<phase, obs, running, transcript, assistant, calls, waiting, replies>>
    BY <1>3 DEF Cancel, vars
  <2>2. phase = "ToolsPending" /\ waiting' => calls # <<>>
    <3>1. running
      BY <1>3 DEF Cancel
    <3> QED
      BY <2>1, <3>1, Zenon DEF HostInv
  <2> QED
    BY <2>1, <2>2, SameKeeps
<1>4. CASE TurnStep
  BY <1>4, TurnStepKeeps
<1>5. CASE UNCHANGED allVars
  <2>1. UNCHANGED <<phase, obs, running, transcript, assistant, calls, waiting, replies>>
    BY <1>5 DEF allVars, vars, hostVars
  <2>2. OpenCalls' = OpenCalls
    BY <2>1 DEF OpenCalls
  <2> QED
    BY <2>1, <2>2, Zenon DEF HostInv
<1> QED
  BY <1>1, <1>2, <1>3, <1>4, <1>5 DEF HostNext

\* The first state.
LEMMA HostInvInit == HostInit => HostInv
<1> SUFFICES ASSUME HostInit PROVE HostInv
  OBVIOUS
<1>1. transcript = <<>> /\ calls = <<>> /\ replies = <<>> /\ ~running
  BY DEF HostInit, HostStateInit
<1>2. transcript \in Seq(Message) /\ calls \in Seq(Ids)
  BY <1>1, EmptySeq
<1>3. RecordedAnswers(transcript) = replies
  BY <1>1, RecordedNone
<1> QED
  BY <1>1, <1>2, <1>3, Zenon DEF HostInv

\* While a turn runs the transcript is settled and what it leaves open is
\* exactly the rest of the batch that is executing; at every moment its
\* recorded answers are the replies of the completed calls (HostTurn).
THEOREM TurnInvariant == HostSpec => []HostInv
BY HostInvInit, HostInvStep, PTL DEF HostSpec

\* Every request to the model answers each recorded call once, right after it,
\* however the turns before were cancelled, failed or were replaced.
THEOREM RequestsArePaired == HostSpec => []RequestsPaired
<1>1. ASSUME HostInv PROVE RequestsPaired
  <2> SUFFICES ASSUME running, phase = "ModelPending" PROVE WellPaired(transcript)
    BY DEF RequestsPaired
  <2>1. Settled(transcript) /\ \A id \in Ids : Outstanding(transcript, Len(transcript), id) = 0
    BY <1>1, BalancedOutside
  <2> QED
    BY <1>1, <2>1, HostTypes, PairedIsSettled
<1> QED
  BY <1>1, TurnInvariant, PTL

\* No completed tool work is lost, dropped or repeated by a repair.
THEOREM RepliesAreKept == HostSpec => []RepliesKept
<1>1. HostInv => RepliesKept
  BY Zenon DEF HostInv, RepliesKept
<1> QED
  BY <1>1, TurnInvariant, PTL

\* The repair of the next turn is the reference on every transcript a session
\* can reach or a client can install.
THEOREM RepairsAreReference == HostSpec => []RepairIsReference
<1>1. ASSUME HostInv PROVE RepairIsReference
  <2>1. transcript \in Seq(Message)
    BY <1>1, HostTypes
  <2> QED
    BY <2>1, RepairTheorem, Zenon DEF RepairIsReference
<1> QED
  BY <1>1, TurnInvariant, PTL
-----------------------------------------------------------------------------
(* The portable host is one of the hosts LoopMachine allows               *)

\* What the effects of the host do to the machine: one call with the pending
\* receipt, or none.
LEMMA TurnStepDrives ==
    ASSUME TurnStep
    PROVE  [Next]_vars
<1>1. CASE EnterLoop
  BY <1>1, Zenon DEF EnterLoop, Next
<1>2. CASE DispatchModel \/ PrepareUnknown \/ Prepare \/ CompleteCall
  BY <1>2 DEF DispatchModel, PrepareUnknown, Prepare, CompleteCall, vars
<1>3. CASE RefuseModel \/ ModelFails \/ PrepareCancelled
  BY <1>3 DEF RefuseModel, ModelFails, PrepareCancelled, Fail, vars
<1>4. ASSUME NEW ids \in BoundedSeq(Ids, MaxCalls), NEW text \in BOOLEAN,
             NEW reasoning \in BOOLEAN, ModelResponds(ids, text, reasoning)
      PROVE  Next
  <2>1. PICK o : o = [NoObservation EXCEPT !.tools = ids # <<>>, !.text = text,
                                           !.reasoning = reasoning]
    OBVIOUS
  <2>2. (ids # <<>>) \in BOOLEAN
    OBVIOUS
  <2>3. o \in Observations
    BY <2>1, <2>2 DEF NoObservation, Observations, Observation
  <2>4. phase = "ModelPending" /\ ModelCompleted(effect_id, o)
    BY <1>4, <2>1, Zenon DEF ModelResponds
  <2>5. phase # "Ready"
    BY <2>4
  <2> QED
    BY <2>3, <2>4, <2>5, Zenon DEF Next, PendingReceipt
<1>5. NoContext \in Contexts
  BY DEF NoContext, Contexts
<1>6. CASE RecordAssistant
  <2>1. phase # "Ready" /\ AssistantRecorded(effect_id, NoContext)
    BY <1>6, Zenon DEF RecordAssistant
  <2> QED
    BY <1>5, <2>1, Zenon DEF Next, PendingReceipt
<1>7. CASE ContinueTurn \/ CommitToolResults
  <2>1. phase # "Ready" /\ CheckpointCompleted(effect_id, FALSE)
    BY <1>7, Zenon DEF ContinueTurn, CommitToolResults
  <2> QED
    BY <2>1, Zenon DEF Next, PendingReceipt
<1>8. CASE RunStopHooks
  <2>1. phase # "Ready" /\ StopHooksCompleted(effect_id, "AllowCompletion")
    BY <1>8, Zenon DEF RunStopHooks
  <2> QED
    BY <2>1, Zenon DEF Next, PendingReceipt
<1>9. CASE BatchDone
  <2>1. phase # "Ready" /\ ToolsCompleted(effect_id, "ResultsAvailable")
    BY <1>9, Zenon DEF BatchDone
  <2> QED
    BY <2>1, Zenon DEF Next, PendingReceipt
<1>10. CASE FinalizeTurn
  <2>1. phase # "Ready" /\ FinalizationCompleted(effect_id)
    BY <1>10, Zenon DEF FinalizeTurn
  <2> QED
    BY <2>1, Zenon DEF Next, PendingReceipt
<1> QED
  BY <1>1, <1>2, <1>3, <1>4, <1>6, <1>7, <1>8, <1>9, <1>10 DEF TurnStep

\* Every turn has a fresh machine, and what happens to it is a step of its own.
LEMMA HostDrives ==
    ASSUME HostNext
    PROVE  Init' \/ [Next]_vars
<1>1. CASE \E t \in Replacements : ReplaceTranscript(t)
  BY <1>1 DEF ReplaceTranscript
<1>2. ASSUME NEW limit \in TurnLimits, StartTurn(limit) PROVE Init'
  <2>1. 0 \in 0..CounterMax
    BY CounterAssumption
  <2> QED
    BY <1>2, <2>1 DEF StartTurn, Init
<1>3. CASE Cancel
  BY <1>3 DEF Cancel
<1> QED
  BY <1>1, <1>2, <1>3, TurnStepDrives DEF HostNext

\* Through all the turns of a session each effect is acknowledged once and in
\* order, commits precede requests, and limits and counters hold: the portable
\* host gets every guarantee of the machine (execute_loop, HostTurn::run).
THEOREM MachineIsDriven == HostSpec => [](ReceiptsInOrder /\ BoundariesKept /\ BudgetsKept)
<1>1. HostInit => CounterInv
  BY CounterInit DEF HostInit
<1>2. ASSUME CounterInv, [HostNext]_allVars PROVE CounterInv'
  <2>1. CASE Init'
    <3>1. (Init => CounterInv)'
      BY CounterInit, PTL
    <3> QED
      BY <2>1, <3>1
  <2>2. CASE [Next]_vars
    BY <1>2, <2>2, CounterStep
  <2>3. CASE UNCHANGED allVars
    <3>1. UNCHANGED vars
      BY <2>3 DEF allVars
    <3> QED
      BY <1>2, <3>1, CounterStep
  <2> QED
    BY <1>2, <2>1, <2>2, <2>3, HostDrives
<1>3. CounterInv => ReceiptsInOrder /\ BoundariesKept /\ BudgetsKept
  <2> SUFFICES ASSUME CounterInv PROVE ReceiptsInOrder /\ BoundariesKept /\ BudgetsKept
    OBVIOUS
  <2>1. ReceiptsInOrder /\ BoundariesKept
    BY DEF CounterInv, LedgerInv
  <2>2. CountersFaithful /\ ModelCallsBounded /\ StopHookActiveFaithful
    BY DEF CounterInv
  <2>3. RecoveryBounded
    BY RepairAssumption, HookAssumption
       DEF CounterInv, LedgerInv, TypeOK, CountersFaithful, EndInv, RecoveryBounded
  <2> QED
    BY <2>1, <2>2, <2>3 DEF BudgetsKept
<1> QED
  BY <1>1, <1>2, <1>3, PTL DEF HostSpec

OnlyOverflows == result \in {"ok", "CounterOverflow", "EffectCounterOverflow"}

\* The host never mixes up a receipt: the machine refuses it only when one of
\* its counters is at its maximum (LoopMachine::require_effect).
THEOREM NeverRefused == HostSpec => []OnlyOverflows
<1>1. HostInit => OnlyOverflows
  BY DEF HostInit, Init, OnlyOverflows
<1>2. ASSUME OnlyOverflows, HostNext PROVE OnlyOverflows'
  <2>1. CASE UNCHANGED result
    BY <1>2, <2>1 DEF OnlyOverflows
  <2>2. ASSUME NEW o, phase = "ModelPending", ModelCompleted(effect_id, o) PROVE OnlyOverflows'
    BY <2>2 DEF ModelCompleted, Checks, Accept, Refuse, Overflow, OnlyOverflows
  <2>3. ASSUME phase = "AssistantPending", AssistantRecorded(effect_id, NoContext)
        PROVE  OnlyOverflows'
    BY <2>3 DEF AssistantRecorded, Checks, Accept, Refuse, Overflow, OnlyOverflows
  <2>4. ASSUME phase \in {"ContinuationPending", "ToolResultsPending"},
               CheckpointCompleted(effect_id, FALSE)
        PROVE  OnlyOverflows'
    BY <2>4 DEF CheckpointCompleted, Checks, Accept, Refuse, OnlyOverflows
  <2>5. ASSUME phase = "StopHooksPending", StopHooksCompleted(effect_id, "AllowCompletion")
        PROVE  OnlyOverflows'
    BY <2>5 DEF StopHooksCompleted, Checks, Accept, Refuse, Overflow, OnlyOverflows
  <2>6. ASSUME phase = "ToolsPending", ToolsCompleted(effect_id, "ResultsAvailable")
        PROVE  OnlyOverflows'
    BY <2>6 DEF ToolsCompleted, Checks, Accept, Refuse, OnlyOverflows
  <2>7. ASSUME phase = "Finalizing", FinalizationCompleted(effect_id) PROVE OnlyOverflows'
    BY <2>7 DEF FinalizationCompleted, Accept, Refuse, OnlyOverflows
  <2>8. ASSUME phase = "Ready", BeginIteration(FALSE) PROVE OnlyOverflows'
    BY <2>8 DEF BeginIteration, OnlyOverflows
  <2>9. ASSUME NEW limit, StartTurn(limit) PROVE OnlyOverflows'
    BY <2>9 DEF StartTurn, OnlyOverflows
  <2>10. (\E t \in Replacements : ReplaceTranscript(t)) \/ Cancel => UNCHANGED result
    BY DEF ReplaceTranscript, Cancel, vars
  <2>11. ASSUME TurnStep PROVE OnlyOverflows'
    <3>1. CASE DispatchModel \/ PrepareUnknown \/ Prepare \/ CompleteCall
               \/ RefuseModel \/ ModelFails \/ PrepareCancelled
      BY <2>1, <3>1 DEF DispatchModel, PrepareUnknown, Prepare, CompleteCall,
         RefuseModel, ModelFails, PrepareCancelled, Fail, vars
    <3>2. ASSUME NEW ids, NEW text, NEW reasoning, ModelResponds(ids, text, reasoning)
          PROVE  OnlyOverflows'
      BY <2>2, <3>2, Zenon DEF ModelResponds
    <3>3. CASE EnterLoop
      BY <2>8, <3>3, Zenon DEF EnterLoop
    <3>4. CASE RecordAssistant
      BY <2>3, <3>4, Zenon DEF RecordAssistant
    <3>5. CASE ContinueTurn \/ CommitToolResults
      BY <2>4, <3>5, Zenon DEF ContinueTurn, CommitToolResults
    <3>6. CASE RunStopHooks
      BY <2>5, <3>6, Zenon DEF RunStopHooks
    <3>7. CASE BatchDone
      BY <2>6, <3>7, Zenon DEF BatchDone
    <3>8. CASE FinalizeTurn
      BY <2>7, <3>8, Zenon DEF FinalizeTurn
    <3> QED
      BY <2>11, <3>1, <3>2, <3>3, <3>4, <3>5, <3>6, <3>7, <3>8 DEF TurnStep
  <2> QED
    BY <1>2, <2>1, <2>9, <2>10, <2>11, Zenon DEF HostNext
<1>3. OnlyOverflows /\ UNCHANGED allVars => OnlyOverflows'
  BY DEF OnlyOverflows, allVars, vars
<1> QED
  BY <1>1, <1>2, <1>3, PTL DEF HostSpec
=============================================================================
