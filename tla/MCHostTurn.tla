----------------------------- MODULE MCHostTurn -----------------------------
(***************************************************************************)
(* The loop of a turn in one run: the portable host with its transcript,   *)
(* the machine alone under a host that does anything, and the repair of    *)
(* tool results on every short transcript.  The first state chooses what   *)
(* moves; the rest stays as it is, so that the states add up.              *)
(***************************************************************************)
EXTENDS HostTurn

CONSTANTS a, b,
          MaxLength  \* bound: messages in a transcript to repair

VARIABLE moving

\* No limit on turns, one that is reached at once and one that is reached later.
MCTurnLimits == {NoLimit, 0, 2}

\* A result that nothing in the transcript asked for, then an interrupted batch.
MCReplacements ==
  {<<ResultMessage(<<RealResult(a)>>), UserText, Assistant(<<a, b>>),
     ResultMessage(<<RealResult(b)>>)>>}

\* Every message of a transcript to repair.
Messages ==
  {Assistant(uses) : uses \in BoundedSeq(Ids, MaxCalls)}
    \cup {UserText}
    \cup {ResultMessage([i \in DOMAIN ids |-> RealResult(ids[i])]) :
             ids \in BoundedSeq(Ids, MaxCalls) \ {<<>>}}

ASSUME ShapeAssumption == Messages \subseteq Message

PartsInit ==
  /\ moving \in {"turns", "machine", "repair"}
  /\ Init
  /\ moving # "machine" => start = 0 /\ maxTurns = 2
  /\ HostStateInit

PartsNext ==
  /\ UNCHANGED moving
  /\ \/ moving = "turns" /\ HostNext /\ maxTurns' = 2
     \/ moving = "machine" /\ Next /\ UNCHANGED hostVars
     \/ /\ moving = "repair" /\ Len(transcript) < MaxLength
        /\ \E m \in Messages : transcript' = Append(transcript, m)
        /\ replies' = RecordedAnswers(transcript')
        /\ UNCHANGED <<vars, running, cancelled, assistant, calls, waiting, prompts>>

PartsSpec ==
  /\ PartsInit /\ [][PartsNext]_<<moving, allVars>>
  /\ WF_allVars(moving = "turns" /\ TurnStep)

=============================================================================
