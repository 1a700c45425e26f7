----------------------------- MODULE ToolHistory -----------------------------
(***************************************************************************)
(* Pairing of tool calls and tool results in a transcript, and the repair   *)
(* that runs before a new request (rara-agent, history.rs and pairing.rs).  *)
(*                                                                         *)
(* A message keeps the identities of its tool_use blocks and its            *)
(* tool_result blocks; its text is left out.  A user message has results or *)
(* text, never both: that is how the runtime builds them.                   *)
(***************************************************************************)
EXTENDS Integers, SequencesExt, Enumeration

CONSTANT Ids  \* identities the provider gives to tool calls; it may repeat them

Assistant(uses) == [role |-> "assistant", uses |-> uses, results |-> <<>>]
UserText == [role |-> "user", uses |-> <<>>, results |-> <<>>]
ResultMessage(results) == [role |-> "user", uses |-> <<>>, results |-> results]

RealResult(id) == [id |-> id, synthetic |-> FALSE]
SyntheticResult(id) == [id |-> id, synthetic |-> TRUE]

Result == [id : Ids, synthetic : BOOLEAN]
Message == [role : {"assistant"}, uses : Seq(Ids), results : {<<>>}]
             \cup [role : {"user"}, uses : {<<>>}, results : Seq(Result)]

HasToolResult(message) == message.results # <<>>

\* Mutant of KeepOrDropToolResults: one call may keep several results.
KeepOrDropById(results, pending) ==
    [kept |-> SelectSeq(results, LAMBDA r : Contains(pending, r.id)),
     pending |-> SelectSeq(pending,
                           LAMBDA id : \A i \in DOMAIN results : results[i].id # id)]

\* Keep a result that answers a pending call, which it removes.
KeepOrDrop(acc, result) ==
    IF Contains(acc.pending, result.id)
    THEN [kept |-> Append(acc.kept, result),
          pending |-> RemoveFirst(acc.pending, result.id)]
    ELSE acc

KeepOrDropToolResults(results, pending) ==
    LET keep[n \in 0..Len(results)] ==
          IF n = 0 THEN [kept |-> <<>>, pending |-> pending]
          ELSE KeepOrDrop(keep[n - 1], results[n])
    IN  keep[Len(results)]

SyntheticToolResults(pending) ==
    [i \in DOMAIN pending |-> SyntheticResult(pending[i])]

FlushPending(acc) ==
    IF acc.pending = <<>> THEN acc
    ELSE [repaired |-> Append(acc.repaired,
                              ResultMessage(SyntheticToolResults(acc.pending))),
          pending |-> <<>>]

\* One iteration of the loop over the history.
RepairMessage(acc, message) ==
    IF message.role = "assistant" THEN
        [repaired |-> Append(FlushPending(acc).repaired, message),
         pending |-> message.uses]
    ELSE IF HasToolResult(message) THEN
        LET split == KeepOrDropToolResults(message.results, acc.pending)
        IN  [repaired |-> IF split.kept = <<>> THEN acc.repaired
                          ELSE Append(acc.repaired, ResultMessage(split.kept)),
             pending |-> split.pending]
    ELSE
        [repaired |-> Append(FlushPending(acc).repaired, message),
         pending |-> <<>>]

RepairToolResultHistory(history) ==
    LET scan[n \in 0..Len(history)] ==
          IF n = 0 THEN [repaired |-> <<>>, pending |-> <<>>]
          ELSE RepairMessage(scan[n - 1], history[n])
    IN  FlushPending(scan[Len(history)]).repaired

-----------------------------------------------------------------------------
(* What a provider accepts, stated over positions instead of a scan        *)

\* The messages up to number n that results may follow: those without results.
\* Nothing was asked before the first message, which is number 0 here.
Askers(history, n) == {0} \cup {i \in 1..n : ~HasToolResult(history[i])}

\* How often message i calls with an identity.
Asked(history, i, id) ==
    IF i = 0 THEN 0
    ELSE Cardinality({k \in DOMAIN history[i].uses : history[i].uses[k] = id})

\* The results for an identity in messages i + 1 to n: the message of each, and
\* its place there.
ResultsAfter(history, i, n, id) ==
    UNION {{k} \X {q \in DOMAIN history[k].results : history[k].results[q].id = id} :
              k \in (i + 1)..n}

\* How many calls with an identity await a result after message n; negative
\* when there were more results than calls.
Outstanding(history, n, id) ==
    LET i == Max(Askers(history, n))
    IN  Asked(history, i, id) - Cardinality(ResultsAfter(history, i, n, id))

\* Every call of an assistant message is answered once in the messages that
\* directly follow it, and there are no other results.
WellPaired(history) ==
    \A k \in 1..(Len(history) + 1), id \in Ids :
        (k \in DOMAIN history => ~HasToolResult(history[k])) =>
            Outstanding(history, k - 1, id) = 0

\* The results of message k that answer a call: the n-th result for an
\* identity does if at least n calls with it are outstanding.
AnswersIn(history, k) ==
    LET results == history[k].results
    IN  {q \in DOMAIN results :
            Cardinality({p \in 1..q : results[p].id = results[q].id})
                <= Outstanding(history, k - 1, results[q].id)}

\* What was recorded for the calls of a transcript, in order.
RecordedAnswers(history) ==
    FlattenSeq([k \in DOMAIN history |->
        Selected(history[k].results,
                 {q \in AnswersIn(history, k) : ~history[k].results[q].synthetic})])
=============================================================================
