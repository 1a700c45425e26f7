---------------------------- MODULE TurnContract ----------------------------
(***************************************************************************)
(* What a runtime session promises about turns, without its channels,       *)
(* callers, tasks and phases: turns run one at a time, the first accepted   *)
(* stop decides the end of a turn, closing cancels what runs, and a session *)
(* is closed only when nothing runs.                                        *)
(***************************************************************************)
CONSTANT Turns

VARIABLES
    mode,   \* "open", "closing" or "closed"
    status, \* of each turn: "new", "running", or how it ended
    stop    \* the accepted stop kind of each turn, or "none"

vars == <<mode, status, stop>>

Ends == {"completed", "awaiting_input", "failed", "cancelled", "interrupted"}

TypeOK ==
    /\ mode \in {"open", "closing", "closed"}
    /\ status \in [Turns -> {"new", "running"} \cup Ends]
    /\ stop \in [Turns -> {"none", "cancel", "interrupt"}]

Init ==
    /\ mode = "open"
    /\ status = [t \in Turns |-> "new"]
    /\ stop = [t \in Turns |-> "none"]

NothingRuns == \A t \in Turns : status[t] # "running"

Begin(t) ==
    /\ mode = "open" /\ NothingRuns /\ status[t] = "new"
    /\ status' = [status EXCEPT ![t] = "running"]
    /\ UNCHANGED <<mode, stop>>

Stop(t, kind) ==
    /\ mode = "open" /\ status[t] = "running" /\ stop[t] = "none"
    /\ stop' = [stop EXCEPT ![t] = kind]
    /\ UNCHANGED <<mode, status>>

PossibleEnds(t) ==
    CASE stop[t] = "cancel" -> {"cancelled"}
      [] stop[t] = "interrupt" -> {"interrupted"}
      [] stop[t] = "none" /\ mode = "closing" -> {"cancelled"}
      [] OTHER -> {"completed", "awaiting_input", "failed"}

End(t) ==
    /\ status[t] = "running"
    /\ \E e \in PossibleEnds(t) : status' = [status EXCEPT ![t] = e]
    /\ UNCHANGED <<mode, stop>>

Close ==
    /\ mode = "open"
    /\ mode' = "closing"
    /\ UNCHANGED <<status, stop>>

Closed ==
    /\ mode = "closing" /\ NothingRuns
    /\ mode' = "closed"
    /\ UNCHANGED <<status, stop>>

Next ==
    \/ Close \/ Closed
    \/ \E t \in Turns : Begin(t) \/ End(t) \/ \E k \in {"cancel", "interrupt"} : Stop(t, k)

Spec == Init /\ [][Next]_vars
=============================================================================
