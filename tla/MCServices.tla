----------------------------- MODULE MCServices -----------------------------
(***************************************************************************)
(* The safety of the services around the sessions, in one run: the         *)
(* registry of sessions, a language server, the background shell tasks,    *)
(* the goals of threads and the task list that agents share.               *)
(* The first state chooses the service that moves; the others stay as they *)
(* are, so that their states add up instead of multiplying.                *)
(***************************************************************************)
EXTENDS RuntimeHost, LspServer, BackgroundTasks, Goals, TaskList, TLC

VARIABLE moving  \* the service

\* A claim, a release with a status and an edge, a named owner, and an edge in
\* the other direction that clears the owner.
MemberUpdates ==
  {Update("claim", None, {}, {}), Update("release", "completed", {1}, {}),
   Update("clear", None, {}, {1})}
    \cup {Update(c, None, {}, {}) : c \in Callers}

\* The callers of every service (agents, tool calls, front ends) are the same
\* two values, and so are the threads: nothing tells the two apart, so they may
\* be exchanged everywhere at once.
Symmetry == Permutations(Callers)

\* Two sessions compete for one identity.
MCIdOf ==
  [a \in Actors |-> IF a = "other" THEN "own" ELSE "shared"]

ServicesInit ==
  /\ moving \in {"host", "lsp", "shell", "goals", "board"}
  /\ Init /\ LspInit /\ ShellInit /\ GoalInit /\ BoardInit

ServicesNext ==
  /\ UNCHANGED moving
  /\ \/ /\ moving = "host" /\ Next
        /\ UNCHANGED <<lspVars, shellVars, goalVars, boardVars>>
     \/ /\ moving = "lsp" /\ LspNext
        /\ UNCHANGED <<vars, shellVars, goalVars, boardVars>>
     \/ /\ moving = "shell" /\ ShellNext
        /\ UNCHANGED <<vars, lspVars, goalVars, boardVars>>
     \/ /\ moving = "goals" /\ GoalNext
        /\ UNCHANGED <<vars, lspVars, shellVars, boardVars>>
     \/ /\ moving = "board" /\ BoardNext
        /\ UNCHANGED <<vars, lspVars, shellVars, goalVars>>

ServicesSpec ==
  ServicesInit
    /\ [][ServicesNext]_<<moving, vars, lspVars, shellVars, goalVars, boardVars>>
=============================================================================
