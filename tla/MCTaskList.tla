----------------------------- MODULE MCTaskList -----------------------------
EXTENDS TaskList

\* A claim, a release with a status, a named owner, and an edge in either
\* direction, one with a claim and one that clears the owner.
MCUpdates ==
  {Update("claim", Nil, {}, {}), Update("release", "completed", {}, {}),
   Update("claim", Nil, {1}, {}), Update("clear", Nil, {}, {1})}
    \cup {Update(a, Nil, {}, {}) : a \in Agents}
=============================================================================
