----------------------------- MODULE MCSession -----------------------------
(***************************************************************************)
(* The safety of a session in one run: its actor with the handles that     *)
(* call it, and the storage of threads behind the interface that shows it. *)
(* The first state chooses the part that moves; the other stays as it is,  *)
(* so that their states add up instead of multiplying.                     *)
(***************************************************************************)
EXTENDS SessionActor, ThreadIo, TLC

VARIABLE moving  \* the part

\* Callers are interchangeable, and threads are.
Symmetry == Permutations(Clients) \cup Permutations(Sessions)

PartsInit ==
  /\ moving \in {"actor", "storage"}
  /\ Init /\ StorageInit

PartsNext ==
  /\ UNCHANGED moving
  /\ \/ moving = "actor" /\ Next /\ UNCHANGED storageVars
     \/ moving = "storage" /\ StorageNext /\ UNCHANGED vars

PartsSpec == PartsInit /\ [][PartsNext]_<<moving, vars, storageVars>>
=============================================================================
