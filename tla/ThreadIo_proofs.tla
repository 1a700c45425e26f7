--------------------------- MODULE ThreadIo_proofs ---------------------------
(***************************************************************************)
(* What ThreadIo keeps for every number of threads, entries, requests,     *)
(* faults and starts: no accepted entry is without a copy, a clean exit    *)
(* leaves the turns and the checkpoint whole, the live log follows the     *)
(* active turn, and what a restore shows is in the order it was shown.     *)
(*                                                                         *)
(* Requests are applied in order, first the pending writes and then the    *)
(* channel.  The invariant says, of each entry and of each thread, what    *)
(* the files will hold when they have been applied: a copy survives every  *)
(* write in between, ordinals only rise, the last checkpoint is the last   *)
(* accepted.  Each action is one or two changes of this state (a write is  *)
(* queued, taken, tried or done; a request is made, taken or answered),    *)
(* and each change has a lemma over any such state.                        *)
(*                                                                         *)
(* The order has an invariant of its own: the files of a thread are a view *)
(* of its conversation, each request leads from one view in order to the   *)
(* next, and the last of them fits the active turn.                        *)
(***************************************************************************)
EXTENDS ThreadIo, FiniteSetTheorems, SequenceTheorems, Enumeration_proofs, TLAPS

Writes ==
  [op : {"Runtime"}, session : Sessions, version : Nat]
    \cup [op : {"AppendLive", "ReplaceLive"}, session : Sessions, entries : Seq(Nat)]
    \cup [op : {"CommitTurn"}, session : Sessions, ordinal : Nat, entries : Seq(Nat)]
    \cup [op : {"ClearLive"}, session : Sessions]
Barriers ==
  [op : {"Read"}, id : Nat \ {0}, session : Sessions \cup {NoSession}]
    \cup [op : {"Execute"}, id : Nat \ {0}, session : Sessions]
    \cup [op : {"Shutdown"}, id : Nat \ {0}, session : {NoSession}]
TurnLogs == UNION {[S -> Seq(Nat)] : S \in {T \in SUBSET Nat : IsFiniteSet(T)}}
Files ==
  [exists : BOOLEAN, turns : TurnLogs, index : SUBSET Nat, live : Seq(Nat),
   checkpoint : [Range(Parts) -> Nat]]
Receipts ==
  [id : Nat, reply : {"none", "ok", "failed"}, session : Sessions \cup {NoSession},
   files : Files]
Leaving == {"saving", "flushing", "stopping", "exited"}
Interfaces ==
  [session : Sessions, active : Seq(Nat), committed : Nat, ordinal : Nat,
   phase : Leaving \cup {"running", "failed", "down"}]

\* What one write does to an entry of a thread: it holds a copy, it makes it
\* part of a turn, it puts it into the live log, or it ends the live log.
Of(w, s) == IsWrite(w) /\ w.session = s
Holds(w, s, e) == Of(w, s) /\ e \in EntriesOf(w)
Commits(w, s) == w.op = "CommitTurn" /\ w.session = s
Turns(w, s, e) == Commits(w, s) /\ e \in Range(w.entries)
Adds(w, s, e) ==
  w.op \in {"AppendLive", "ReplaceLive"} /\ w.session = s /\ e \in Range(w.entries)
Cuts(w, s) == w.op \in {"ReplaceLive", "CommitTurn", "ClearLive"} /\ w.session = s
Saves(w, s) == w.op = "Runtime" /\ w.session = s

\* The same of a sequence of requests.  An entry survives it when no write
\* ends the live log before a copy is in a turn or on its way.
SomeOf(q, s) == \E i \in DOMAIN q : Of(q[i], s)
InWrite(q, s, e) == \E i \in DOMAIN q : Holds(q[i], s, e)
InTurn(q, s, e) == \E i \in DOMAIN q : Turns(q[i], s, e)
Survives(q, s, e) ==
  \A i \in DOMAIN q : Cuts(q[i], s) =>
    \/ \E j \in 1..(i - 1) : Turns(q[j], s, e)
    \/ \E j \in i..Len(q) : Holds(q[j], s, e)
LiveAfter(q, s, e, before) ==
  \/ \E i \in DOMAIN q : /\ Adds(q[i], s, e)
                         /\ \A j \in (i + 1)..Len(q) : ~Cuts(q[j], s)
  \/ before /\ \A i \in DOMAIN q : ~Cuts(q[i], s)
SomeSave(q, s) == \E i \in DOMAIN q : Saves(q[i], s)
LastSave(q, s, v) ==
  \A i \in DOMAIN q :
    Saves(q[i], s) /\ (\A j \in (i + 1)..Len(q) : ~Saves(q[j], s)) => q[i].version = v
Ordered(q, s) ==
  \A i, j \in DOMAIN q :
    i < j /\ Commits(q[i], s) /\ Commits(q[j], s) => q[i].ordinal < q[j].ordinal
Below(q, s, n) == \A i \in DOMAIN q : Commits(q[i], s) => q[i].ordinal < n
Above(q, s, n) == \A i \in DOMAIN q : Commits(q[i], s) => n < q[i].ordinal
\* Only a commit that was tried before may find its turn stored.
Beyond(q, s, o, es) ==
  \A i \in DOMAIN q : Commits(q[i], s) =>
    o < q[i].ordinal \/ (i = 1 /\ q[i].ordinal = o /\ q[i].entries = es)

-----------------------------------------------------------------------------
(* The invariant, of the interface u, its receivers rs, the channel q, the   *)
(* pending writes p, what the worker is doing g, the disk d, the histories   *)
(* ow and sv, and the counters n of requests and m of entries.               *)

Stored(d, s, e) == \E o \in DOMAIN d[s].turns : e \in Range(d[s].turns[o])
Turned(q, p, d, s, e) == Stored(d, s, e) \/ InTurn(p, s, e) \/ InTurn(q, s, e)

TypesInv(u, rs, q, p, g, d, ow, sv, n, m) ==
  /\ u \in Interfaces
  /\ rs \in [restore : Receipts, command : Receipts, exit : Receipts]
  /\ q \in Seq(Writes \cup Barriers)
  /\ p \in Seq(Writes)
  /\ g \in Barriers \cup {Resting, Timer, Dropped}
  /\ d \in [Sessions -> Files]
  /\ ow \in [Sessions -> SUBSET Nat]
  /\ sv \in [Sessions -> Nat]
  /\ n \in Nat /\ m \in Nat

\* No copy is lost when the writes are done in their order.
KeptInv(q, p, d, ow) ==
  \A s \in Sessions : \A e \in ow[s] :
    /\ \/ Stored(d, s, e) \/ e \in Range(d[s].live)
       \/ InWrite(p, s, e) \/ InWrite(q, s, e)
    /\ Stored(d, s, e) \/ InWrite(q, s, e) \/ Survives(p, s, e)
    /\ Stored(d, s, e) \/ InTurn(p, s, e) \/ Survives(q, s, e)

\* What is not on its way into a turn is in the active turn.
ActiveInv(u, q, p, d, ow) ==
  \A e \in ow[u.session] :
    /\ u.phase = "running" => Turned(q, p, d, u.session, e) \/ e \in Range(u.active)
    /\ u.phase \in Leaving => Turned(q, p, d, u.session, e)

\* Ordinals are not used again.
OrdinalInv(u, q, p, d) ==
  /\ \A s \in Sessions :
       /\ Ordered(p, s) /\ Ordered(q, s)
       /\ \A i \in DOMAIN p : Commits(p[i], s) => Above(q, s, p[i].ordinal)
       /\ \A o \in DOMAIN d[s].turns :
            Above(q, s, o) /\ Beyond(p, s, o, d[s].turns[o])
  /\ u.phase \in {"running", "saving"} =>
       /\ Below(p, u.session, u.ordinal) /\ Below(q, u.session, u.ordinal)
       /\ \A o \in DOMAIN d[u.session].turns : o < u.ordinal

FinallyLive(q, p, d, s, e) ==
  LiveAfter(q, s, e, LiveAfter(p, s, e, e \in Range(d[s].live)))

\* After the writes the live log is what was accepted of the active turn.
LiveInv(u, q, p, d, ow) ==
  \A s \in Sessions, e \in Nat :
    /\ FinallyLive(q, p, d, s, e) => e \in ow[s]
    /\ s = u.session /\ u.phase \in {"running", "saving"} =>
         (FinallyLive(q, p, d, s, e) <=> e \in Range(u.active) /\ e \in ow[s])

\* Entries are new when they are shown.
ShownInv(u, q, p, d, ow, m) ==
  /\ \A i \in DOMAIN u.active : u.active[i] <= m
  /\ \A s \in Sessions, e \in Nat :
       \/ Stored(d, s, e) \/ e \in Range(d[s].live) \/ InWrite(p, s, e)
       \/ InWrite(q, s, e) \/ e \in ow[s]
       => e <= m

RequestInv(rs, q, g, n) ==
  /\ \A i \in DOMAIN q : ~IsWrite(q[i]) => q[i].id <= n
  /\ g \in Barriers => g.id <= n
  /\ \A k \in DOMAIN rs : rs[k].id <= n /\ (rs[k].id = 0 => rs[k] = NoReceipt)
  /\ rs.restore.id = 0 \/ rs.command.id = 0

\* A restore reads the files of a thread that nobody writes any more.
RestoreInv(u, rs, q, p, g, d) ==
  LET r == rs.restore IN
  r.id > 0 =>
    /\ r.session \in Sessions /\ r.session # u.session
    /\ \A i \in DOMAIN q : ~IsWrite(q[i]) /\ q[i].id = r.id =>
         /\ q[i].op = "Read" /\ q[i].session = r.session
         /\ \A j \in (i + 1)..Len(q) : ~Of(q[j], r.session)
    /\ g \in Barriers /\ g.id = r.id =>
         g.op = "Read" /\ g.session = r.session /\ ~SomeOf(q, r.session)
    /\ r.reply = "ok" =>
         /\ ~SomeOf(q, r.session) /\ ~SomeOf(p, r.session)
         /\ r.files.turns = d[r.session].turns /\ r.files.live = d[r.session].live

\* A thread that is being created has nothing yet.
CommandInv(u, rs, q, p, d, ow) ==
  LET s == rs.command.session IN
  rs.command.id > 0 =>
    /\ s \in Sessions /\ s # u.session /\ ow[s] = {}
    /\ d[s].turns = << >> /\ d[s].live = << >>
    /\ ~SomeOf(q, s) /\ ~SomeOf(p, s)

\* A thread that was left with a write under way is known to be in use.
UsedInv(u, rs, q, p, ow, sv) ==
  \A s \in Sessions :
    \/ s # u.session /\ (SomeOf(q, s) \/ SomeOf(p, s))
    \/ s = u.session /\ (rs.restore.id > 0 \/ rs.command.id > 0)
    => ow[s] # {} \/ sv[s] > 0

CheckpointInv(u, q, p, d, sv) ==
  /\ \A s \in Sessions :
       LastSave(q, s, sv[s]) /\ (~SomeSave(q, s) => LastSave(p, s, sv[s]))
  /\ u.phase \in Leaving /\ ~SomeSave(q, u.session) /\ ~SomeSave(p, u.session) =>
       \A part \in Range(Parts) : d[u.session].checkpoint[part] = sv[u.session]

\* The request to leave is the last one.
ExitInv(u, rs, q, p, g) ==
  LET x == rs.exit IN
  /\ \A i \in DOMAIN q : ~IsWrite(q[i]) /\ q[i].id = x.id => i = Len(q)
  /\ g \in Barriers /\ g.id = x.id => q = << >>
  /\ x.reply = "ok" => q = << >> /\ p = << >>
  /\ u.phase \notin {"saving", "flushing", "stopping"} => x.id = 0
  /\ u.phase # "running" => rs.restore.id = 0
  /\ u.phase \in {"exited", "failed", "down"} => rs.command.id = 0
  /\ u.phase \in {"exited", "down"} => q = << >> /\ p = << >>

StorageState(u, rs, q, p, g, d, ow, sv, n, m) ==
  /\ TypesInv(u, rs, q, p, g, d, ow, sv, n, m)
  /\ KeptInv(q, p, d, ow)
  /\ ActiveInv(u, q, p, d, ow)
  /\ OrdinalInv(u, q, p, d)
  /\ LiveInv(u, q, p, d, ow)
  /\ ShownInv(u, q, p, d, ow, m)
  /\ RequestInv(rs, q, g, n)
  /\ RestoreInv(u, rs, q, p, g, d)
  /\ CommandInv(u, rs, q, p, d, ow)
  /\ UsedInv(u, rs, q, p, ow, sv)
  /\ CheckpointInv(u, q, p, d, sv)
  /\ ExitInv(u, rs, q, p, g)

Workers ==
  [alive : BOOLEAN, pending : Seq(Writes), canMerge : BOOLEAN,
   doing : Barriers \cup {Resting, Timer, Dropped}, error : BOOLEAN]
StorageInv ==
  /\ worker \in Workers
  /\ StorageState(ui, receivers, channel, worker.pending, worker.doing, disk, owed,
                  saved, requests, shown)

-----------------------------------------------------------------------------
(* Requests and sequences of requests.                                     *)

\* A request that goes to the end of a sequence (enqueue, TakeWrite).
LEMMA AppendedIs ==
  ASSUME NEW S, NEW q \in Seq(S), NEW w \in S
  PROVE  /\ \A s : SomeOf(Append(q, w), s) <=> SomeOf(q, s) \/ Of(w, s)
         /\ \A s, e : InWrite(Append(q, w), s, e) <=> InWrite(q, s, e) \/ Holds(w, s, e)
         /\ \A s, e : InTurn(Append(q, w), s, e) <=> InTurn(q, s, e) \/ Turns(w, s, e)
         /\ \A s, e : Survives(Append(q, w), s, e) <=>
              \/ Holds(w, s, e)
              \/ Survives(q, s, e) /\ (Cuts(w, s) => InTurn(q, s, e))
         /\ \A s, e, b : LiveAfter(Append(q, w), s, e, b) <=>
              Adds(w, s, e) \/ (LiveAfter(q, s, e, b) /\ ~Cuts(w, s))
         /\ \A s : SomeSave(Append(q, w), s) <=> SomeSave(q, s) \/ Saves(w, s)
         /\ \A s, v : LastSave(Append(q, w), s, v) <=>
              IF Saves(w, s) THEN w.version = v ELSE LastSave(q, s, v)
         /\ \A s : Ordered(Append(q, w), s) <=>
              Ordered(q, s) /\ (Commits(w, s) => Below(q, s, w.ordinal))
         /\ \A s, n : Below(Append(q, w), s, n) <=>
              Below(q, s, n) /\ (Commits(w, s) => w.ordinal < n)
         /\ \A s, n : Above(Append(q, w), s, n) <=>
              Above(q, s, n) /\ (Commits(w, s) => n < w.ordinal)
         /\ \A s, o, es : Beyond(Append(q, w), s, o, es) <=>
              /\ Beyond(q, s, o, es)
              /\ Commits(w, s) => \/ o < w.ordinal
                                  \/ q = << >> /\ w.ordinal = o /\ w.entries = es
<1> DEFINE a == Append(q, w)
<1>1. /\ DOMAIN a = DOMAIN q \cup {Len(q) + 1} /\ Len(a) = Len(q) + 1
      /\ Len(q) \in Nat /\ DOMAIN q = 1..Len(q)
      /\ \A i \in DOMAIN q : a[i] = q[i]
      /\ a[Len(q) + 1] = w
      /\ q = << >> <=> Len(q) = 0
  OBVIOUS
<1> HIDE DEF a
<1>2. \A s : SomeOf(a, s) <=> SomeOf(q, s) \/ Of(w, s)
  BY <1>1 DEF SomeOf
<1>3. \A s, e : InWrite(a, s, e) <=> InWrite(q, s, e) \/ Holds(w, s, e)
  BY <1>1 DEF InWrite
<1>4. \A s, e : InTurn(a, s, e) <=> InTurn(q, s, e) \/ Turns(w, s, e)
  BY <1>1 DEF InTurn
<1>5. ASSUME NEW s, NEW e
      PROVE  Survives(a, s, e) <=>
               Holds(w, s, e) \/ (Survives(q, s, e) /\ (Cuts(w, s) => InTurn(q, s, e)))
  <2>1. CASE Holds(w, s, e)
    BY <1>1, <2>1 DEF Survives
  <2>2. CASE ~Holds(w, s, e)
    <3>1. \A i \in DOMAIN q :
            /\ \A j : j \in 1..(i - 1) => j \in DOMAIN q
            /\ \A j : j \in i..Len(a) <=> j \in i..Len(q) \/ j = Len(q) + 1
            /\ \A j : j \in i..Len(q) => j \in DOMAIN q
      BY <1>1
    <3>2. \A j : /\ j \in 1..(Len(q) + 1 - 1) <=> j \in DOMAIN q
                 /\ j \in (Len(q) + 1)..Len(a) <=> j = Len(q) + 1
      BY <1>1
    <3>3. Survives(q, s, e) <=>
            \A i \in DOMAIN q : Cuts(a[i], s) =>
              \/ \E j \in 1..(i - 1) : Turns(a[j], s, e)
              \/ \E j \in i..Len(a) : Holds(a[j], s, e)
      <4>1. ASSUME NEW i \in DOMAIN q
            PROVE  /\ (\E j \in 1..(i - 1) : Turns(q[j], s, e))
                        <=> \E j \in 1..(i - 1) : Turns(a[j], s, e)
                   /\ (\E j \in i..Len(q) : Holds(q[j], s, e))
                        <=> \E j \in i..Len(a) : Holds(a[j], s, e)
        <5>1. \A j \in 1..(i - 1) : a[j] = q[j]
          BY <1>1, <3>1
        <5>2. \A j \in i..Len(q) : a[j] = q[j] /\ j \in i..Len(a)
          BY <1>1, <3>1
        <5>3. \A j \in i..Len(a) : j \in i..Len(q) \/ ~Holds(a[j], s, e)
          BY <1>1, <2>2, <3>1
        <5> QED
          BY <5>1, <5>2, <5>3
      <4>2. \A i \in DOMAIN q : a[i] = q[i]
        BY <1>1
      <4> QED
        BY <4>1, <4>2 DEF Survives
    <3>4. InTurn(q, s, e) <=> \E j \in 1..(Len(q) + 1 - 1) : Turns(a[j], s, e)
      BY <1>1, <3>2 DEF InTurn
    <3> QED
      BY <1>1, <2>2, <3>2, <3>3, <3>4 DEF Survives
  <2> QED
    BY <2>1, <2>2
<1>6. ASSUME NEW s, NEW e, NEW b
      PROVE  LiveAfter(a, s, e, b) <=> Adds(w, s, e) \/ (LiveAfter(q, s, e, b) /\ ~Cuts(w, s))
  <2>1. \A i \in DOMAIN q : \A j :
          /\ j \in (i + 1)..Len(a) <=> j \in (i + 1)..Len(q) \/ j = Len(q) + 1
          /\ j \in (i + 1)..Len(q) => j \in DOMAIN q
    BY <1>1
  <2>2. \A j : ~(j \in (Len(q) + 1 + 1)..Len(a))
    BY <1>1
  <2> QED
    BY <1>1, <2>1, <2>2, SMTT(30) DEF LiveAfter
<1>7. \A s : SomeSave(a, s) <=> SomeSave(q, s) \/ Saves(w, s)
  BY <1>1 DEF SomeSave
<1>8. ASSUME NEW s, NEW v
      PROVE  LastSave(a, s, v) <=>
               IF Saves(w, s) THEN w.version = v ELSE LastSave(q, s, v)
  <2>1. \A i \in DOMAIN q : \A j :
          /\ j \in (i + 1)..Len(a) <=> j \in (i + 1)..Len(q) \/ j = Len(q) + 1
          /\ j \in (i + 1)..Len(q) => j \in DOMAIN q
    BY <1>1
  <2>2. \A j : ~(j \in (Len(q) + 1 + 1)..Len(a))
    BY <1>1
  <2>3. ASSUME NEW i \in DOMAIN q
        PROVE  (\A j \in (i + 1)..Len(a) : ~Saves(a[j], s))
                 <=> ~Saves(w, s) /\ \A j \in (i + 1)..Len(q) : ~Saves(q[j], s)
    BY <1>1, <2>1
  <2>4. LastSave(a, s, v) <=>
          /\ Saves(w, s) => w.version = v
          /\ \A i \in DOMAIN q :
               Saves(q[i], s) /\ (\A j \in (i + 1)..Len(a) : ~Saves(a[j], s))
                 => q[i].version = v
    BY <1>1, <2>2 DEF LastSave
  <2> QED
    BY <2>3, <2>4 DEF LastSave
<1>9. \A s : Ordered(a, s) <=> Ordered(q, s) /\ (Commits(w, s) => Below(q, s, w.ordinal))
  BY <1>1 DEF Ordered, Below
<1>10. \A s, n : /\ Below(a, s, n) <=> Below(q, s, n) /\ (Commits(w, s) => w.ordinal < n)
                 /\ Above(a, s, n) <=> Above(q, s, n) /\ (Commits(w, s) => n < w.ordinal)
  BY <1>1 DEF Below, Above
<1>11. \A s, o, es : Beyond(a, s, o, es) <=>
         /\ Beyond(q, s, o, es)
         /\ Commits(w, s) => \/ o < w.ordinal
                             \/ q = << >> /\ w.ordinal = o /\ w.entries = es
  BY <1>1 DEF Beyond
<1> QED
  BY <1>2, <1>3, <1>4, <1>5, <1>6, <1>7, <1>8, <1>9, <1>10, <1>11 DEF a

\* A request that is taken from the front (TakeWrite, TakeBarrier, StoreWrite).
LEMMA TailIs ==
  ASSUME NEW S, NEW q \in Seq(S), q # << >>
  PROVE  LET w == Head(q)
             t == Tail(q)
         IN /\ w \in S /\ t \in Seq(S)
            /\ \A s : SomeOf(q, s) <=> Of(w, s) \/ SomeOf(t, s)
            /\ \A s, e : InWrite(q, s, e) <=> Holds(w, s, e) \/ InWrite(t, s, e)
            /\ \A s, e : InTurn(q, s, e) <=> Turns(w, s, e) \/ InTurn(t, s, e)
            /\ \A s, e : Survives(q, s, e) =>
                 /\ Turns(w, s, e) \/ Survives(t, s, e)
                 /\ Cuts(w, s) => Holds(w, s, e) \/ InWrite(t, s, e)
            /\ \A s, e, b : LiveAfter(q, s, e, b) <=>
                 LiveAfter(t, s, e, Adds(w, s, e) \/ (b /\ ~Cuts(w, s)))
            /\ \A s : SomeSave(q, s) <=> Saves(w, s) \/ SomeSave(t, s)
            /\ \A s, v : LastSave(q, s, v) =>
                 LastSave(t, s, v) /\ (Saves(w, s) /\ ~SomeSave(t, s) => w.version = v)
            /\ \A s : Ordered(q, s) =>
                 Ordered(t, s) /\ (Commits(w, s) => Above(t, s, w.ordinal))
            /\ \A s, n : Below(q, s, n) <=> Below(t, s, n) /\ (Commits(w, s) => w.ordinal < n)
            /\ \A s, n : Above(q, s, n) <=> Above(t, s, n) /\ (Commits(w, s) => n < w.ordinal)
            /\ \A s, o, es : Beyond(q, s, o, es) =>
                 /\ Above(t, s, o)
                 /\ Commits(w, s) =>
                      o < w.ordinal \/ (w.ordinal = o /\ w.entries = es)
<1> DEFINE w == Head(q)
           t == Tail(q)
<1>1. /\ w \in S /\ t \in Seq(S)
      /\ Len(q) \in Nat /\ Len(t) = Len(q) - 1 /\ Len(q) >= 1
      /\ DOMAIN q = 1..Len(q) /\ DOMAIN t = 1..(Len(q) - 1)
      /\ q[1] = w /\ 1 \in DOMAIN q
      /\ \A i \in DOMAIN t : t[i] = q[i + 1] /\ i + 1 \in DOMAIN q
      /\ \A i \in DOMAIN q : i = 1 \/ (i - 1 \in DOMAIN t /\ t[i - 1] = q[i])
  OBVIOUS
<1> HIDE DEF w, t
<1>2. \A s : SomeOf(q, s) <=> Of(w, s) \/ SomeOf(t, s)
  BY <1>1 DEF SomeOf
<1>3. \A s, e : InWrite(q, s, e) <=> Holds(w, s, e) \/ InWrite(t, s, e)
  BY <1>1 DEF InWrite
<1>4. \A s, e : InTurn(q, s, e) <=> Turns(w, s, e) \/ InTurn(t, s, e)
  BY <1>1 DEF InTurn
<1>5. ASSUME NEW s, NEW e, Survives(q, s, e)
      PROVE  /\ Turns(w, s, e) \/ Survives(t, s, e)
             /\ Cuts(w, s) => Holds(w, s, e) \/ InWrite(t, s, e)
  <2>1. ASSUME NEW i \in DOMAIN t, Cuts(t[i], s), ~Turns(w, s, e)
        PROVE  \/ \E j \in 1..(i - 1) : Turns(t[j], s, e)
               \/ \E j \in i..Len(t) : Holds(t[j], s, e)
    <3>1. /\ i + 1 \in DOMAIN q /\ Cuts(q[i + 1], s)
      BY <1>1, <2>1
    <3>2. CASE \E j \in 1..(i + 1 - 1) : Turns(q[j], s, e)
      <4>1. PICK j \in 1..(i + 1 - 1) : Turns(q[j], s, e)
        BY <3>2
      <4>2. j # 1 /\ j \in DOMAIN q /\ j - 1 \in 1..(i - 1) /\ t[j - 1] = q[j]
        <5>1. i \in Int /\ i >= 1 /\ i <= Len(q) - 1 /\ j \in Int /\ j >= 1 /\ j <= i
          BY <1>1, <4>1
        <5>2. j # 1
          BY <1>1, <2>1, <4>1
        <5>3. Len(q) \in Int /\ DOMAIN q = 1..Len(q)
          BY <1>1
        <5>4. j \in DOMAIN q /\ j - 1 \in 1..(i - 1)
          BY <5>1, <5>2, <5>3
        <5> QED
          BY <1>1, <5>2, <5>4
      <4> QED
        BY <4>1, <4>2
    <3>3. CASE \E j \in (i + 1)..Len(q) : Holds(q[j], s, e)
      <4>1. PICK j \in (i + 1)..Len(q) : Holds(q[j], s, e)
        BY <3>3
      <4>2. j \in DOMAIN q /\ j - 1 \in i..Len(t) /\ t[j - 1] = q[j]
        <5>1. i \in Int /\ i >= 1 /\ j \in Int /\ j >= i + 1 /\ j <= Len(q)
          BY <1>1, <4>1
        <5>2. Len(q) \in Int /\ DOMAIN q = 1..Len(q) /\ Len(t) = Len(q) - 1
          BY <1>1
        <5>3. j \in DOMAIN q /\ j - 1 \in i..Len(t) /\ j # 1
          BY <5>1, <5>2
        <5> QED
          BY <1>1, <5>3
      <4> QED
        BY <4>1, <4>2
    <3> QED
      BY <1>5, <3>1, <3>2, <3>3 DEF Survives
  <2>2. ASSUME Cuts(w, s) PROVE Holds(w, s, e) \/ InWrite(t, s, e)
    <3>1. \A j : ~(j \in 1..(1 - 1))
      OBVIOUS
    <3>2. \E j \in 1..Len(q) : Holds(q[j], s, e)
      BY <1>1, <1>5, <2>2, <3>1 DEF Survives
    <3> QED
      BY <1>1, <1>3, <3>2 DEF InWrite
  <2> QED
    BY <2>1, <2>2 DEF Survives
<1>6. ASSUME NEW s, NEW e, NEW b
      PROVE  LiveAfter(q, s, e, b) <=>
               LiveAfter(t, s, e, Adds(w, s, e) \/ (b /\ ~Cuts(w, s)))
  <2> DEFINE last(r, i) == Adds(r[i], s, e) /\ \A j \in (i + 1)..Len(r) : ~Cuts(r[j], s)
  <2>1. \A i \in DOMAIN t : last(t, i) <=> last(q, i + 1)
    <3> SUFFICES ASSUME NEW i \in DOMAIN t
                 PROVE  (\A j \in (i + 1)..Len(t) : ~Cuts(t[j], s))
                          <=> (\A j \in (i + 1 + 1)..Len(q) : ~Cuts(q[j], s))
      BY <1>1
    <3>1. \A j \in (i + 1)..Len(t) : j + 1 \in (i + 1 + 1)..Len(q) /\ t[j] = q[j + 1]
      BY <1>1
    <3>2. \A j \in (i + 1 + 1)..Len(q) : j - 1 \in (i + 1)..Len(t) /\ t[j - 1] = q[j]
      BY <1>1, SMTT(30)
    <3> QED
      BY <3>1, <3>2
  <2>2. (\A i \in DOMAIN q : ~Cuts(q[i], s)) <=>
          ~Cuts(w, s) /\ \A i \in DOMAIN t : ~Cuts(t[i], s)
    BY <1>1
  <2>3. last(q, 1) <=> Adds(w, s, e) /\ \A i \in DOMAIN t : ~Cuts(t[i], s)
    <3>1. \A j \in (1 + 1)..Len(q) : j - 1 \in DOMAIN t /\ t[j - 1] = q[j]
      BY <1>1, SMTT(30)
    <3>2. \A j \in DOMAIN t : j + 1 \in (1 + 1)..Len(q) /\ t[j] = q[j + 1]
      BY <1>1
    <3> QED
      BY <1>1, <3>1, <3>2
  <2>4. (\E i \in DOMAIN q : last(q, i)) <=> last(q, 1) \/ \E i \in DOMAIN t : last(t, i)
    <3> HIDE DEF last
    <3>1. \A i \in DOMAIN q : i = 1 \/ (i - 1 \in DOMAIN t /\ i - 1 + 1 = i)
      BY <1>1
    <3> QED
      BY <1>1, <2>1, <3>1
  <2>5. LiveAfter(q, s, e, b) <=>
          (\E i \in DOMAIN q : last(q, i)) \/ (b /\ \A i \in DOMAIN q : ~Cuts(q[i], s))
    BY Zenon DEF LiveAfter
  <2>6. LiveAfter(t, s, e, Adds(w, s, e) \/ (b /\ ~Cuts(w, s))) <=>
          \/ \E i \in DOMAIN t : last(t, i)
          \/ (Adds(w, s, e) \/ (b /\ ~Cuts(w, s))) /\ \A i \in DOMAIN t : ~Cuts(t[i], s)
    BY Zenon DEF LiveAfter
  <2> HIDE DEF last
  <2> QED
    BY <2>2, <2>3, <2>4, <2>5, <2>6
<1>7. \A s : SomeSave(q, s) <=> Saves(w, s) \/ SomeSave(t, s)
  BY <1>1 DEF SomeSave
<1>8. ASSUME NEW s, NEW v, LastSave(q, s, v)
      PROVE  LastSave(t, s, v) /\ (Saves(w, s) /\ ~SomeSave(t, s) => w.version = v)
  <2>1. ASSUME NEW i \in DOMAIN t, Saves(t[i], s), \A j \in (i + 1)..Len(t) : ~Saves(t[j], s)
        PROVE  t[i].version = v
    <3>1. \A j \in (i + 1 + 1)..Len(q) : j - 1 \in (i + 1)..Len(t) /\ t[j - 1] = q[j]
      BY <1>1, SMTT(30)
    <3> QED
      BY <1>1, <1>8, <2>1, <3>1 DEF LastSave
  <2>2. ASSUME Saves(w, s), ~SomeSave(t, s) PROVE w.version = v
    <3>1. \A j \in (1 + 1)..Len(q) : j - 1 \in DOMAIN t /\ t[j - 1] = q[j]
      BY <1>1, SMTT(30)
    <3> QED
      BY <1>1, <1>8, <2>2, <3>1 DEF LastSave, SomeSave
  <2> QED
    BY <2>1, <2>2 DEF LastSave
<1>9. ASSUME NEW s, Ordered(q, s)
      PROVE  Ordered(t, s) /\ (Commits(w, s) => Above(t, s, w.ordinal))
  <2>1. ASSUME NEW i \in DOMAIN t, NEW j \in DOMAIN t, i < j,
               Commits(t[i], s), Commits(t[j], s)
        PROVE  t[i].ordinal < t[j].ordinal
    <3>1. i + 1 \in DOMAIN q /\ j + 1 \in DOMAIN q /\ i + 1 < j + 1
      BY <1>1, <2>1
    <3>2. t[i] = q[i + 1] /\ t[j] = q[j + 1]
      BY <1>1
    <3> QED
      BY <1>9, <2>1, <3>1, <3>2 DEF Ordered
  <2>2. ASSUME NEW i \in DOMAIN t, Commits(w, s), Commits(t[i], s)
        PROVE  w.ordinal < t[i].ordinal
    <3>1. i + 1 \in DOMAIN q /\ 1 < i + 1 /\ t[i] = q[i + 1]
      BY <1>1
    <3> QED
      BY <1>1, <1>9, <2>2, <3>1 DEF Ordered
  <2> QED
    BY <2>1, <2>2 DEF Ordered, Above
<1>10. \A s, n : /\ Below(q, s, n) <=> Below(t, s, n) /\ (Commits(w, s) => w.ordinal < n)
                 /\ Above(q, s, n) <=> Above(t, s, n) /\ (Commits(w, s) => n < w.ordinal)
  BY <1>1 DEF Below, Above
<1>11. ASSUME NEW s, NEW o, NEW es, Beyond(q, s, o, es)
       PROVE  /\ Above(t, s, o)
              /\ Commits(w, s) => o < w.ordinal \/ (w.ordinal = o /\ w.entries = es)
  BY <1>1, <1>11 DEF Beyond, Above
<1> QED
  BY <1>1, <1>2, <1>3, <1>4, <1>5, <1>6, <1>7, <1>8, <1>9, <1>10, <1>11 DEF w, t

Requests == Writes \cup Barriers

\* A checkpoint on its way (persist_runtime_state).
LEMMA RuntimeIs ==
  ASSUME NEW t \in Sessions, NEW v \in Nat
  PROVE  /\ Runtime(t, v) \in Writes /\ IsWrite(Runtime(t, v))
         /\ Runtime(t, v).session = t /\ Runtime(t, v).version = v
         /\ \A s : /\ Of(Runtime(t, v), s) <=> s = t
                   /\ Saves(Runtime(t, v), s) <=> s = t
                   /\ ~Commits(Runtime(t, v), s) /\ ~Cuts(Runtime(t, v), s)
         /\ \A s, e : /\ ~Holds(Runtime(t, v), s, e) /\ ~Turns(Runtime(t, v), s, e)
                      /\ ~Adds(Runtime(t, v), s, e)
BY DEF Runtime, Writes, IsWrite, Of, Saves, Commits, Cuts, Holds, Turns, Adds, EntriesOf

\* A write of the live log, an append or a rewrite.
LEMMA LiveIs ==
  ASSUME NEW t \in Sessions, NEW es \in Seq(Nat), NEW w,
         w = AppendLive(t, es) \/ w = ReplaceLive(t, es)
  PROVE  /\ w \in Writes /\ IsWrite(w) /\ w.session = t /\ w.entries = es
         /\ \A s : /\ Of(w, s) <=> s = t
                   /\ ~Saves(w, s) /\ ~Commits(w, s)
                   /\ Cuts(w, s) <=> s = t /\ w.op = "ReplaceLive"
         /\ \A s, e : /\ Holds(w, s, e) <=> s = t /\ e \in Range(es)
                      /\ Adds(w, s, e) <=> s = t /\ e \in Range(es)
                      /\ ~Turns(w, s, e)
BY DEF AppendLive, ReplaceLive, Writes, IsWrite, Of, Saves, Commits, Cuts, Holds, Turns, Adds,
       EntriesOf

\* A turn that is committed: a copy of its entries, and the end of the live log.
LEMMA CommitIs ==
  ASSUME NEW t \in Sessions, NEW o \in Nat, NEW es \in Seq(Nat), NEW w,
         w = CommitTurn(t, o, es)
  PROVE  /\ w \in Writes /\ IsWrite(w)
         /\ w.session = t /\ w.entries = es /\ w.ordinal = o
         /\ \A s : /\ Of(w, s) <=> s = t
                   /\ Commits(w, s) <=> s = t
                   /\ Cuts(w, s) <=> s = t
                   /\ ~Saves(w, s)
         /\ \A s, e : /\ Holds(w, s, e) <=> s = t /\ e \in Range(es)
                      /\ Turns(w, s, e) <=> s = t /\ e \in Range(es)
                      /\ ~Adds(w, s, e)
BY DEF CommitTurn, Writes, IsWrite, Of, Saves, Commits, Cuts, Holds, Turns, Adds, EntriesOf

\* The live log is cleared.
LEMMA ClearIs ==
  ASSUME NEW t \in Sessions, NEW w, w = ClearLive(t)
  PROVE  /\ w \in Writes /\ IsWrite(w) /\ w.session = t
         /\ \A s : /\ Of(w, s) <=> s = t
                   /\ Cuts(w, s) <=> s = t
                   /\ ~Saves(w, s) /\ ~Commits(w, s)
         /\ \A s, e : ~Holds(w, s, e) /\ ~Turns(w, s, e) /\ ~Adds(w, s, e)
BY DEF ClearLive, Writes, IsWrite, Of, Saves, Commits, Cuts, Holds, Turns, Adds, EntriesOf

\* A read, a command or a shutdown writes nothing itself.
LEMMA BarrierIs ==
  ASSUME NEW w \in Barriers
  PROVE  /\ ~IsWrite(w) /\ w.id \in Nat \ {0} /\ w.op \in {"Read", "Execute", "Shutdown"}
         /\ w.session \in Sessions \cup {NoSession}
         /\ w.op = "Execute" => w.session \in Sessions
         /\ \A s : ~Of(w, s) /\ ~Saves(w, s) /\ ~Commits(w, s) /\ ~Cuts(w, s)
         /\ \A s, e : ~Holds(w, s, e) /\ ~Turns(w, s, e) /\ ~Adds(w, s, e)
BY DEF Barriers, IsWrite, Of, Saves, Commits, Cuts, Holds, Turns, Adds

\* Every write is one of the five (records.rs).
LEMMA WriteIs ==
  ASSUME NEW w \in Writes
  PROVE  /\ IsWrite(w) /\ w.session \in Sessions
         /\ w.op \in {"Runtime", "AppendLive", "ReplaceLive", "CommitTurn", "ClearLive"}
         /\ w.op = "Runtime" => w = Runtime(w.session, w.version) /\ w.version \in Nat
         /\ w.op = "AppendLive" =>
              w = AppendLive(w.session, w.entries) /\ w.entries \in Seq(Nat)
         /\ w.op = "ReplaceLive" =>
              w = ReplaceLive(w.session, w.entries) /\ w.entries \in Seq(Nat)
         /\ w.op = "CommitTurn" =>
              /\ w = CommitTurn(w.session, w.ordinal, w.entries)
              /\ w.entries \in Seq(Nat) /\ w.ordinal \in Nat
         /\ w.op = "ClearLive" => w = ClearLive(w.session)
BY DEF Writes, IsWrite, Runtime, AppendLive, ReplaceLive, CommitTurn, ClearLive

\* Nothing is waiting: an empty channel, or no pending write.
LEMMA NoneIs ==
  /\ << >> \in Seq(Writes) /\ << >> \in Seq(Requests) /\ << >> \in Seq(Nat)
  /\ \A s : ~SomeOf(<< >>, s) /\ ~SomeSave(<< >>, s) /\ Ordered(<< >>, s)
  /\ \A s, n : Below(<< >>, s, n) /\ Above(<< >>, s, n) /\ LastSave(<< >>, s, n)
  /\ \A s, e : ~InWrite(<< >>, s, e) /\ ~InTurn(<< >>, s, e) /\ Survives(<< >>, s, e)
  /\ \A s, o, es : Beyond(<< >>, s, o, es)
  /\ \A s, e, b : LiveAfter(<< >>, s, e, b) <=> b
BY DEF SomeOf, SomeSave, Ordered, Below, Above, LastSave, InWrite, InTurn, Survives, Beyond,
       LiveAfter

\* Nothing is stored in a thread that does not exist.
LEMMA NoFilesIs ==
  /\ NoFiles \in Files
  /\ NoFiles.turns = << >> /\ NoFiles.live = << >> /\ DOMAIN NoFiles.turns = {}
<1>1. << >> \in TurnLogs
  <2>1. {} \in {T \in SUBSET Nat : IsFiniteSet(T)}
    BY FS_EmptySet
  <2>2. << >> \in [{} -> Seq(Nat)]
    OBVIOUS
  <2> QED
    BY <2>1, <2>2 DEF TurnLogs
<1>2. << >> \in Seq(Nat)
  OBVIOUS
<1>3. [part \in Range(Parts) |-> 0] \in [Range(Parts) -> Nat]
  OBVIOUS
<1> QED
  BY <1>1, <1>2, <1>3 DEF NoFiles, Files

\* A request that waits for its answer.
LEMMA WaitingIs ==
  ASSUME NEW id \in Nat, NEW s \in Sessions \cup {NoSession}
  PROVE  Waiting(id, s) \in Receipts /\ NoReceipt \in Receipts
<1>1. NoReceipt \in Receipts
  BY NoFilesIs DEF NoReceipt, Receipts
<1> QED
  BY <1>1 DEF Waiting, Receipts

-----------------------------------------------------------------------------
(* The steps of the interface, each a few of these: it queues a write, shows *)
(* or replaces an entry, asks for something, takes another thread.          *)

\* A write for the current thread leaves alone what is about requests.
LEMMA WriteQueued ==
  ASSUME NEW u, NEW rs, NEW q, NEW p, NEW g, NEW d, NEW ow, NEW sv, NEW n, NEW m,
         StorageState(u, rs, q, p, g, d, ow, sv, n, m), u.phase = "running",
         NEW w \in Writes, w.session = u.session,
         NEW u2 \in Interfaces, u2.session = u.session, u2.phase = u.phase,
         NEW ow2 \in [Sessions -> SUBSET Nat],
         \A s \in Sessions : ow[s] \subseteq ow2[s] \/ (s = u.session /\ ow2[s] # {}),
         \A s \in Sessions : s # u.session => ow2[s] = ow[s],
         NEW sv2 \in [Sessions -> Nat],
         \A s \in Sessions : sv2[s] >= sv[s],
         NEW m2 \in Nat
  PROVE  /\ TypesInv(u2, rs, Append(q, w), p, g, d, ow2, sv2, n, m2)
         /\ RequestInv(rs, Append(q, w), g, n)
         /\ RestoreInv(u2, rs, Append(q, w), p, g, d)
         /\ CommandInv(u2, rs, Append(q, w), p, d, ow2)
         /\ UsedInv(u2, rs, Append(q, w), p, ow2, sv2)
         /\ ExitInv(u2, rs, Append(q, w), p, g)
<1> DEFINE a == Append(q, w)
<1>1. TypesInv(u, rs, q, p, g, d, ow, sv, n, m)
  BY DEF StorageState
<1>2. q \in Seq(Requests) /\ w \in Requests /\ a \in Seq(Requests)
  BY <1>1 DEF TypesInv, Requests
<1>3. TypesInv(u2, rs, a, p, g, d, ow2, sv2, n, m2)
  BY <1>1, <1>2 DEF TypesInv, Requests
<1>4. /\ IsWrite(w) /\ \A s : Of(w, s) <=> s = u.session
  BY WriteIs DEF Of
<1>5. /\ DOMAIN q = 1..Len(q) /\ DOMAIN a = DOMAIN q \cup {Len(q) + 1}
      /\ Len(a) = Len(q) + 1 /\ Len(q) \in Nat
      /\ a[Len(q) + 1] = w /\ \A i \in DOMAIN q : a[i] = q[i]
  BY <1>2
<1>6. \A i \in DOMAIN a : ~IsWrite(a[i]) => i \in DOMAIN q /\ a[i] = q[i]
  BY <1>4, <1>5
<1>7. \A i \in DOMAIN a : ~IsWrite(a[i]) => a[i] \in Barriers /\ a[i].id # 0
  BY <1>2, WriteIs, BarrierIs DEF Requests
<1>8. \A s : SomeOf(a, s) <=> SomeOf(q, s) \/ s = u.session
  BY <1>2, <1>4, AppendedIs
<1> HIDE DEF a
<1>9. RequestInv(rs, a, g, n)
  BY <1>6 DEF StorageState, RequestInv
<1>10. RestoreInv(u2, rs, a, p, g, d)
  <2> SUFFICES ASSUME rs.restore.id > 0
               PROVE  RestoreInv(u2, rs, a, p, g, d)
    BY DEF RestoreInv
  <2> DEFINE r == rs.restore
  <2>1. /\ r.session \in Sessions /\ r.session # u.session
        /\ \A i \in DOMAIN q : ~IsWrite(q[i]) /\ q[i].id = r.id =>
             /\ q[i].op = "Read" /\ q[i].session = r.session
             /\ \A j \in (i + 1)..Len(q) : ~Of(q[j], r.session)
        /\ g \in Barriers /\ g.id = r.id =>
             g.op = "Read" /\ g.session = r.session /\ ~SomeOf(q, r.session)
        /\ r.reply = "ok" =>
             /\ ~SomeOf(q, r.session) /\ ~SomeOf(p, r.session)
             /\ r.files.turns = d[r.session].turns /\ r.files.live = d[r.session].live
    BY DEF StorageState, RestoreInv
  <2>2. ASSUME NEW i \in DOMAIN a, ~IsWrite(a[i]), a[i].id = r.id
        PROVE  /\ a[i].op = "Read" /\ a[i].session = r.session
               /\ \A j \in (i + 1)..Len(a) : ~Of(a[j], r.session)
    <3>1. i \in DOMAIN q /\ a[i] = q[i]
      BY <1>6, <2>2
    <3>2. \A j \in (i + 1)..Len(a) : j = Len(q) + 1 \/ (j \in (i + 1)..Len(q) /\ j \in DOMAIN q)
      BY <1>5, <3>1
    <3> QED
      BY <1>4, <1>5, <2>1, <2>2, <3>1, <3>2
  <2> QED
    BY <1>8, <2>1, <2>2 DEF RestoreInv
<1>11. CommandInv(u2, rs, a, p, d, ow2)
  BY <1>8 DEF StorageState, CommandInv
<1>12. UsedInv(u2, rs, a, p, ow2, sv2)
  <2>1. \A s \in Sessions : sv[s] \in Nat /\ sv2[s] \in Nat
    BY <1>1 DEF TypesInv
  <2> QED
    BY <1>8, <2>1 DEF StorageState, UsedInv
<1>13. ExitInv(u2, rs, a, p, g)
  <2>1. rs.exit.id = 0
    BY DEF StorageState, ExitInv
  <2>2. "exit" \in DOMAIN rs
    BY <1>1 DEF TypesInv
  <2>3. rs.exit = NoReceipt
    BY <2>1, <2>2 DEF StorageState, RequestInv
  <2>4. rs.exit.reply = "none"
    BY <2>3 DEF NoReceipt
  <2>5. \A b \in Barriers : b.id # 0
    BY BarrierIs
  <2> QED
    BY <1>7, <2>1, <2>4, <2>5 DEF ExitInv
<1> QED
  BY <1>3, <1>9, <1>10, <1>11, <1>12, <1>13 DEF a

\* The active turn is committed (commit_active_turn).
LEMMA CommitKeeps ==
  ASSUME NEW u, NEW rs, NEW q, NEW p, NEW g, NEW d, NEW ow, NEW sv, NEW n, NEW m,
         StorageState(u, rs, q, p, g, d, ow, sv, n, m), u.phase = "running",
         u.active # << >>,
         NEW o \in Nat, o >= u.ordinal,
         NEW u2 \in Interfaces, u2.session = u.session, u2.phase = u.phase,
         u2.active = << >>, u2.ordinal = o + 1
  PROVE  StorageState(u2, rs, Append(q, CommitTurn(u.session, o, u.active)), p, g, d,
                      ow, sv, n, m)
<1> DEFINE t == u.session
           w == CommitTurn(t, o, u.active)
           a == Append(q, w)
<1>1. TypesInv(u, rs, q, p, g, d, ow, sv, n, m)
  BY DEF StorageState
<1>2. t \in Sessions /\ u.active \in Seq(Nat) /\ u.ordinal \in Nat
  BY <1>1 DEF TypesInv, Interfaces
<1> HIDE DEF a
<1>3. /\ w \in Writes /\ w.session = t /\ w.entries = u.active /\ w.ordinal = o
      /\ \A s : /\ Commits(w, s) <=> s = t
                /\ Cuts(w, s) <=> s = t
                /\ ~Saves(w, s)
      /\ \A s, e : /\ Holds(w, s, e) <=> s = t /\ e \in Range(u.active)
                   /\ Turns(w, s, e) <=> s = t /\ e \in Range(u.active)
                   /\ ~Adds(w, s, e)
  BY <1>2, CommitIs
<1> USE DEF a
<1> HIDE DEF w
<1>4. q \in Seq(Requests) /\ w \in Requests
  BY <1>1, <1>3 DEF TypesInv, Requests
<1>5. /\ \A s, e : InWrite(a, s, e) <=> InWrite(q, s, e) \/ Holds(w, s, e)
      /\ \A s, e : InTurn(a, s, e) <=> InTurn(q, s, e) \/ Turns(w, s, e)
      /\ \A s, e : Survives(a, s, e) <=>
           \/ Holds(w, s, e)
           \/ Survives(q, s, e) /\ (Cuts(w, s) => InTurn(q, s, e))
      /\ \A s, e, b : LiveAfter(a, s, e, b) <=>
           Adds(w, s, e) \/ (LiveAfter(q, s, e, b) /\ ~Cuts(w, s))
      /\ \A s : SomeSave(a, s) <=> SomeSave(q, s) \/ Saves(w, s)
      /\ \A s, v : LastSave(a, s, v) <=>
           IF Saves(w, s) THEN w.version = v ELSE LastSave(q, s, v)
      /\ \A s : Ordered(a, s) <=> Ordered(q, s) /\ (Commits(w, s) => Below(q, s, w.ordinal))
      /\ \A s, k : Below(a, s, k) <=> Below(q, s, k) /\ (Commits(w, s) => w.ordinal < k)
      /\ \A s, k : Above(a, s, k) <=> Above(q, s, k) /\ (Commits(w, s) => k < w.ordinal)
  BY <1>4, AppendedIs
<1> HIDE DEF a
<1>6. /\ KeptInv(q, p, d, ow) /\ ActiveInv(u, q, p, d, ow) /\ OrdinalInv(u, q, p, d)
      /\ LiveInv(u, q, p, d, ow) /\ ShownInv(u, q, p, d, ow, m) /\ CheckpointInv(u, q, p, d, sv)
  BY DEF StorageState
<1>7. \A e \in ow[t] : Turned(q, p, d, t, e) \/ e \in Range(u.active)
  BY <1>6 DEF ActiveInv
<1>8. KeptInv(a, p, d, ow)
  BY <1>3, <1>5, <1>6, <1>7 DEF KeptInv, Turned
<1>9. ActiveInv(u2, a, p, d, ow)
  BY <1>3, <1>5, <1>7, Zenon DEF ActiveInv, Turned, Leaving
<1>10. OrdinalInv(u2, a, p, d)
  <2>1. /\ Below(p, t, u.ordinal) /\ Below(q, t, u.ordinal)
        /\ \A k \in DOMAIN d[t].turns : k < u.ordinal
    BY <1>6 DEF OrdinalInv
  <2>2. \A i \in DOMAIN p : Commits(p[i], t) => p[i].ordinal \in Nat
    <3>1. \A i \in DOMAIN p : p[i] \in Writes
      BY <1>1 DEF TypesInv
    <3> QED
      BY <3>1, WriteIs DEF Commits
  <2>3. \A i \in DOMAIN q : Commits(q[i], t) => q[i].ordinal \in Nat
    <3>1. \A i \in DOMAIN q : q[i] \in Writes \/ q[i] \in Barriers
      BY <1>4 DEF Requests
    <3> QED
      BY <3>1, WriteIs, BarrierIs DEF Commits
  <2>4. \A k \in DOMAIN d[t].turns : k \in Nat
    <3>1. d[t].turns \in TurnLogs
      BY <1>1, <1>2 DEF TypesInv, Files
    <3> QED
      BY <3>1 DEF TurnLogs
  <2>5. /\ Below(p, t, o) /\ Below(q, t, o) /\ Below(p, t, o + 1) /\ Below(q, t, o + 1)
        /\ \A k \in DOMAIN d[t].turns : k < o /\ k < o + 1
    BY <1>2, <2>1, <2>2, <2>3, <2>4 DEF Below
  <2>6. \A i \in DOMAIN p : Commits(p[i], t) => p[i].ordinal < o
    BY <2>5 DEF Below
  <2>7. \A s \in Sessions :
          /\ Ordered(p, s) /\ Ordered(a, s)
          /\ \A i \in DOMAIN p : Commits(p[i], s) => Above(a, s, p[i].ordinal)
          /\ \A k \in DOMAIN d[s].turns :
               Above(a, s, k) /\ Beyond(p, s, k, d[s].turns[k])
    BY <1>3, <1>5, <1>6, <2>5, <2>6 DEF OrdinalInv
  <2>8. Below(a, t, o + 1)
    BY <1>3, <1>5, <2>5
  <2> QED
    BY <2>5, <2>7, <2>8 DEF OrdinalInv
<1>11. LiveInv(u2, a, p, d, ow)
  <2>1. ~\E e : e \in Range(u2.active)
    BY DEF Range
  <2> QED
    BY <1>3, <1>5, <1>6, <2>1 DEF LiveInv, FinallyLive
<1>12. ShownInv(u2, a, p, d, ow, m)
  <2>1. \A e \in Range(u.active) : e <= m
    BY <1>6 DEF ShownInv, Range
  <2> QED
    BY <1>3, <1>5, <1>6, <2>1 DEF ShownInv
<1>13. CheckpointInv(u2, a, p, d, sv)
  BY <1>3, <1>5, <1>6 DEF CheckpointInv
<1>14. /\ TypesInv(u2, rs, a, p, g, d, ow, sv, n, m)
       /\ RequestInv(rs, a, g, n) /\ RestoreInv(u2, rs, a, p, g, d)
       /\ CommandInv(u2, rs, a, p, d, ow) /\ UsedInv(u2, rs, a, p, ow, sv)
       /\ ExitInv(u2, rs, a, p, g)
  <2>1. /\ ow \in [Sessions -> SUBSET Nat] /\ sv \in [Sessions -> Nat] /\ m \in Nat
    BY <1>1 DEF TypesInv
  <2>2. \A s \in Sessions : sv[s] >= sv[s]
    BY <2>1
  <2>4. /\ \A s \in Sessions : ow[s] \subseteq ow[s] \/ (s = u.session /\ ow[s] # {})
        /\ \A s \in Sessions : s # u.session => ow[s] = ow[s]
    OBVIOUS
  <2> HIDE DEF t
  <2>5. w \in Writes /\ w.session = u.session
    BY <1>3 DEF t
  <2> QED
    BY <2>1, <2>2, <2>4, <2>5, WriteQueued, ZenonT(40) DEF a
<1> QED
  BY <1>8, <1>9, <1>10, <1>11, <1>12, <1>13, <1>14 DEF StorageState, a, w

\* A checkpoint is written (persist_runtime_state).
LEMMA SaveKeeps ==
  ASSUME NEW u, NEW rs, NEW q, NEW p, NEW g, NEW d, NEW ow, NEW sv, NEW n, NEW m,
         StorageState(u, rs, q, p, g, d, ow, sv, n, m), u.phase = "running",
         NEW sv2 \in [Sessions -> Nat], sv2[u.session] = sv[u.session] + 1,
         \A s \in Sessions : s # u.session => sv2[s] = sv[s]
  PROVE  StorageState(u, rs, Append(q, Runtime(u.session, sv[u.session] + 1)), p, g, d,
                      ow, sv2, n, m)
<1> DEFINE t == u.session
           w == Runtime(t, sv[t] + 1)
           a == Append(q, w)
<1> HIDE DEF a
<1>1. TypesInv(u, rs, q, p, g, d, ow, sv, n, m)
  BY DEF StorageState
<1>2. /\ u \in Interfaces /\ t \in Sessions
      /\ sv \in [Sessions -> Nat] /\ sv[t] \in Nat /\ sv2 \in [Sessions -> Nat]
      /\ sv2[t] = sv[t] + 1 /\ \A s \in Sessions : s # t => sv2[s] = sv[s]
  BY <1>1 DEF TypesInv, Interfaces
<1>3. /\ w \in Writes /\ w.session = t /\ w.version = sv[t] + 1
      /\ \A s : /\ Saves(w, s) <=> s = t
                /\ ~Commits(w, s) /\ ~Cuts(w, s)
      /\ \A s, e : ~Holds(w, s, e) /\ ~Turns(w, s, e) /\ ~Adds(w, s, e)
  BY <1>2, RuntimeIs
<1> HIDE DEF w
<1>4. q \in Seq(Requests) /\ w \in Requests
  BY <1>1, <1>3 DEF TypesInv, Requests
<1>5. /\ \A s, e : /\ InWrite(a, s, e) <=> InWrite(q, s, e)
                   /\ InTurn(a, s, e) <=> InTurn(q, s, e)
                   /\ Survives(a, s, e) <=> Survives(q, s, e)
      /\ \A s, e, b : LiveAfter(a, s, e, b) <=> LiveAfter(q, s, e, b)
      /\ \A s : SomeSave(a, s) <=> SomeSave(q, s) \/ Saves(w, s)
      /\ \A s, v : LastSave(a, s, v) <=>
           IF Saves(w, s) THEN w.version = v ELSE LastSave(q, s, v)
      /\ \A s : Ordered(a, s) <=> Ordered(q, s)
      /\ \A s, k : Below(a, s, k) <=> Below(q, s, k)
      /\ \A s, k : Above(a, s, k) <=> Above(q, s, k)
  BY <1>3, <1>4, AppendedIs DEF a
<1>6. /\ KeptInv(q, p, d, ow) /\ ActiveInv(u, q, p, d, ow) /\ OrdinalInv(u, q, p, d)
      /\ LiveInv(u, q, p, d, ow) /\ ShownInv(u, q, p, d, ow, m) /\ CheckpointInv(u, q, p, d, sv)
  BY DEF StorageState
<1>7. KeptInv(a, p, d, ow) /\ ActiveInv(u, a, p, d, ow)
  BY <1>5, <1>6 DEF KeptInv, ActiveInv, Turned
<1>8. OrdinalInv(u, a, p, d)
  BY <1>5, <1>6 DEF OrdinalInv
<1>9. LiveInv(u, a, p, d, ow)
  BY <1>5, <1>6 DEF LiveInv, FinallyLive
<1>10. ShownInv(u, a, p, d, ow, m)
  BY <1>5, <1>6 DEF ShownInv
<1>11. CheckpointInv(u, a, p, d, sv2)
  BY <1>2, <1>3, <1>5, <1>6 DEF CheckpointInv, Leaving
<1>12. /\ TypesInv(u, rs, a, p, g, d, ow, sv2, n, m)
       /\ RequestInv(rs, a, g, n) /\ RestoreInv(u, rs, a, p, g, d)
       /\ CommandInv(u, rs, a, p, d, ow) /\ UsedInv(u, rs, a, p, ow, sv2)
       /\ ExitInv(u, rs, a, p, g)
  <2>1. /\ ow \in [Sessions -> SUBSET Nat] /\ m \in Nat
    BY <1>1 DEF TypesInv
  <2>2. \A s \in Sessions : sv2[s] >= sv[s]
    BY <1>2
  <2>4. /\ \A s \in Sessions : ow[s] \subseteq ow[s] \/ (s = u.session /\ ow[s] # {})
        /\ \A s \in Sessions : s # u.session => ow[s] = ow[s]
    OBVIOUS
  <2> HIDE DEF t
  <2>5. w \in Writes /\ w.session = u.session
    BY <1>3 DEF t
  <2>6. /\ u \in Interfaces /\ u.session = u.session /\ u.phase = u.phase
        /\ sv2 \in [Sessions -> Nat]
    BY <1>2
  <2> QED
    BY <2>1, <2>2, <2>4, <2>5, <2>6, WriteQueued, ZenonT(60) DEF a
<1> QED
  BY <1>7, <1>8, <1>9, <1>10, <1>11, <1>12 DEF StorageState, a, w

\* An entry is shown and recorded in the live log (push_entry, push_notice).
LEMMA RecordKeeps ==
  ASSUME NEW u, NEW rs, NEW q, NEW p, NEW g, NEW d, NEW ow, NEW sv, NEW n, NEW m,
         StorageState(u, rs, q, p, g, d, ow, sv, n, m), u.phase = "running",
         NEW u2 \in Interfaces, u2.session = u.session, u2.phase = u.phase,
         u2.active = Append(u.active, m + 1), u2.ordinal = u.ordinal,
         NEW ow2 \in [Sessions -> SUBSET Nat],
         ow2[u.session] = ow[u.session] \cup {m + 1},
         \A s \in Sessions : s # u.session => ow2[s] = ow[s]
  PROVE  StorageState(u2, rs, Append(q, AppendLive(u.session, <<m + 1>>)), p, g, d,
                      ow2, sv, n, m + 1)
<1> DEFINE t == u.session
           w == AppendLive(t, <<m + 1>>)
           a == Append(q, w)
<1> HIDE DEF a
<1>1. TypesInv(u, rs, q, p, g, d, ow, sv, n, m)
  BY DEF StorageState
<1>2. /\ m \in Nat /\ <<m + 1>> \in Seq(Nat) /\ Range(<<m + 1>>) = {m + 1}
      /\ u \in Interfaces /\ t \in Sessions /\ u.active \in Seq(Nat)
      /\ u2 \in Interfaces /\ u2.session = t /\ u2.phase = u.phase /\ u2.ordinal = u.ordinal
      /\ u2.active = Append(u.active, m + 1)
  <2>1. /\ m \in Nat /\ u \in Interfaces
    BY <1>1 DEF TypesInv
  <2>2. <<m + 1>> \in Seq(Nat) /\ Range(<<m + 1>>) = {m + 1}
    BY <2>1 DEF Range
  <2>3. /\ t \in Sessions /\ u.active \in Seq(Nat)
        /\ u2 \in Interfaces /\ u2.session = t /\ u2.phase = u.phase
        /\ u2.ordinal = u.ordinal /\ u2.active = Append(u.active, m + 1)
    BY <2>1 DEF Interfaces
  <2> QED
    BY <2>1, <2>2, <2>3
<1>3. /\ ow \in [Sessions -> SUBSET Nat] /\ ow2 \in [Sessions -> SUBSET Nat]
      /\ ow2[t] = ow[t] \cup {m + 1} /\ \A s \in Sessions : s # t => ow2[s] = ow[s]
  BY <1>1, <1>2 DEF TypesInv
<1>4. /\ \A e : e \in Range(u2.active) <=> e \in Range(u.active) \/ e = m + 1
      /\ \A i \in DOMAIN u2.active :
           u2.active[i] = m + 1 \/ (i \in DOMAIN u.active /\ u2.active[i] = u.active[i])
  <2>1. /\ DOMAIN u2.active = DOMAIN u.active \cup {Len(u.active) + 1}
        /\ u2.active[Len(u.active) + 1] = m + 1
        /\ \A i \in DOMAIN u.active : u2.active[i] = u.active[i]
    BY <1>2
  <2> QED
    BY <2>1 DEF Range
<1>5. /\ w \in Writes /\ w.session = t
      /\ \A s : ~Saves(w, s) /\ ~Commits(w, s) /\ ~Cuts(w, s)
      /\ \A s, e : /\ Holds(w, s, e) <=> s = t /\ e = m + 1
                   /\ Adds(w, s, e) <=> s = t /\ e = m + 1
                   /\ ~Turns(w, s, e)
  <2>1. /\ w \in Writes /\ w.session = t
        /\ \A s : ~Saves(w, s) /\ ~Commits(w, s) /\ (Cuts(w, s) <=> s = t /\ w.op = "ReplaceLive")
        /\ \A s, e : /\ Holds(w, s, e) <=> s = t /\ e \in Range(<<m + 1>>)
                     /\ Adds(w, s, e) <=> s = t /\ e \in Range(<<m + 1>>)
                     /\ ~Turns(w, s, e)
    <3> DEFINE es == <<m + 1>>
    <3>1. es \in Seq(Nat) /\ t \in Sessions
      BY <1>2
    <3>2. w = AppendLive(t, es)
      OBVIOUS
    <3> HIDE DEF es, w, t
    <3>3. /\ w \in Writes /\ w.session = t
          /\ \A s : ~Saves(w, s) /\ ~Commits(w, s) /\ (Cuts(w, s) <=> s = t /\ w.op = "ReplaceLive")
          /\ \A s, e : /\ Holds(w, s, e) <=> s = t /\ e \in Range(es)
                       /\ Adds(w, s, e) <=> s = t /\ e \in Range(es)
                       /\ ~Turns(w, s, e)
      BY <3>1, <3>2, LiveIs
    <3> QED
      BY <3>3 DEF es
  <2>2. w.op = "AppendLive"
    BY DEF AppendLive
  <2> QED
    BY <1>2, <2>1, <2>2
<1> HIDE DEF w
<1>6. q \in Seq(Requests) /\ w \in Requests
  BY <1>1, <1>5 DEF TypesInv, Requests
<1>7. /\ \A s, e : InWrite(a, s, e) <=> InWrite(q, s, e) \/ Holds(w, s, e)
      /\ \A s, e : InTurn(a, s, e) <=> InTurn(q, s, e)
      /\ \A s, e : Survives(a, s, e) <=> Survives(q, s, e) \/ Holds(w, s, e)
      /\ \A s, e, b : LiveAfter(a, s, e, b) <=> LiveAfter(q, s, e, b) \/ Adds(w, s, e)
      /\ \A s : SomeSave(a, s) <=> SomeSave(q, s)
      /\ \A s, v : LastSave(a, s, v) <=> LastSave(q, s, v)
      /\ \A s : Ordered(a, s) <=> Ordered(q, s)
      /\ \A s, k : Below(a, s, k) <=> Below(q, s, k)
      /\ \A s, k : Above(a, s, k) <=> Above(q, s, k)
  BY <1>5, <1>6, AppendedIs DEF a
<1>8. /\ KeptInv(q, p, d, ow) /\ ActiveInv(u, q, p, d, ow) /\ OrdinalInv(u, q, p, d)
      /\ LiveInv(u, q, p, d, ow) /\ ShownInv(u, q, p, d, ow, m) /\ CheckpointInv(u, q, p, d, sv)
  BY DEF StorageState
<1>9. KeptInv(a, p, d, ow2)
  BY <1>3, <1>5, <1>7, <1>8 DEF KeptInv
<1>10. ActiveInv(u2, a, p, d, ow2)
  BY <1>2, <1>3, <1>4, <1>7, <1>8 DEF ActiveInv, Turned, Leaving
<1>11. OrdinalInv(u2, a, p, d)
  BY <1>2, <1>7, <1>8 DEF OrdinalInv
<1>12. LiveInv(u2, a, p, d, ow2)
  <2>1. \A s, e : FinallyLive(a, p, d, s, e) <=>
                    FinallyLive(q, p, d, s, e) \/ (s = t /\ e = m + 1)
    <3>1. \A s, e, b : LiveAfter(a, s, e, b) <=>
                         LiveAfter(q, s, e, b) \/ (s = t /\ e = m + 1)
      BY <1>5, <1>7
    <3> QED
      BY <3>1, Zenon DEF FinallyLive
  <2> QED
    BY <1>2, <1>3, <1>4, <1>8, <2>1 DEF LiveInv
<1>13. ShownInv(u2, a, p, d, ow2, m + 1)
  <2>1. \A i \in DOMAIN u2.active : u2.active[i] <= m + 1
    BY <1>2, <1>4, <1>8 DEF ShownInv
  <2>2. \A e \in Nat : e <= m => e <= m + 1
    BY <1>2
  <2> QED
    BY <1>2, <1>3, <1>5, <1>7, <1>8, <2>1, <2>2 DEF ShownInv
<1>14. CheckpointInv(u2, a, p, d, sv)
  BY <1>2, <1>7, <1>8 DEF CheckpointInv
<1>15. /\ TypesInv(u2, rs, a, p, g, d, ow2, sv, n, m + 1)
       /\ RequestInv(rs, a, g, n) /\ RestoreInv(u2, rs, a, p, g, d)
       /\ CommandInv(u2, rs, a, p, d, ow2) /\ UsedInv(u2, rs, a, p, ow2, sv)
       /\ ExitInv(u2, rs, a, p, g)
  <2>1. /\ sv \in [Sessions -> Nat] /\ m + 1 \in Nat
    BY <1>1, <1>2 DEF TypesInv
  <2>2. \A s \in Sessions : sv[s] >= sv[s]
    BY <2>1
  <2>4. /\ \A s \in Sessions : ow[s] \subseteq ow2[s] \/ (s = u.session /\ ow2[s] # {})
        /\ \A s \in Sessions : s # u.session => ow2[s] = ow[s]
    BY <1>3
  <2> HIDE DEF t
  <2>5. w \in Writes /\ w.session = u.session /\ u2.session = u.session
    BY <1>2, <1>5 DEF t
  <2>6. /\ u2 \in Interfaces /\ u2.phase = u.phase /\ ow2 \in [Sessions -> SUBSET Nat]
        /\ sv \in [Sessions -> Nat]
    BY <1>2, <1>3, <2>1
  <2>7. PICK k \in Nat : k = m + 1
    BY <2>1
  <2>8. /\ TypesInv(u2, rs, a, p, g, d, ow2, sv, n, k)
        /\ RequestInv(rs, a, g, n) /\ RestoreInv(u2, rs, a, p, g, d)
        /\ CommandInv(u2, rs, a, p, d, ow2) /\ UsedInv(u2, rs, a, p, ow2, sv)
        /\ ExitInv(u2, rs, a, p, g)
    BY <2>1, <2>2, <2>4, <2>5, <2>6, WriteQueued, SMTT(60) DEF a
  <2> QED
    BY <2>7, <2>8
<1> QED
  BY <1>9, <1>10, <1>11, <1>12, <1>13, <1>14, <1>15 DEF StorageState, a, w

\* A write that tells of one more entry leaves alone what is about requests.
LEMMA EntryQueued ==
  ASSUME NEW u, NEW rs, NEW q, NEW p, NEW g, NEW d, NEW ow, NEW sv, NEW n, NEW m,
         StorageState(u, rs, q, p, g, d, ow, sv, n, m), u.phase = "running",
         NEW w \in Writes, w.session = u.session,
         NEW u2 \in Interfaces, u2.session = u.session, u2.phase = u.phase,
         NEW ow2 \in [Sessions -> SUBSET Nat],
         ow2[u.session] # {},
         \A s \in Sessions : s # u.session => ow2[s] = ow[s]
  PROVE  /\ TypesInv(u2, rs, Append(q, w), p, g, d, ow2, sv, n, m + 1)
         /\ RequestInv(rs, Append(q, w), g, n)
         /\ RestoreInv(u2, rs, Append(q, w), p, g, d)
         /\ CommandInv(u2, rs, Append(q, w), p, d, ow2)
         /\ UsedInv(u2, rs, Append(q, w), p, ow2, sv)
         /\ ExitInv(u2, rs, Append(q, w), p, g)
<1>1. /\ sv \in [Sessions -> Nat] /\ m + 1 \in Nat
  BY DEF StorageState, TypesInv
<1>2. \A s \in Sessions : sv[s] >= sv[s]
  BY <1>1
<1>3. \A s \in Sessions : ow[s] \subseteq ow2[s] \/ (s = u.session /\ ow2[s] # {})
  OBVIOUS
<1>4. PICK k \in Nat : k = m + 1
  BY <1>1
<1>5. /\ TypesInv(u2, rs, Append(q, w), p, g, d, ow2, sv, n, k)
      /\ RequestInv(rs, Append(q, w), g, n)
      /\ RestoreInv(u2, rs, Append(q, w), p, g, d)
      /\ CommandInv(u2, rs, Append(q, w), p, d, ow2)
      /\ UsedInv(u2, rs, Append(q, w), p, ow2, sv)
      /\ ExitInv(u2, rs, Append(q, w), p, g)
  BY <1>1, <1>2, <1>3, WriteQueued, SMTT(60)
<1> QED
  BY <1>4, <1>5

\* Both files of a thread are told what the active turn is after an entry of it
\* was finished (finalize_agent_stream).
LEMMA ReplaceKeeps ==
  ASSUME NEW u, NEW rs, NEW q, NEW p, NEW g, NEW d, NEW ow, NEW sv, NEW n, NEW m,
         StorageState(u, rs, q, p, g, d, ow, sv, n, m), u.phase = "running",
         NEW active \in Seq(Nat), NEW last \in Range(u.active),
         Range(active) \subseteq Range(u.active) \cup {m + 1},
         Range(u.active) \subseteq Range(active) \cup {last},
         m + 1 \in Range(active),
         NEW u2 \in Interfaces, u2.session = u.session, u2.phase = u.phase,
         u2.active = active, u2.ordinal = u.ordinal,
         NEW ow2 \in [Sessions -> SUBSET Nat],
         ow2[u.session] = (ow[u.session] \ {last}) \cup Range(active),
         \A s \in Sessions : s # u.session => ow2[s] = ow[s]
  PROVE  StorageState(u2, rs, Append(q, ReplaceLive(u.session, active)), p, g, d,
                      ow2, sv, n, m + 1)
<1> DEFINE t == u.session
           w == ReplaceLive(t, active)
           a == Append(q, w)
<1> HIDE DEF a
<1>1. TypesInv(u, rs, q, p, g, d, ow, sv, n, m)
  BY DEF StorageState
<1>2. m \in Nat /\ u \in Interfaces /\ t \in Sessions /\ u.active \in Seq(Nat)
  BY <1>1 DEF TypesInv, Interfaces
<1>3. /\ w \in Writes /\ w.session = t
      /\ \A s : ~Saves(w, s) /\ ~Commits(w, s) /\ (Cuts(w, s) <=> s = t)
      /\ \A s, e : /\ Holds(w, s, e) <=> s = t /\ e \in Range(active)
                   /\ Adds(w, s, e) <=> s = t /\ e \in Range(active)
                   /\ ~Turns(w, s, e)
  <2>1. w = ReplaceLive(t, active) /\ w.op = "ReplaceLive"
    BY DEF ReplaceLive
  <2> HIDE DEF w, t
  <2> QED
    BY <1>2, <2>1, LiveIs
<1> HIDE DEF w
<1>4. q \in Seq(Requests) /\ w \in Requests
  BY <1>1, <1>3 DEF TypesInv, Requests
<1>5. /\ \A s, e : InWrite(a, s, e) <=> InWrite(q, s, e) \/ Holds(w, s, e)
      /\ \A s, e : InTurn(a, s, e) <=> InTurn(q, s, e)
      /\ \A s, e : Survives(a, s, e) <=>
           Holds(w, s, e) \/ (Survives(q, s, e) /\ (Cuts(w, s) => InTurn(q, s, e)))
      /\ \A s, e, b : LiveAfter(a, s, e, b) <=>
           Adds(w, s, e) \/ (LiveAfter(q, s, e, b) /\ ~Cuts(w, s))
      /\ \A s : SomeSave(a, s) <=> SomeSave(q, s)
      /\ \A s, v : LastSave(a, s, v) <=> LastSave(q, s, v)
      /\ \A s : Ordered(a, s) <=> Ordered(q, s)
      /\ \A s, k : Below(a, s, k) <=> Below(q, s, k)
      /\ \A s, k : Above(a, s, k) <=> Above(q, s, k)
  BY <1>3, <1>4, AppendedIs DEF a
<1>6. /\ KeptInv(q, p, d, ow) /\ ActiveInv(u, q, p, d, ow) /\ OrdinalInv(u, q, p, d)
      /\ LiveInv(u, q, p, d, ow) /\ ShownInv(u, q, p, d, ow, m) /\ CheckpointInv(u, q, p, d, sv)
  BY DEF StorageState
<1>7. \A e \in ow2[t] : e \in Range(active)
                          \/ (e \in ow[t] /\ Turned(q, p, d, t, e))
  BY <1>6 DEF ActiveInv
<1>8. KeptInv(a, p, d, ow2)
  BY <1>3, <1>5, <1>6, <1>7 DEF KeptInv, Turned
<1>9. ActiveInv(u2, a, p, d, ow2)
  BY <1>5, <1>7 DEF ActiveInv, Turned, Leaving
<1>10. OrdinalInv(u2, a, p, d)
  BY <1>5, <1>6 DEF OrdinalInv
<1>11. LiveInv(u2, a, p, d, ow2)
  <2>1. \A s, e : FinallyLive(a, p, d, s, e) <=>
                    IF s = t THEN e \in Range(active) ELSE FinallyLive(q, p, d, s, e)
    <3>1. \A s, e, b : LiveAfter(a, s, e, b) <=>
                         IF s = t THEN e \in Range(active) ELSE LiveAfter(q, s, e, b)
      BY <1>3, <1>5
    <3> QED
      BY <3>1, Zenon DEF FinallyLive
  <2> QED
    BY <1>2, <1>6, <2>1 DEF LiveInv
<1>12. ShownInv(u2, a, p, d, ow2, m + 1)
  <2>1. \A e \in Range(u.active) : e \in Nat /\ e <= m
    BY SMTT(30), <1>2, <1>6 DEF ShownInv, Range
  <2>2. \A e \in Range(active) : e \in Nat /\ e <= m + 1
    BY <1>2, <2>1
  <2>3. \A i \in DOMAIN u2.active : u2.active[i] <= m + 1
    BY <2>2 DEF Range
  <2>4. \A e \in Nat : e <= m => e <= m + 1
    BY <1>2
  <2> QED
    BY <1>3, <1>5, <1>6, <2>2, <2>3, <2>4 DEF ShownInv
<1>13. CheckpointInv(u2, a, p, d, sv)
  BY <1>5, <1>6 DEF CheckpointInv
<1>14. /\ TypesInv(u2, rs, a, p, g, d, ow2, sv, n, m + 1)
       /\ RequestInv(rs, a, g, n) /\ RestoreInv(u2, rs, a, p, g, d)
       /\ CommandInv(u2, rs, a, p, d, ow2) /\ UsedInv(u2, rs, a, p, ow2, sv)
       /\ ExitInv(u2, rs, a, p, g)
  <2>1. /\ w \in Writes /\ w.session = u.session /\ ow2[u.session] # {}
        /\ u2 \in Interfaces /\ u2.session = u.session /\ u2.phase = u.phase
        /\ ow2 \in [Sessions -> SUBSET Nat]
        /\ \A s \in Sessions : s # u.session => ow2[s] = ow[s]
    BY <1>3
  <2> HIDE DEF t
  <2>2. StorageState(u, rs, q, p, g, d, ow, sv, n, m) /\ u.phase = "running"
    OBVIOUS
  <2> QED
    BY ONLY <2>1, <2>2, EntryQueued DEF a
<1> QED
  BY <1>8, <1>9, <1>10, <1>11, <1>12, <1>13, <1>14 DEF StorageState, a, w

\* The live log is cleared when its turn was committed (reset_transcript).
LEMMA ClearKeeps ==
  ASSUME NEW u, NEW rs, NEW q, NEW p, NEW g, NEW d, NEW ow, NEW sv, NEW n, NEW m,
         StorageState(u, rs, q, p, g, d, ow, sv, n, m), u.phase = "running",
         u.active = << >>,
         NEW u2 \in Interfaces, u2.session = u.session, u2.phase = u.phase,
         u2.active = << >>, u2.ordinal = u.ordinal
  PROVE  StorageState(u2, rs, Append(q, ClearLive(u.session)), p, g, d, ow, sv, n, m)
<1> DEFINE t == u.session
           w == ClearLive(t)
           a == Append(q, w)
<1> HIDE DEF a
<1>1. TypesInv(u, rs, q, p, g, d, ow, sv, n, m)
  BY DEF StorageState
<1>2. t \in Sessions /\ ow \in [Sessions -> SUBSET Nat] /\ sv \in [Sessions -> Nat] /\ m \in Nat
  BY <1>1 DEF TypesInv, Interfaces
<1>3. /\ w \in Writes /\ w.session = t
      /\ \A s : ~Saves(w, s) /\ ~Commits(w, s) /\ (Cuts(w, s) <=> s = t)
      /\ \A s, e : ~Holds(w, s, e) /\ ~Adds(w, s, e) /\ ~Turns(w, s, e)
  <2>1. w = ClearLive(t)
    OBVIOUS
  <2> HIDE DEF w, t
  <2> QED
    BY <1>2, <2>1, ClearIs
<1> HIDE DEF w
<1>4. q \in Seq(Requests) /\ w \in Requests
  BY <1>1, <1>3 DEF TypesInv, Requests
<1>5. /\ \A s, e : InWrite(a, s, e) <=> InWrite(q, s, e)
      /\ \A s, e : InTurn(a, s, e) <=> InTurn(q, s, e)
      /\ \A s, e : Survives(a, s, e) <=>
           Survives(q, s, e) /\ (Cuts(w, s) => InTurn(q, s, e))
      /\ \A s, e, b : LiveAfter(a, s, e, b) <=> LiveAfter(q, s, e, b) /\ ~Cuts(w, s)
      /\ \A s : SomeSave(a, s) <=> SomeSave(q, s)
      /\ \A s, v : LastSave(a, s, v) <=> LastSave(q, s, v)
      /\ \A s : Ordered(a, s) <=> Ordered(q, s)
      /\ \A s, k : Below(a, s, k) <=> Below(q, s, k)
      /\ \A s, k : Above(a, s, k) <=> Above(q, s, k)
  BY <1>3, <1>4, AppendedIs DEF a
<1>6. /\ KeptInv(q, p, d, ow) /\ ActiveInv(u, q, p, d, ow) /\ OrdinalInv(u, q, p, d)
      /\ LiveInv(u, q, p, d, ow) /\ ShownInv(u, q, p, d, ow, m) /\ CheckpointInv(u, q, p, d, sv)
  BY DEF StorageState
<1>7. \A e : ~(e \in Range(<< >>))
  BY DEF Range
<1>8. \A e \in ow[t] : Turned(q, p, d, t, e)
  BY <1>6, <1>7 DEF ActiveInv
<1>9. KeptInv(a, p, d, ow)
  BY <1>3, <1>5, <1>6, <1>8 DEF KeptInv, Turned
<1>10. ActiveInv(u2, a, p, d, ow)
  BY <1>5, <1>8 DEF ActiveInv, Turned, Leaving
<1>11. OrdinalInv(u2, a, p, d)
  BY <1>5, <1>6 DEF OrdinalInv
<1>12. LiveInv(u2, a, p, d, ow)
  <2>1. \A s, e : FinallyLive(a, p, d, s, e) <=> s # t /\ FinallyLive(q, p, d, s, e)
    <3>1. \A s, e, b : LiveAfter(a, s, e, b) <=> s # t /\ LiveAfter(q, s, e, b)
      BY <1>3, <1>5
    <3> QED
      BY <3>1, Zenon DEF FinallyLive
  <2> QED
    BY <1>2, <1>6, <1>7, <2>1 DEF LiveInv
<1>13. ShownInv(u2, a, p, d, ow, m)
  BY <1>5, <1>6 DEF ShownInv
<1>14. CheckpointInv(u2, a, p, d, sv)
  BY <1>5, <1>6 DEF CheckpointInv
<1>15. /\ TypesInv(u2, rs, a, p, g, d, ow, sv, n, m)
       /\ RequestInv(rs, a, g, n) /\ RestoreInv(u2, rs, a, p, g, d)
       /\ CommandInv(u2, rs, a, p, d, ow) /\ UsedInv(u2, rs, a, p, ow, sv)
       /\ ExitInv(u2, rs, a, p, g)
  <2>2. \A s \in Sessions : sv[s] >= sv[s]
    BY <1>2
  <2> HIDE DEF t
  <2>5. w \in Writes /\ w.session = u.session
    BY <1>3 DEF t
  <2> QED
    BY <1>2, <2>2, <2>5, WriteQueued, SMTT(60) DEF a
<1> QED
  BY <1>9, <1>10, <1>11, <1>12, <1>13, <1>14, <1>15 DEF StorageState, a, w

\* An entry is only shown while the session is saved (push_unpersisted_notice).
LEMMA ShowKeeps ==
  ASSUME NEW u, NEW rs, NEW q, NEW p, NEW g, NEW d, NEW ow, NEW sv, NEW n, NEW m,
         StorageState(u, rs, q, p, g, d, ow, sv, n, m), u.phase = "saving",
         NEW u2 \in Interfaces, u2.session = u.session, u2.phase = u.phase,
         u2.active = Append(u.active, m + 1), u2.ordinal = u.ordinal
  PROVE  StorageState(u2, rs, q, p, g, d, ow, sv, n, m + 1)
<1>1. TypesInv(u, rs, q, p, g, d, ow, sv, n, m)
  BY DEF StorageState
<1>2. m \in Nat /\ u \in Interfaces /\ u.active \in Seq(Nat) /\ u.session \in Sessions
  BY <1>1 DEF TypesInv, Interfaces
<1>3. /\ \A e : e \in Range(u2.active) <=> e \in Range(u.active) \/ e = m + 1
      /\ \A i \in DOMAIN u2.active :
           u2.active[i] = m + 1 \/ (i \in DOMAIN u.active /\ u2.active[i] = u.active[i])
  <2>1. /\ DOMAIN u2.active = DOMAIN u.active \cup {Len(u.active) + 1}
        /\ u2.active[Len(u.active) + 1] = m + 1
        /\ \A i \in DOMAIN u.active : u2.active[i] = u.active[i]
    BY <1>2
  <2> QED
    BY <2>1 DEF Range
<1>4. ShownInv(u, q, p, d, ow, m) /\ LiveInv(u, q, p, d, ow)
  BY DEF StorageState
<1>5. \A i \in DOMAIN u.active : u.active[i] \in Nat
  BY <1>2
<1>6. ShownInv(u2, q, p, d, ow, m + 1)
  <2>1. \A e \in Nat : e <= m => e <= m + 1
    BY <1>2
  <2>2. \A i \in DOMAIN u2.active : u2.active[i] <= m + 1
    BY <1>2, <1>3, <1>4, <1>5, <2>1 DEF ShownInv
  <2> QED
    BY <1>4, <2>1, <2>2 DEF ShownInv
<1>7. LiveInv(u2, q, p, d, ow)
  <2>1. ~(m + 1 \in ow[u.session])
    BY <1>2, <1>4 DEF ShownInv
  <2> QED
    BY <1>3, <1>4, <2>1 DEF LiveInv
<1>8. TypesInv(u2, rs, q, p, g, d, ow, sv, n, m + 1)
  BY <1>1, <1>2 DEF TypesInv
<1>9. /\ KeptInv(q, p, d, ow) /\ ActiveInv(u2, q, p, d, ow) /\ OrdinalInv(u2, q, p, d)
      /\ RequestInv(rs, q, g, n) /\ RestoreInv(u2, rs, q, p, g, d)
      /\ CommandInv(u2, rs, q, p, d, ow) /\ UsedInv(u2, rs, q, p, ow, sv)
      /\ CheckpointInv(u2, q, p, d, sv) /\ ExitInv(u2, rs, q, p, g)
  BY DEF StorageState, ActiveInv, OrdinalInv, RestoreInv, CommandInv, UsedInv, CheckpointInv,
         ExitInv
<1> QED
  BY <1>6, <1>7, <1>8, <1>9 DEF StorageState

\* A request that is no write changes nothing in the files.
LEMMA BarrierQueued ==
  ASSUME NEW u, NEW rs, NEW q, NEW p, NEW g, NEW d, NEW ow, NEW sv, NEW n, NEW m,
         StorageState(u, rs, q, p, g, d, ow, sv, n, m),
         NEW w \in Barriers, w.id = n + 1
  PROVE  /\ KeptInv(Append(q, w), p, d, ow) /\ ActiveInv(u, Append(q, w), p, d, ow)
         /\ OrdinalInv(u, Append(q, w), p, d) /\ LiveInv(u, Append(q, w), p, d, ow)
         /\ ShownInv(u, Append(q, w), p, d, ow, m) /\ CheckpointInv(u, Append(q, w), p, d, sv)
         /\ \A s : SomeOf(Append(q, w), s) <=> SomeOf(q, s)
         /\ \A s : SomeSave(Append(q, w), s) <=> SomeSave(q, s)
         /\ Append(q, w) \in Seq(Writes \cup Barriers)
         /\ Len(Append(q, w)) = Len(q) + 1 /\ Len(q) \in Nat
         /\ \A i \in DOMAIN Append(q, w) :
              ~IsWrite(Append(q, w)[i]) =>
                /\ Append(q, w)[i].id <= n + 1
                /\ Append(q, w)[i].id # 0
                /\ Append(q, w)[i].id = n + 1 =>
                     i = Len(q) + 1 /\ Append(q, w)[i] = w
         /\ n \in Nat
<1> DEFINE a == Append(q, w)
<1>1. TypesInv(u, rs, q, p, g, d, ow, sv, n, m) /\ RequestInv(rs, q, g, n)
  BY DEF StorageState
<1>2. q \in Seq(Requests) /\ w \in Requests /\ n \in Nat /\ a \in Seq(Requests)
  BY <1>1 DEF TypesInv, Requests
<1>3. /\ \A s : ~Of(w, s) /\ ~Saves(w, s) /\ ~Commits(w, s) /\ ~Cuts(w, s)
      /\ \A s, e : ~Holds(w, s, e) /\ ~Turns(w, s, e) /\ ~Adds(w, s, e)
  BY BarrierIs
<1>4. /\ DOMAIN a = DOMAIN q \cup {Len(q) + 1} /\ Len(a) = Len(q) + 1 /\ Len(q) \in Nat
      /\ a[Len(q) + 1] = w /\ \A i \in DOMAIN q : a[i] = q[i] /\ q[i] \in Requests
  BY <1>2
<1> HIDE DEF a
<1>5. /\ \A s : SomeOf(a, s) <=> SomeOf(q, s)
      /\ \A s, e : /\ InWrite(a, s, e) <=> InWrite(q, s, e)
                   /\ InTurn(a, s, e) <=> InTurn(q, s, e)
                   /\ Survives(a, s, e) <=> Survives(q, s, e)
      /\ \A s, e, b : LiveAfter(a, s, e, b) <=> LiveAfter(q, s, e, b)
      /\ \A s : SomeSave(a, s) <=> SomeSave(q, s)
      /\ \A s, v : LastSave(a, s, v) <=> LastSave(q, s, v)
      /\ \A s : Ordered(a, s) <=> Ordered(q, s)
      /\ \A s, k : Below(a, s, k) <=> Below(q, s, k)
      /\ \A s, k : Above(a, s, k) <=> Above(q, s, k)
  BY <1>2, <1>3, AppendedIs DEF a
<1>6. /\ KeptInv(q, p, d, ow) /\ ActiveInv(u, q, p, d, ow) /\ OrdinalInv(u, q, p, d)
      /\ LiveInv(u, q, p, d, ow) /\ ShownInv(u, q, p, d, ow, m) /\ CheckpointInv(u, q, p, d, sv)
  BY DEF StorageState
<1>7. KeptInv(a, p, d, ow) /\ ActiveInv(u, a, p, d, ow)
  BY <1>5, <1>6 DEF KeptInv, ActiveInv, Turned
<1>8. OrdinalInv(u, a, p, d)
  BY <1>5, <1>6 DEF OrdinalInv
<1>9. LiveInv(u, a, p, d, ow)
  BY <1>5, <1>6 DEF LiveInv, FinallyLive
<1>10. ShownInv(u, a, p, d, ow, m)
  BY <1>5, <1>6 DEF ShownInv
<1>11. CheckpointInv(u, a, p, d, sv)
  BY <1>5, <1>6 DEF CheckpointInv
<1>12. ASSUME NEW i \in DOMAIN a, ~IsWrite(a[i])
       PROVE  /\ a[i].id <= n + 1 /\ a[i].id # 0
              /\ a[i].id = n + 1 => i = Len(q) + 1 /\ a[i] = w
  <2>1. CASE i = Len(q) + 1
    BY <1>2, <1>4, <2>1, BarrierIs
  <2>2. CASE i \in DOMAIN q
    <3>1. a[i] = q[i] /\ q[i] \in Barriers /\ q[i].id <= n
      BY <1>1, <1>4, <1>12, <2>2, WriteIs DEF RequestInv, Requests
    <3>2. a[i].id \in Nat \ {0}
      BY <3>1, BarrierIs
    <3> QED
      BY <1>2, <3>1, <3>2
  <2> QED
    BY <1>4, <1>12, <2>1, <2>2
<1> QED
  BY <1>2, <1>4, <1>5, <1>7, <1>8, <1>9, <1>10, <1>11, <1>12 DEF a, Requests

\* Another stored thread is asked for (request_restore).
LEMMA RestoreAsked ==
  ASSUME NEW u, NEW rs, NEW q, NEW p, NEW g, NEW d, NEW ow, NEW sv, NEW n, NEW m,
         StorageState(u, rs, q, p, g, d, ow, sv, n, m), u.phase = "running",
         rs.restore.id = 0, rs.command.id = 0, sv[u.session] > 0,
         NEW s \in Sessions, s # u.session,
         NEW rs2, rs2 = [rs EXCEPT !.restore = Waiting(n + 1, s)]
  PROVE  StorageState(u, rs2, Append(q, Read(n + 1, s)), p, g, d, ow, sv, n + 1, m)
<1> DEFINE w == Read(n + 1, s)
           a == Append(q, w)
<1>1. /\ TypesInv(u, rs, q, p, g, d, ow, sv, n, m) /\ RequestInv(rs, q, g, n)
      /\ CommandInv(u, rs, q, p, d, ow) /\ UsedInv(u, rs, q, p, ow, sv) /\ ExitInv(u, rs, q, p, g)
  BY DEF StorageState
<1>2. /\ rs \in [restore : Receipts, command : Receipts, exit : Receipts] /\ n \in Nat
      /\ n + 1 \in Nat \ {0} /\ n + 1 # 0
  BY <1>1 DEF TypesInv
<1>3. w \in Barriers /\ w.id = n + 1 /\ w.op = "Read" /\ w.session = s /\ ~IsWrite(w)
  BY <1>2 DEF Read, Barriers, IsWrite
<1> HIDE DEF w, a
<1>4. /\ KeptInv(a, p, d, ow) /\ ActiveInv(u, a, p, d, ow)
      /\ OrdinalInv(u, a, p, d) /\ LiveInv(u, a, p, d, ow)
      /\ ShownInv(u, a, p, d, ow, m) /\ CheckpointInv(u, a, p, d, sv)
      /\ \A t : SomeOf(a, t) <=> SomeOf(q, t)
      /\ a \in Seq(Writes \cup Barriers)
      /\ Len(a) = Len(q) + 1 /\ Len(q) \in Nat
      /\ \A i \in DOMAIN a : ~IsWrite(a[i]) =>
           /\ a[i].id <= n + 1 /\ a[i].id # 0
           /\ a[i].id = n + 1 => i = Len(q) + 1 /\ a[i] = w
  BY <1>3, BarrierQueued DEF a
<1>5. /\ rs2.restore = Waiting(n + 1, s) /\ rs2.command = rs.command /\ rs2.exit = rs.exit
      /\ DOMAIN rs2 = {"restore", "command", "exit"} /\ DOMAIN rs = DOMAIN rs2
      /\ rs2 \in [restore : {Waiting(n + 1, s)}, command : Receipts, exit : Receipts]
  BY <1>2
<1>6. /\ rs2.restore.id = n + 1 /\ rs2.restore.session = s /\ rs2.restore.reply = "none"
      /\ rs2.restore.files = NoFiles
  BY <1>5 DEF Waiting, NoReceipt
<1>7. Waiting(n + 1, s) \in Receipts
  BY <1>2, WaitingIs
<1>8. TypesInv(u, rs2, a, p, g, d, ow, sv, n + 1, m)
  BY <1>1, <1>2, <1>4, <1>5, <1>7 DEF TypesInv
<1>9. g \in Barriers => g.id <= n /\ g.id \in Nat /\ g.id # n + 1
  BY <1>1, <1>2, BarrierIs DEF RequestInv
<1>10. RequestInv(rs2, a, g, n + 1)
  <2>1. \A k \in {"command", "exit"} : rs[k].id \in Nat /\ rs[k].id <= n /\ rs2[k] = rs[k]
                                      /\ (rs[k].id = 0 => rs[k] = NoReceipt)
    BY <1>1, <1>2, <1>5 DEF RequestInv, Receipts
  <2>2. \A k \in DOMAIN rs2 : rs2[k].id <= n + 1 /\ (rs2[k].id = 0 => rs2[k] = NoReceipt)
    BY <1>2, <1>5, <1>6, <2>1
  <2> QED
    BY <1>2, <1>4, <1>5, <1>9, <2>2 DEF RequestInv
<1>11. RestoreInv(u, rs2, a, p, g, d)
  <2>1. ASSUME NEW i \in DOMAIN a, ~IsWrite(a[i]), a[i].id = n + 1
        PROVE  /\ a[i].op = "Read" /\ a[i].session = s
               /\ \A j \in (i + 1)..Len(a) : ~Of(a[j], s)
    BY <1>3, <1>4, <2>1
  <2> QED
    BY <1>6, <1>9, <2>1 DEF RestoreInv
<1>12. CommandInv(u, rs2, a, p, d, ow)
  BY <1>5 DEF CommandInv
<1>13. UsedInv(u, rs2, a, p, ow, sv)
  BY <1>1, <1>4, <1>5 DEF UsedInv
<1>14. ExitInv(u, rs2, a, p, g)
  <2>1. rs.exit.id = 0 /\ rs.exit.reply # "ok"
    <3>1. rs.exit.id = 0
      BY <1>1 DEF ExitInv
    <3>2. rs.exit = NoReceipt
      BY <1>1, <1>5, <3>1 DEF RequestInv
    <3> QED
      BY <3>1, <3>2 DEF NoReceipt
  <2>2. \A b \in Barriers : b.id # 0
    BY BarrierIs
  <2> QED
    BY <1>4, <1>5, <2>1, <2>2 DEF ExitInv
<1> QED
  BY <1>4, <1>8, <1>10, <1>11, <1>12, <1>13, <1>14 DEF StorageState, a, w

\* A new thread is asked for (start_new): nothing has used its identity.
LEMMA CommandAsked ==
  ASSUME NEW u, NEW rs, NEW q, NEW p, NEW g, NEW d, NEW ow, NEW sv, NEW n, NEW m,
         StorageState(u, rs, q, p, g, d, ow, sv, n, m), u.phase = "running",
         rs.restore.id = 0, rs.command.id = 0, sv[u.session] > 0,
         NEW s \in Sessions, s # u.session, d[s] = NoFiles, ow[s] = {}, sv[s] = 0,
         NEW rs2, rs2 = [rs EXCEPT !.command = Waiting(n + 1, s)]
  PROVE  StorageState(u, rs2, Append(q, Command(n + 1, s)), p, g, d, ow, sv, n + 1, m)
<1> DEFINE w == Command(n + 1, s)
           a == Append(q, w)
<1>1. /\ TypesInv(u, rs, q, p, g, d, ow, sv, n, m) /\ RequestInv(rs, q, g, n)
      /\ RestoreInv(u, rs, q, p, g, d)
      /\ UsedInv(u, rs, q, p, ow, sv) /\ ExitInv(u, rs, q, p, g)
  BY DEF StorageState
<1>2. /\ rs \in [restore : Receipts, command : Receipts, exit : Receipts] /\ n \in Nat
      /\ n + 1 \in Nat \ {0} /\ n + 1 # 0
  BY <1>1 DEF TypesInv
<1>3. w \in Barriers /\ w.id = n + 1
  BY <1>2 DEF Command, Barriers, IsWrite
<1> HIDE DEF w, a
<1>4. /\ KeptInv(a, p, d, ow) /\ ActiveInv(u, a, p, d, ow)
      /\ OrdinalInv(u, a, p, d) /\ LiveInv(u, a, p, d, ow)
      /\ ShownInv(u, a, p, d, ow, m) /\ CheckpointInv(u, a, p, d, sv)
      /\ \A t : SomeOf(a, t) <=> SomeOf(q, t)
      /\ a \in Seq(Writes \cup Barriers)
      /\ Len(a) = Len(q) + 1 /\ Len(q) \in Nat
      /\ \A i \in DOMAIN a : ~IsWrite(a[i]) =>
           /\ a[i].id <= n + 1 /\ a[i].id # 0
           /\ a[i].id = n + 1 => i = Len(q) + 1 /\ a[i] = w
  BY <1>3, BarrierQueued DEF a
<1>5. /\ rs2.command = Waiting(n + 1, s) /\ rs2.restore = rs.restore /\ rs2.exit = rs.exit
      /\ DOMAIN rs2 = {"restore", "command", "exit"} /\ DOMAIN rs = DOMAIN rs2
      /\ rs2 \in [restore : Receipts, command : {Waiting(n + 1, s)}, exit : Receipts]
  BY <1>2
<1>6. rs2.command.id = n + 1 /\ rs2.command.session = s
  BY <1>5 DEF Waiting, NoReceipt
<1>7. Waiting(n + 1, s) \in Receipts
  BY <1>2, WaitingIs
<1>8. TypesInv(u, rs2, a, p, g, d, ow, sv, n + 1, m)
  BY <1>1, <1>2, <1>4, <1>5, <1>7 DEF TypesInv
<1>9. g \in Barriers => g.id <= n /\ g.id \in Nat /\ g.id # n + 1
  BY <1>1, <1>2, BarrierIs DEF RequestInv
<1>10. RequestInv(rs2, a, g, n + 1)
  <2>1. \A k \in {"restore", "exit"} : rs[k].id \in Nat /\ rs[k].id <= n /\ rs2[k] = rs[k]
                                      /\ (rs[k].id = 0 => rs[k] = NoReceipt)
    BY <1>1, <1>2, <1>5 DEF RequestInv, Receipts
  <2>2. \A k \in DOMAIN rs2 : rs2[k].id <= n + 1 /\ (rs2[k].id = 0 => rs2[k] = NoReceipt)
    BY <1>2, <1>5, <1>6, <2>1
  <2> QED
    BY <1>2, <1>4, <1>5, <1>9, <2>2 DEF RequestInv
<1>11. RestoreInv(u, rs2, a, p, g, d)
  BY <1>5 DEF RestoreInv
<1>12. CommandInv(u, rs2, a, p, d, ow)
  <2>1. sv[s] = 0 /\ ~(sv[s] > 0)
    OBVIOUS
  <2>2. ~SomeOf(q, s) /\ ~SomeOf(p, s)
    BY <1>1, <2>1 DEF UsedInv
  <2>3. d[s].turns = << >> /\ d[s].live = << >>
    BY NoFilesIs
  <2> QED
    BY <1>4, <1>5, <1>6, <2>2, <2>3 DEF CommandInv
<1>13. UsedInv(u, rs2, a, p, ow, sv)
  BY <1>1, <1>4, <1>5 DEF UsedInv
<1>14. ExitInv(u, rs2, a, p, g)
  <2>1. rs.exit.id = 0 /\ rs.exit.reply # "ok"
    <3>1. rs.exit.id = 0
      BY <1>1 DEF ExitInv
    <3>2. rs.exit = NoReceipt
      BY <1>1, <1>5, <3>1 DEF RequestInv
    <3> QED
      BY <3>1, <3>2 DEF NoReceipt
  <2>2. \A b \in Barriers : b.id # 0
    BY BarrierIs
  <2> QED
    BY <1>4, <1>5, <2>1, <2>2 DEF ExitInv
<1> QED
  BY <1>4, <1>8, <1>10, <1>11, <1>12, <1>13, <1>14 DEF StorageState, a, w

\* The interface leaves: a flush or the end of the worker is asked for, first
\* with everything committed and a checkpoint under way.
LEMMA ExitAsked ==
  ASSUME NEW u, NEW rs, NEW q, NEW p, NEW g, NEW d, NEW ow, NEW sv, NEW n, NEW m,
         StorageState(u, rs, q, p, g, d, ow, sv, n, m),
         NEW u2 \in Interfaces, u2.session = u.session,
         u2.active = u.active, u2.ordinal = u.ordinal,
         \/ u.phase = "running" /\ u2.phase \in {"saving", "flushing"}
            /\ u.active = << >> /\ SomeSave(q, u.session)
         \/ u.phase \in {"saving", "flushing"} /\ u2.phase \in {"flushing", "stopping"},
         NEW w \in Barriers, w.id = n + 1,
         NEW rs2 \in [restore : {NoReceipt}, command : {rs.command},
                      exit : {Waiting(n + 1, NoSession)}]
  PROVE  StorageState(u2, rs2, Append(q, w), p, g, d, ow, sv, n + 1, m)
<1> DEFINE a == Append(q, w)
<1>1. /\ TypesInv(u, rs, q, p, g, d, ow, sv, n, m) /\ RequestInv(rs, q, g, n)
      /\ CommandInv(u, rs, q, p, d, ow) /\ UsedInv(u, rs, q, p, ow, sv) /\ ExitInv(u, rs, q, p, g)
  BY DEF StorageState
<1>2. /\ rs \in [restore : Receipts, command : Receipts, exit : Receipts] /\ n \in Nat
      /\ n + 1 \in Nat \ {0} /\ n + 1 # 0
  BY <1>1 DEF TypesInv
<1> HIDE DEF a
<1>4. /\ KeptInv(a, p, d, ow) /\ ActiveInv(u, a, p, d, ow)
      /\ OrdinalInv(u, a, p, d) /\ LiveInv(u, a, p, d, ow)
      /\ ShownInv(u, a, p, d, ow, m) /\ CheckpointInv(u, a, p, d, sv)
      /\ \A t : SomeOf(a, t) <=> SomeOf(q, t)
      /\ \A t : SomeSave(a, t) <=> SomeSave(q, t)
      /\ a \in Seq(Writes \cup Barriers)
      /\ Len(a) = Len(q) + 1 /\ Len(q) \in Nat
      /\ \A i \in DOMAIN a : ~IsWrite(a[i]) =>
           /\ a[i].id <= n + 1 /\ a[i].id # 0
           /\ a[i].id = n + 1 => i = Len(q) + 1 /\ a[i] = w
  BY BarrierQueued DEF a
<1>5. /\ rs2.exit = Waiting(n + 1, NoSession) /\ rs2.command = rs.command
      /\ rs2.restore = NoReceipt /\ DOMAIN rs2 = {"restore", "command", "exit"}
      /\ DOMAIN rs = DOMAIN rs2
  BY <1>2
<1>6. /\ rs2.exit.id = n + 1 /\ rs2.exit.reply = "none" /\ rs2.restore.id = 0
  BY <1>5 DEF Waiting, NoReceipt
<1>7. Waiting(n + 1, NoSession) \in Receipts /\ NoReceipt \in Receipts
  BY <1>2, WaitingIs
<1>8. TypesInv(u2, rs2, a, p, g, d, ow, sv, n + 1, m)
  BY <1>1, <1>2, <1>4, <1>7 DEF TypesInv
<1>9. g \in Barriers => g.id <= n /\ g.id \in Nat /\ g.id # n + 1
  BY <1>1, <1>2, BarrierIs DEF RequestInv
<1>10. RequestInv(rs2, a, g, n + 1)
  <2>1. /\ rs.command.id \in Nat /\ rs.command.id <= n
        /\ (rs.command.id = 0 => rs.command = NoReceipt)
    BY <1>1, <1>2, <1>5 DEF RequestInv, Receipts
  <2>2. \A k \in DOMAIN rs2 : rs2[k].id <= n + 1 /\ (rs2[k].id = 0 => rs2[k] = NoReceipt)
    BY <1>2, <1>5, <1>6, <2>1
  <2> QED
    BY <1>2, <1>4, <1>5, <1>6, <1>9, <2>2 DEF RequestInv
<1>11. RestoreInv(u2, rs2, a, p, g, d)
  BY <1>6 DEF RestoreInv
<1>12. CommandInv(u2, rs2, a, p, d, ow)
  BY <1>1, <1>4, <1>5 DEF CommandInv
<1>13. UsedInv(u2, rs2, a, p, ow, sv)
  BY <1>1, <1>4, <1>5, <1>6 DEF UsedInv
<1>14. ExitInv(u2, rs2, a, p, g)
  <2>1. \A i \in DOMAIN a : ~IsWrite(a[i]) /\ a[i].id = rs2.exit.id => i = Len(a)
    BY <1>4, <1>6
  <2> QED
    BY <1>6, <1>9, <2>1 DEF ExitInv
<1>15. ActiveInv(u2, a, p, d, ow)
  <2>1. \A e : ~(e \in Range(<< >>))
    BY DEF Range
  <2> QED
    BY <1>4, <2>1 DEF ActiveInv, Leaving
<1>16. OrdinalInv(u2, a, p, d) /\ LiveInv(u2, a, p, d, ow) /\ ShownInv(u2, a, p, d, ow, m)
  BY <1>4 DEF OrdinalInv, LiveInv, ShownInv
<1>17. CheckpointInv(u2, a, p, d, sv)
  BY <1>4 DEF CheckpointInv, Leaving
<1> QED
  BY <1>4, <1>8, <1>10, <1>11, <1>12, <1>13, <1>14, <1>15, <1>16, <1>17 DEF StorageState, a

\* The interface stays after all, or the process ends.
LEMMA ExitEnds ==
  ASSUME NEW u, NEW rs, NEW q, NEW p, NEW g, NEW d, NEW ow, NEW sv, NEW n, NEW m,
         StorageState(u, rs, q, p, g, d, ow, sv, n, m), u.phase \in Leaving,
         NEW u2 \in Interfaces, u2.session = u.session,
         u2.active = u.active, u2.ordinal = u.ordinal,
         NEW rs2 \in [restore : {NoReceipt}, command : {rs.command, NoReceipt},
                      exit : {NoReceipt}],
         \/ u.phase = "saving" /\ u2.phase = "running"
         \/ /\ u2.phase \in {"failed", "exited"} /\ rs2.command = NoReceipt
            /\ u2.phase = "exited" => rs.exit.reply = "ok"
  PROVE  StorageState(u2, rs2, q, p, g, d, ow, sv, n, m)
<1>1. /\ TypesInv(u, rs, q, p, g, d, ow, sv, n, m) /\ RequestInv(rs, q, g, n)
      /\ CommandInv(u, rs, q, p, d, ow) /\ UsedInv(u, rs, q, p, ow, sv) /\ ExitInv(u, rs, q, p, g)
      /\ KeptInv(q, p, d, ow) /\ ActiveInv(u, q, p, d, ow) /\ OrdinalInv(u, q, p, d)
      /\ LiveInv(u, q, p, d, ow) /\ ShownInv(u, q, p, d, ow, m) /\ CheckpointInv(u, q, p, d, sv)
  BY DEF StorageState
<1>2. /\ rs2.exit = NoReceipt /\ rs2.restore = NoReceipt
      /\ rs2.command = rs.command \/ rs2.command = NoReceipt
      /\ DOMAIN rs2 = {"restore", "command", "exit"} /\ DOMAIN rs = DOMAIN rs2
      /\ rs \in [restore : Receipts, command : Receipts, exit : Receipts] /\ n \in Nat
  BY <1>1 DEF TypesInv
<1>3. NoReceipt.id = 0 /\ NoReceipt.reply = "none"
  BY DEF NoReceipt
<1>4. NoReceipt \in Receipts
  BY <1>2, WaitingIs
<1>5. TypesInv(u2, rs2, q, p, g, d, ow, sv, n, m)
  BY <1>1, <1>2, <1>4 DEF TypesInv
<1>6. RequestInv(rs2, q, g, n)
  BY <1>1, <1>2, <1>3 DEF RequestInv
<1>7. RestoreInv(u2, rs2, q, p, g, d)
  BY <1>2, <1>3 DEF RestoreInv
<1>8. CommandInv(u2, rs2, q, p, d, ow) /\ UsedInv(u2, rs2, q, p, ow, sv)
  BY <1>1, <1>2, <1>3 DEF CommandInv, UsedInv
<1>9. ExitInv(u2, rs2, q, p, g)
  <2>1. \A i \in DOMAIN q : ~IsWrite(q[i]) => q[i].id # 0
    <3>1. \A i \in DOMAIN q : q[i] \in Writes \/ q[i] \in Barriers
      BY <1>1 DEF TypesInv
    <3> QED
      BY <3>1, WriteIs, BarrierIs
  <2>2. \A b \in Barriers : b.id # 0
    BY BarrierIs
  <2> QED
    BY <1>1, <1>2, <1>3, <2>1, <2>2 DEF ExitInv
<1>10. /\ ActiveInv(u2, q, p, d, ow) /\ OrdinalInv(u2, q, p, d) /\ LiveInv(u2, q, p, d, ow)
       /\ ShownInv(u2, q, p, d, ow, m) /\ CheckpointInv(u2, q, p, d, sv)
  BY <1>1 DEF ActiveInv, OrdinalInv, LiveInv, ShownInv, CheckpointInv, Leaving
<1> QED
  BY <1>1, <1>5, <1>6, <1>7, <1>8, <1>9, <1>10 DEF StorageState

\* A receiver is dropped: of a restore that is cancelled, or of an answer that
\* was an error.
LEMMA DropKeeps ==
  ASSUME NEW u, NEW rs, NEW q, NEW p, NEW g, NEW d, NEW ow, NEW sv, NEW n, NEW m,
         StorageState(u, rs, q, p, g, d, ow, sv, n, m),
         NEW rs2 \in [restore : {rs.restore, NoReceipt}, command : {rs.command, NoReceipt},
                      exit : {rs.exit}]
  PROVE  StorageState(u, rs2, q, p, g, d, ow, sv, n, m)
<1>1. /\ TypesInv(u, rs, q, p, g, d, ow, sv, n, m) /\ RequestInv(rs, q, g, n)
      /\ CommandInv(u, rs, q, p, d, ow) /\ UsedInv(u, rs, q, p, ow, sv) /\ ExitInv(u, rs, q, p, g)
      /\ RestoreInv(u, rs, q, p, g, d)
  BY DEF StorageState
<1>2. /\ rs2.exit = rs.exit
      /\ rs2.restore = rs.restore \/ rs2.restore = NoReceipt
      /\ rs2.command = rs.command \/ rs2.command = NoReceipt
      /\ DOMAIN rs2 = {"restore", "command", "exit"} /\ DOMAIN rs = DOMAIN rs2
      /\ rs \in [restore : Receipts, command : Receipts, exit : Receipts] /\ n \in Nat
  BY <1>1 DEF TypesInv
<1>3. NoReceipt.id = 0
  BY DEF NoReceipt
<1>4. NoReceipt \in Receipts
  BY <1>2, WaitingIs
<1>5. TypesInv(u, rs2, q, p, g, d, ow, sv, n, m)
  BY <1>1, <1>2, <1>4 DEF TypesInv
<1>6. RequestInv(rs2, q, g, n)
  BY <1>1, <1>2, <1>3 DEF RequestInv
<1>7. RestoreInv(u, rs2, q, p, g, d)
  <2>1. CASE rs2.restore = rs.restore
    BY <1>1, <2>1 DEF RestoreInv
  <2>2. CASE rs2.restore = NoReceipt
    BY <1>3, <2>2 DEF RestoreInv
  <2> QED
    BY <1>2, <2>1, <2>2
<1>8. CommandInv(u, rs2, q, p, d, ow) /\ UsedInv(u, rs2, q, p, ow, sv)
  BY <1>1, <1>2, <1>3 DEF CommandInv, UsedInv
<1>9. ExitInv(u, rs2, q, p, g)
  BY <1>1, <1>2, <1>3 DEF ExitInv
<1> QED
  BY <1>5, <1>6, <1>7, <1>8, <1>9 DEF StorageState

\* The interface goes on in another thread: the one that was restored, or the
\* one that was created.
LEMMA AdoptKeeps ==
  ASSUME NEW u, NEW rs, NEW q, NEW p, NEW g, NEW d, NEW ow, NEW sv, NEW n, NEW m,
         StorageState(u, rs, q, p, g, d, ow, sv, n, m), u.phase = "running",
         rs.restore.id > 0 \/ rs.command.id > 0,
         NEW u2 \in Interfaces, u2.phase = "running",
         NEW s \in Sessions, u2.session = s, s # u.session, ~SomeOf(q, s), ~SomeOf(p, s),
         u2.active = d[s].live,
         \A o \in DOMAIN d[s].turns : o < u2.ordinal,
         NEW rs2 \in [restore : {NoReceipt}, command : {NoReceipt}, exit : {rs.exit}]
  PROVE  StorageState(u2, rs2, q, p, g, d, ow, sv, n, m)
<1>1. /\ TypesInv(u, rs, q, p, g, d, ow, sv, n, m) /\ RequestInv(rs, q, g, n)
      /\ UsedInv(u, rs, q, p, ow, sv) /\ ExitInv(u, rs, q, p, g)
      /\ KeptInv(q, p, d, ow) /\ OrdinalInv(u, q, p, d)
      /\ LiveInv(u, q, p, d, ow) /\ ShownInv(u, q, p, d, ow, m) /\ CheckpointInv(u, q, p, d, sv)
  BY DEF StorageState
<1>2. /\ rs2.exit = rs.exit /\ rs2.restore = NoReceipt /\ rs2.command = NoReceipt
      /\ DOMAIN rs2 = {"restore", "command", "exit"} /\ DOMAIN rs = DOMAIN rs2
      /\ rs \in [restore : Receipts, command : Receipts, exit : Receipts] /\ n \in Nat
  BY <1>1 DEF TypesInv
<1>3. NoReceipt.id = 0 /\ NoReceipt \in Receipts
  BY <1>2, WaitingIs DEF NoReceipt
<1>4. /\ \A e : ~InWrite(q, s, e) /\ ~InWrite(p, s, e)
      /\ \A i \in DOMAIN q : ~Commits(q[i], s) /\ ~Cuts(q[i], s)
      /\ \A i \in DOMAIN p : ~Commits(p[i], s) /\ ~Cuts(p[i], s)
      /\ \A e : \A i \in DOMAIN q : ~Adds(q[i], s, e)
      /\ \A e : \A i \in DOMAIN p : ~Adds(p[i], s, e)
  BY DEF SomeOf, Of, InWrite, Holds, Commits, Cuts, Adds, IsWrite
<1>5. TypesInv(u2, rs2, q, p, g, d, ow, sv, n, m)
  BY <1>1, <1>2, <1>3 DEF TypesInv
<1>6. ActiveInv(u2, q, p, d, ow)
  BY <1>1, <1>4 DEF ActiveInv, KeptInv, Turned, Leaving
<1>7. OrdinalInv(u2, q, p, d)
  BY <1>1, <1>4 DEF OrdinalInv, Below
<1>8. LiveInv(u2, q, p, d, ow)
  <2>1. \A e : FinallyLive(q, p, d, s, e) <=> e \in Range(u2.active)
    <3> SUFFICES ASSUME NEW e
                 PROVE  FinallyLive(q, p, d, s, e) <=> e \in Range(d[s].live)
      OBVIOUS
    <3> QED
      BY <1>4, Zenon DEF FinallyLive, LiveAfter
  <2> QED
    BY <1>1, <2>1 DEF LiveInv
<1>9. ShownInv(u2, q, p, d, ow, m)
  <2>1. \A i \in DOMAIN u2.active : u2.active[i] \in Nat /\ u2.active[i] \in Range(d[s].live)
    <3>1. u2.active \in Seq(Nat)
      BY DEF Interfaces
    <3> QED
      BY <3>1 DEF Range
  <2> QED
    BY <1>1, <2>1 DEF ShownInv
<1>10. /\ RequestInv(rs2, q, g, n) /\ RestoreInv(u2, rs2, q, p, g, d)
       /\ CommandInv(u2, rs2, q, p, d, ow)
  BY <1>1, <1>2, <1>3 DEF RequestInv, RestoreInv, CommandInv
<1>11. UsedInv(u2, rs2, q, p, ow, sv)
  BY <1>1, <1>2, <1>3 DEF UsedInv
<1>12. CheckpointInv(u2, q, p, d, sv) /\ ExitInv(u2, rs2, q, p, g)
  BY <1>1, <1>2, <1>3 DEF CheckpointInv, ExitInv, Leaving
<1> QED
  BY <1>1, <1>5, <1>6, <1>7, <1>8, <1>9, <1>10, <1>11, <1>12 DEF StorageState

-----------------------------------------------------------------------------
(* The steps of the worker.                                                *)

\* Two sequences of entries joined hold the entries of both.
LEMMA JoinedIs ==
  ASSUME NEW a \in Seq(Nat), NEW b \in Seq(Nat)
  PROVE  /\ a \o b \in Seq(Nat)
         /\ \A e : e \in Range(a \o b) <=> e \in Range(a) \/ e \in Range(b)
<1> DEFINE c == a \o b
<1>1. /\ c \in Seq(Nat)
      /\ Len(a) \in Nat /\ Len(b) \in Nat /\ Len(c) = Len(a) + Len(b)
      /\ DOMAIN a = 1..Len(a) /\ DOMAIN b = 1..Len(b) /\ DOMAIN c = 1..Len(c)
      /\ \A i \in 1..Len(c) : c[i] = IF i <= Len(a) THEN a[i] ELSE b[i - Len(a)]
  OBVIOUS
<1> HIDE DEF c
<1>2. \A i \in DOMAIN a : i \in DOMAIN c /\ c[i] = a[i]
  BY <1>1
<1>3. ASSUME NEW i \in DOMAIN b PROVE Len(a) + i \in DOMAIN c /\ c[Len(a) + i] = b[i]
  <2>1. /\ Len(a) + i \in 1..Len(c) /\ ~(Len(a) + i <= Len(a)) /\ Len(a) + i - Len(a) = i
    BY <1>1, SMTT(30)
  <2> QED
    BY <1>1, <2>1
<1>4. \A i \in DOMAIN c : \/ i \in DOMAIN a /\ c[i] = a[i]
                          \/ i - Len(a) \in DOMAIN b /\ c[i] = b[i - Len(a)]
  BY <1>1
<1>5. \A e : e \in Range(c) <=> e \in Range(a) \/ e \in Range(b)
  BY <1>2, <1>3, <1>4 DEF Range
<1> QED
  BY <1>1, <1>5 DEF c

\* The first lines of a write are lines of it.
LEMMA PrefixIs ==
  ASSUME NEW a \in Seq(Nat), NEW k \in 0..Len(a)
  PROVE  SubSeq(a, 1, k) \in Seq(Nat) /\ Range(SubSeq(a, 1, k)) \subseteq Range(a)
<1> DEFINE c == SubSeq(a, 1, k)
<1>1. /\ c \in Seq(Nat) /\ DOMAIN c = 1..k /\ DOMAIN a = 1..Len(a) /\ Len(a) \in Nat
      /\ \A i \in 1..k : c[i] = a[i]
  OBVIOUS
<1> HIDE DEF c
<1>2. \A i \in DOMAIN c : i \in DOMAIN a /\ c[i] = a[i]
  BY <1>1
<1>3. Range(c) \subseteq Range(a)
  BY <1>2 DEF Range
<1> QED
  BY <1>1, <1>3 DEF c

\* A write that is joined with the last pending one does what both do.
LEMMA MergeIs ==
  ASSUME NEW v \in Writes, NEW w \in Writes, CanMerge(v, w),
         NEW x, x = Merge(v, w)
  PROVE  /\ x \in Writes
         /\ \A s : /\ Of(x, s) <=> Of(w, s)
                   /\ Of(v, s) <=> Of(w, s)
                   /\ Saves(x, s) <=> Saves(w, s)
                   /\ Saves(v, s) <=> Saves(w, s)
                   /\ Saves(w, s) => x.version = w.version
                   /\ ~Commits(x, s) /\ ~Commits(v, s) /\ ~Commits(w, s)
                   /\ ~Cuts(x, s) /\ ~Cuts(v, s) /\ ~Cuts(w, s)
         /\ \A s, e : /\ Holds(x, s, e) <=> Holds(v, s, e) \/ Holds(w, s, e)
                      /\ Adds(x, s, e) <=> Adds(v, s, e) \/ Adds(w, s, e)
                      /\ ~Turns(x, s, e) /\ ~Turns(v, s, e) /\ ~Turns(w, s, e)
<1>1. /\ v.op = w.op /\ v.session = w.session /\ w.op \in {"Runtime", "AppendLive"}
      /\ w.session \in Sessions
  BY WriteIs DEF CanMerge
<1>2. CASE w.op = "Runtime"
  <2>1. x = w
    BY <1>2 DEF Merge
  <2> QED
    BY <1>1, <1>2, <2>1
    DEF IsWrite, Of, Saves, Commits, Cuts, Holds, Turns, Adds, EntriesOf
<1>3. CASE w.op = "AppendLive"
  <2>1. /\ v.entries \in Seq(Nat) /\ w.entries \in Seq(Nat)
    BY <1>1, <1>3, WriteIs
  <2>2. PICK es \in Seq(Nat) : es = v.entries \o w.entries
    BY <2>1, JoinedIs
  <2>3. \A e : e \in Range(es) <=> e \in Range(v.entries) \/ e \in Range(w.entries)
    BY <2>1, <2>2, JoinedIs
  <2>4. x = AppendLive(w.session, es)
    BY <1>3, <2>2 DEF Merge
  <2>5. /\ x \in Writes /\ IsWrite(x) /\ x.session = w.session /\ x.entries = es
        /\ x.op = "AppendLive"
        /\ \A s : /\ Of(x, s) <=> s = w.session
                  /\ ~Saves(x, s) /\ ~Commits(x, s)
                  /\ Cuts(x, s) <=> s = w.session /\ x.op = "ReplaceLive"
        /\ \A s, e : /\ Holds(x, s, e) <=> s = w.session /\ e \in Range(es)
                     /\ Adds(x, s, e) <=> s = w.session /\ e \in Range(es)
                     /\ ~Turns(x, s, e)
    <3>1. x.op = "AppendLive"
      BY <2>4 DEF AppendLive
    <3> QED
      BY <1>1, <2>4, <3>1, LiveIs
  <2> QED
    BY <1>1, <1>3, <2>3, <2>5
    DEF IsWrite, Of, Saves, Commits, Cuts, Holds, Turns, Adds, EntriesOf
<1> QED
  BY <1>1, <1>2, <1>3

\* What is pending after a write was taken, joined with the last one or not.
LEMMA TakenIs ==
  ASSUME NEW p \in Seq(Writes), NEW w \in Writes, NEW p2,
         \/ p2 = Append(p, w)
         \/ p # << >> /\ CanMerge(Last(p), w) /\ p2 = Append(Front(p), Merge(Last(p), w))
  PROVE  /\ p2 \in Seq(Writes)
         /\ \A s : SomeOf(p2, s) <=> SomeOf(p, s) \/ Of(w, s)
         /\ \A s, e : InWrite(p2, s, e) <=> InWrite(p, s, e) \/ Holds(w, s, e)
         /\ \A s, e : InTurn(p2, s, e) <=> InTurn(p, s, e) \/ Turns(w, s, e)
         /\ \A s, e : Survives(p2, s, e) <=>
              \/ Holds(w, s, e)
              \/ Survives(p, s, e) /\ (Cuts(w, s) => InTurn(p, s, e))
         /\ \A s, e, b : LiveAfter(p2, s, e, b) <=>
              Adds(w, s, e) \/ (LiveAfter(p, s, e, b) /\ ~Cuts(w, s))
         /\ \A s : SomeSave(p2, s) <=> SomeSave(p, s) \/ Saves(w, s)
         /\ \A s, v : LastSave(p2, s, v) <=>
              IF Saves(w, s) THEN w.version = v ELSE LastSave(p, s, v)
         /\ \A s : Ordered(p2, s) <=>
              Ordered(p, s) /\ (Commits(w, s) => Below(p, s, w.ordinal))
         /\ \A s, n : Below(p2, s, n) <=>
              Below(p, s, n) /\ (Commits(w, s) => w.ordinal < n)
         /\ \A s, o, es : Beyond(p, s, o, es) /\ (Commits(w, s) => o < w.ordinal) =>
              Beyond(p2, s, o, es)
         /\ \A s : \A i \in DOMAIN p2 : Commits(p2[i], s) =>
              p2[i] = w \/ \E j \in DOMAIN p : p[j] = p2[i]
<1>1. CASE p2 = Append(p, w)
  <2>1. p2 \in Seq(Writes) /\ DOMAIN p2 = DOMAIN p \cup {Len(p) + 1} /\ p2[Len(p) + 1] = w
        /\ \A i \in DOMAIN p : p2[i] = p[i]
    BY <1>1
  <2>2. \A s, o, es : Beyond(p, s, o, es) /\ (Commits(w, s) => o < w.ordinal) =>
              Beyond(p2, s, o, es)
    BY <1>1, AppendedIs
  <2> QED
    BY <1>1, <2>1, <2>2, AppendedIs
<1>2. CASE p # << >> /\ CanMerge(Last(p), w) /\ p2 = Append(Front(p), Merge(Last(p), w))
  <2>1. PICK f \in Seq(Writes), v \in Writes : f = Front(p) /\ v = Last(p) /\ p = Append(f, v)
    <3>1. Front(p) \in Seq(Writes) /\ Last(p) \in Writes /\ p = Append(Front(p), Last(p))
      <4>1. Len(p) \in Nat /\ Len(p) >= 1 /\ Len(p) \in DOMAIN p
        BY <1>2
      <4> QED
        BY <4>1 DEF Front, Last
    <3> QED
      BY <3>1
  <2>2. PICK x : x = Merge(v, w)
    OBVIOUS
  <2>3. CanMerge(v, w) /\ p2 = Append(f, x)
    BY <1>2, <2>1, <2>2
  <2>4. /\ x \in Writes
        /\ \A s : /\ Of(x, s) <=> Of(w, s)
                  /\ Of(v, s) <=> Of(w, s)
                  /\ Saves(x, s) <=> Saves(w, s)
                  /\ Saves(v, s) <=> Saves(w, s)
                  /\ Saves(w, s) => x.version = w.version
                  /\ ~Commits(x, s) /\ ~Commits(v, s) /\ ~Commits(w, s)
                  /\ ~Cuts(x, s) /\ ~Cuts(v, s) /\ ~Cuts(w, s)
        /\ \A s, e : /\ Holds(x, s, e) <=> Holds(v, s, e) \/ Holds(w, s, e)
                     /\ Adds(x, s, e) <=> Adds(v, s, e) \/ Adds(w, s, e)
                     /\ ~Turns(x, s, e) /\ ~Turns(v, s, e) /\ ~Turns(w, s, e)
    BY <2>2, <2>3, MergeIs
  <2>5. /\ p2 \in Seq(Writes) /\ p = Append(f, v)
        /\ DOMAIN p2 = DOMAIN f \cup {Len(f) + 1} /\ DOMAIN p = DOMAIN f \cup {Len(f) + 1}
        /\ p2[Len(f) + 1] = x
        /\ \A i \in DOMAIN f : p2[i] = f[i] /\ p[i] = f[i]
    BY <2>1, <2>3, <2>4
  <2>6. \A s : SomeOf(p2, s) <=> SomeOf(p, s) \/ Of(w, s)
    BY <2>3, <2>4, <2>5, AppendedIs
  <2>7. \A s, e : /\ InWrite(p2, s, e) <=> InWrite(p, s, e) \/ Holds(w, s, e)
                  /\ InTurn(p2, s, e) <=> InTurn(p, s, e) \/ Turns(w, s, e)
                  /\ Survives(p2, s, e) <=>
                       \/ Holds(w, s, e)
                       \/ Survives(p, s, e) /\ (Cuts(w, s) => InTurn(p, s, e))
    BY <2>3, <2>4, <2>5, AppendedIs
  <2>8. \A s, e, b : LiveAfter(p2, s, e, b) <=>
              Adds(w, s, e) \/ (LiveAfter(p, s, e, b) /\ ~Cuts(w, s))
    BY <2>3, <2>4, <2>5, AppendedIs
  <2>9. /\ \A s : SomeSave(p2, s) <=> SomeSave(p, s) \/ Saves(w, s)
        /\ \A s, k : LastSave(p2, s, k) <=>
              IF Saves(w, s) THEN w.version = k ELSE LastSave(p, s, k)
    BY <2>3, <2>4, <2>5, AppendedIs
  <2>10. /\ \A s : Ordered(p2, s) <=> Ordered(p, s) /\ (Commits(w, s) => Below(p, s, w.ordinal))
         /\ \A s, n : Below(p2, s, n) <=> Below(p, s, n) /\ (Commits(w, s) => w.ordinal < n)
         /\ \A s, o, es : Beyond(p, s, o, es) /\ (Commits(w, s) => o < w.ordinal) =>
              Beyond(p2, s, o, es)
    BY <2>3, <2>4, <2>5, AppendedIs
  <2>11. \A s : \A i \in DOMAIN p2 : Commits(p2[i], s) =>
              p2[i] = w \/ \E j \in DOMAIN p : p[j] = p2[i]
    BY <2>4, <2>5
  <2> QED
    BY <2>5, <2>6, <2>7, <2>8, <2>9, <2>10, <2>11
<1> QED
  BY <1>1, <1>2

\* The requests behind the first one are one place nearer.
LEMMA Nearer ==
  ASSUME NEW S, NEW q \in Seq(S), q # << >>, NEW t, t = Tail(q)
  PROVE  /\ Len(q) \in Nat /\ Len(t) = Len(q) - 1 /\ 1 \in DOMAIN q /\ q[1] = Head(q)
         /\ \A i \in DOMAIN t : i + 1 \in DOMAIN q /\ t[i] = q[i + 1] /\ i \in Nat
         /\ \A i \in DOMAIN t : \A j \in (i + 1)..Len(t) :
              j + 1 \in (i + 1 + 1)..Len(q) /\ t[j] = q[j + 1]
         /\ \A j \in DOMAIN t : j + 1 \in (1 + 1)..Len(q)
<1>1. /\ Len(q) \in Nat /\ Len(q) >= 1 /\ DOMAIN q = 1..Len(q)
      /\ t \in Seq(S) /\ Len(t) = Len(q) - 1 /\ DOMAIN t = 1..(Len(q) - 1)
      /\ \A i \in 1..(Len(q) - 1) : t[i] = q[i + 1]
      /\ q[1] = Head(q)
  OBVIOUS
<1>2. \A i \in DOMAIN t : i + 1 \in DOMAIN q /\ t[i] = q[i + 1] /\ i \in Nat
  BY <1>1
<1>3. \A i \in DOMAIN t : \A j \in (i + 1)..Len(t) :
         j + 1 \in (i + 1 + 1)..Len(q) /\ j \in DOMAIN t
  BY <1>1
<1>4. \A j \in DOMAIN t : j + 1 \in (1 + 1)..Len(q)
  BY <1>1
<1> QED
  BY <1>1, <1>2, <1>3, <1>4

\* The worker takes a write from its channel.
LEMMA WriteTaken ==
  ASSUME NEW u, NEW rs, NEW q, NEW p, NEW g, NEW d, NEW ow, NEW sv, NEW n, NEW m,
         StorageState(u, rs, q, p, g, d, ow, sv, n, m), g \notin Barriers,
         q # << >>, NEW w, w = Head(q), IsWrite(w), NEW t, t = Tail(q),
         NEW p2,
         \/ p2 = Append(p, w)
         \/ p # << >> /\ CanMerge(Last(p), w) /\ p2 = Append(Front(p), Merge(Last(p), w))
  PROVE  StorageState(u, rs, t, p2, g, d, ow, sv, n, m)
<1>1. /\ TypesInv(u, rs, q, p, g, d, ow, sv, n, m) /\ RequestInv(rs, q, g, n)
      /\ CommandInv(u, rs, q, p, d, ow) /\ UsedInv(u, rs, q, p, ow, sv) /\ ExitInv(u, rs, q, p, g)
      /\ RestoreInv(u, rs, q, p, g, d)
      /\ KeptInv(q, p, d, ow) /\ ActiveInv(u, q, p, d, ow) /\ OrdinalInv(u, q, p, d)
      /\ LiveInv(u, q, p, d, ow) /\ ShownInv(u, q, p, d, ow, m) /\ CheckpointInv(u, q, p, d, sv)
  BY DEF StorageState
<1>2. q \in Seq(Requests) /\ p \in Seq(Writes)
  BY <1>1 DEF TypesInv, Requests
<1>3. w \in Writes
  <2>1. w \in Requests
    BY <1>2
  <2> QED
    BY <2>1, BarrierIs DEF Requests
<1>4. /\ t \in Seq(Requests)
      /\ \A s : SomeOf(q, s) <=> Of(w, s) \/ SomeOf(t, s)
      /\ \A s, e : InWrite(q, s, e) <=> Holds(w, s, e) \/ InWrite(t, s, e)
      /\ \A s, e : InTurn(q, s, e) <=> Turns(w, s, e) \/ InTurn(t, s, e)
      /\ \A s, e : Survives(q, s, e) =>
           /\ Turns(w, s, e) \/ Survives(t, s, e)
           /\ Cuts(w, s) => Holds(w, s, e) \/ InWrite(t, s, e)
      /\ \A s, e, b : LiveAfter(q, s, e, b) <=>
           LiveAfter(t, s, e, Adds(w, s, e) \/ (b /\ ~Cuts(w, s)))
      /\ \A s : SomeSave(q, s) <=> Saves(w, s) \/ SomeSave(t, s)
      /\ \A s, v : LastSave(q, s, v) =>
           LastSave(t, s, v) /\ (Saves(w, s) /\ ~SomeSave(t, s) => w.version = v)
      /\ \A s : Ordered(q, s) =>
           Ordered(t, s) /\ (Commits(w, s) => Above(t, s, w.ordinal))
      /\ \A s, k : Below(q, s, k) <=> Below(t, s, k) /\ (Commits(w, s) => w.ordinal < k)
      /\ \A s, k : Above(q, s, k) <=> Above(t, s, k) /\ (Commits(w, s) => k < w.ordinal)
  BY <1>2, TailIs
<1>5. /\ p2 \in Seq(Writes)
      /\ \A s : SomeOf(p2, s) <=> SomeOf(p, s) \/ Of(w, s)
      /\ \A s, e : InWrite(p2, s, e) <=> InWrite(p, s, e) \/ Holds(w, s, e)
      /\ \A s, e : InTurn(p2, s, e) <=> InTurn(p, s, e) \/ Turns(w, s, e)
      /\ \A s, e : Survives(p2, s, e) <=>
           \/ Holds(w, s, e)
           \/ Survives(p, s, e) /\ (Cuts(w, s) => InTurn(p, s, e))
      /\ \A s, e, b : LiveAfter(p2, s, e, b) <=>
           Adds(w, s, e) \/ (LiveAfter(p, s, e, b) /\ ~Cuts(w, s))
      /\ \A s : SomeSave(p2, s) <=> SomeSave(p, s) \/ Saves(w, s)
      /\ \A s, v : LastSave(p2, s, v) <=>
           IF Saves(w, s) THEN w.version = v ELSE LastSave(p, s, v)
      /\ \A s : Ordered(p2, s) <=>
           Ordered(p, s) /\ (Commits(w, s) => Below(p, s, w.ordinal))
      /\ \A s, k : Below(p2, s, k) <=> Below(p, s, k) /\ (Commits(w, s) => w.ordinal < k)
      /\ \A s, o, es : Beyond(p, s, o, es) /\ (Commits(w, s) => o < w.ordinal) =>
           Beyond(p2, s, o, es)
      /\ \A s : \A i \in DOMAIN p2 : Commits(p2[i], s) =>
           p2[i] = w \/ \E j \in DOMAIN p : p[j] = p2[i]
  BY <1>2, <1>3, TakenIs
<1>6. /\ Len(q) \in Nat /\ Len(t) = Len(q) - 1
      /\ \A i \in DOMAIN t : i + 1 \in DOMAIN q /\ t[i] = q[i + 1] /\ i \in Nat
      /\ \A i \in DOMAIN t : \A j \in (i + 1)..Len(t) :
           j + 1 \in (i + 1 + 1)..Len(q) /\ t[j] = q[j + 1]
  BY <1>2, Nearer
<1>7. TypesInv(u, rs, t, p2, g, d, ow, sv, n, m)
  BY <1>1, <1>4, <1>5 DEF TypesInv, Requests
<1>8. KeptInv(t, p2, d, ow)
  <2> SUFFICES ASSUME NEW s \in Sessions, NEW e \in ow[s]
               PROVE  /\ \/ Stored(d, s, e) \/ e \in Range(d[s].live)
                         \/ InWrite(p2, s, e) \/ InWrite(t, s, e)
                      /\ Stored(d, s, e) \/ InWrite(t, s, e) \/ Survives(p2, s, e)
                      /\ Stored(d, s, e) \/ InTurn(p2, s, e) \/ Survives(t, s, e)
    BY DEF KeptInv
  <2>1. /\ \/ Stored(d, s, e) \/ e \in Range(d[s].live)
           \/ InWrite(p, s, e) \/ InWrite(q, s, e)
        /\ Stored(d, s, e) \/ InWrite(q, s, e) \/ Survives(p, s, e)
        /\ Stored(d, s, e) \/ InTurn(p, s, e) \/ Survives(q, s, e)
    BY <1>1 DEF KeptInv
  <2> QED
    BY <1>4, <1>5, <2>1
<1>9. ActiveInv(u, t, p2, d, ow)
  BY <1>1, <1>4, <1>5 DEF ActiveInv, Turned
<1>10. OrdinalInv(u, t, p2, d)
  <2>1. ASSUME NEW s \in Sessions
        PROVE  /\ Ordered(p2, s) /\ Ordered(t, s)
               /\ \A i \in DOMAIN p2 : Commits(p2[i], s) => Above(t, s, p2[i].ordinal)
               /\ \A o \in DOMAIN d[s].turns :
                    Above(t, s, o) /\ Beyond(p2, s, o, d[s].turns[o])
    <3>1. /\ Ordered(p, s) /\ Ordered(q, s)
          /\ \A i \in DOMAIN p : Commits(p[i], s) => Above(q, s, p[i].ordinal)
          /\ \A o \in DOMAIN d[s].turns :
               Above(q, s, o) /\ Beyond(p, s, o, d[s].turns[o])
      BY <1>1 DEF OrdinalInv
    <3>2. Commits(w, s) => Below(p, s, w.ordinal)
      BY <1>4, <3>1 DEF Below
    <3> QED
      BY <1>4, <1>5, <3>1, <3>2
  <2> QED
    BY <1>1, <1>4, <1>5, <2>1 DEF OrdinalInv
<1>11. LiveInv(u, t, p2, d, ow)
  <2>1. ASSUME NEW s, NEW e
        PROVE  FinallyLive(t, p2, d, s, e) <=> FinallyLive(q, p, d, s, e)
    <3>1. LiveAfter(p2, s, e, e \in Range(d[s].live)) <=>
            (Adds(w, s, e) \/ (LiveAfter(p, s, e, e \in Range(d[s].live)) /\ ~Cuts(w, s)))
      BY <1>5
    <3>2. LiveAfter(q, s, e, LiveAfter(p, s, e, e \in Range(d[s].live))) <=>
            LiveAfter(t, s, e,
              Adds(w, s, e) \/ (LiveAfter(p, s, e, e \in Range(d[s].live)) /\ ~Cuts(w, s)))
      BY <1>4, Zenon
    <3>3. LiveAfter(t, s, e, LiveAfter(p2, s, e, e \in Range(d[s].live))) <=>
            LiveAfter(t, s, e,
              Adds(w, s, e) \/ (LiveAfter(p, s, e, e \in Range(d[s].live)) /\ ~Cuts(w, s)))
      <4> DEFINE b == LiveAfter(p2, s, e, e \in Range(d[s].live))
                 c == Adds(w, s, e) \/ (LiveAfter(p, s, e, e \in Range(d[s].live)) /\ ~Cuts(w, s))
      <4>1. b <=> c
        BY <3>1
      <4> HIDE DEF b, c
      <4>2. LiveAfter(t, s, e, b) <=> LiveAfter(t, s, e, c)
        BY <4>1, Zenon DEF LiveAfter
      <4> QED
        BY <4>2 DEF b, c
    <3> QED
      BY <3>2, <3>3, Zenon DEF FinallyLive
  <2> QED
    BY <1>1, <2>1 DEF LiveInv
<1>12. ShownInv(u, t, p2, d, ow, m)
  BY <1>1, <1>4, <1>5 DEF ShownInv
<1>13. RequestInv(rs, t, g, n)
  BY <1>1, <1>6 DEF RequestInv
<1>14. RestoreInv(u, rs, t, p2, g, d)
  <2> SUFFICES ASSUME rs.restore.id > 0
               PROVE  RestoreInv(u, rs, t, p2, g, d)
    BY DEF RestoreInv
  <2> DEFINE r == rs.restore
  <2>1. /\ r.session \in Sessions /\ r.session # u.session
        /\ \A i \in DOMAIN q : ~IsWrite(q[i]) /\ q[i].id = r.id =>
             /\ q[i].op = "Read" /\ q[i].session = r.session
             /\ \A j \in (i + 1)..Len(q) : ~Of(q[j], r.session)
        /\ r.reply = "ok" =>
             /\ ~SomeOf(q, r.session) /\ ~SomeOf(p, r.session)
             /\ r.files.turns = d[r.session].turns /\ r.files.live = d[r.session].live
    BY <1>1 DEF RestoreInv
  <2>2. ASSUME NEW i \in DOMAIN t, ~IsWrite(t[i]), t[i].id = r.id
        PROVE  /\ t[i].op = "Read" /\ t[i].session = r.session
               /\ \A j \in (i + 1)..Len(t) : ~Of(t[j], r.session)
    BY <1>6, <2>1, <2>2
  <2> QED
    BY <1>4, <1>5, <2>1, <2>2 DEF RestoreInv
<1>15. CommandInv(u, rs, t, p2, d, ow) /\ UsedInv(u, rs, t, p2, ow, sv)
  BY <1>1, <1>4, <1>5 DEF CommandInv, UsedInv
<1>16. CheckpointInv(u, t, p2, d, sv)
  BY <1>1, <1>4, <1>5 DEF CheckpointInv
<1>17. ExitInv(u, rs, t, p2, g)
  <2>1. ASSUME NEW i \in DOMAIN t, ~IsWrite(t[i]), t[i].id = rs.exit.id
        PROVE  i = Len(t)
    <3>1. i + 1 = Len(q)
      BY <1>1, <1>6, <2>1 DEF ExitInv
    <3> QED
      BY <1>6, <3>1
  <2> QED
    BY <1>1, <2>1 DEF ExitInv
<1> QED
  BY <1>7, <1>8, <1>9, <1>10, <1>11, <1>12, <1>13, <1>14, <1>15, <1>16, <1>17 DEF StorageState

\* The worker takes a request that is no write from its channel.
LEMMA BarrierTaken ==
  ASSUME NEW u, NEW rs, NEW q, NEW p, NEW g, NEW d, NEW ow, NEW sv, NEW n, NEW m,
         StorageState(u, rs, q, p, g, d, ow, sv, n, m),
         q # << >>, NEW w, w = Head(q), ~IsWrite(w), NEW t, t = Tail(q)
  PROVE  StorageState(u, rs, t, p, w, d, ow, sv, n, m)
<1>1. /\ TypesInv(u, rs, q, p, g, d, ow, sv, n, m) /\ RequestInv(rs, q, g, n)
      /\ CommandInv(u, rs, q, p, d, ow) /\ UsedInv(u, rs, q, p, ow, sv) /\ ExitInv(u, rs, q, p, g)
      /\ RestoreInv(u, rs, q, p, g, d)
      /\ KeptInv(q, p, d, ow) /\ ActiveInv(u, q, p, d, ow) /\ OrdinalInv(u, q, p, d)
      /\ LiveInv(u, q, p, d, ow) /\ ShownInv(u, q, p, d, ow, m) /\ CheckpointInv(u, q, p, d, sv)
  BY DEF StorageState
<1>2. q \in Seq(Requests) /\ p \in Seq(Writes)
  BY <1>1 DEF TypesInv, Requests
<1>3. w \in Barriers
  <2>1. w \in Requests
    BY <1>2
  <2> QED
    BY <2>1, WriteIs DEF Requests
<1>4. /\ \A s : ~Of(w, s) /\ ~Saves(w, s) /\ ~Commits(w, s) /\ ~Cuts(w, s)
      /\ \A s, e : ~Holds(w, s, e) /\ ~Turns(w, s, e) /\ ~Adds(w, s, e)
  BY <1>3, BarrierIs
<1>5. /\ t \in Seq(Requests)
      /\ \A s : SomeOf(q, s) <=> SomeOf(t, s)
      /\ \A s, e : InWrite(q, s, e) <=> InWrite(t, s, e)
      /\ \A s, e : InTurn(q, s, e) <=> InTurn(t, s, e)
      /\ \A s, e : Survives(q, s, e) => Survives(t, s, e)
      /\ \A s, e, b : LiveAfter(q, s, e, b) <=>
           LiveAfter(t, s, e, Adds(w, s, e) \/ (b /\ ~Cuts(w, s)))
      /\ \A s : SomeSave(q, s) <=> SomeSave(t, s)
      /\ \A s, v : LastSave(q, s, v) => LastSave(t, s, v)
      /\ \A s : Ordered(q, s) => Ordered(t, s)
      /\ \A s, k : Below(q, s, k) <=> Below(t, s, k)
      /\ \A s, k : Above(q, s, k) <=> Above(t, s, k)
  BY <1>2, <1>4, TailIs
<1>6. /\ Len(q) \in Nat /\ Len(t) = Len(q) - 1 /\ 1 \in DOMAIN q /\ q[1] = w
      /\ \A i \in DOMAIN t : i + 1 \in DOMAIN q /\ t[i] = q[i + 1] /\ i \in Nat
      /\ \A i \in DOMAIN t : \A j \in (i + 1)..Len(t) :
           j + 1 \in (i + 1 + 1)..Len(q) /\ t[j] = q[j + 1]
      /\ \A j \in DOMAIN t : j + 1 \in (1 + 1)..Len(q)
  BY <1>2, Nearer
<1>7. TypesInv(u, rs, t, p, w, d, ow, sv, n, m)
  BY <1>1, <1>3, <1>5 DEF TypesInv, Requests
<1>8. KeptInv(t, p, d, ow) /\ ActiveInv(u, t, p, d, ow)
  BY <1>1, <1>5 DEF KeptInv, ActiveInv, Turned
<1>10. OrdinalInv(u, t, p, d)
  BY <1>1, <1>5 DEF OrdinalInv
<1>11. LiveInv(u, t, p, d, ow)
  <2>1. ASSUME NEW s, NEW e
        PROVE  FinallyLive(t, p, d, s, e) <=> FinallyLive(q, p, d, s, e)
    <3>1. LiveAfter(p, s, e, e \in Range(d[s].live)) <=>
            (Adds(w, s, e) \/ (LiveAfter(p, s, e, e \in Range(d[s].live)) /\ ~Cuts(w, s)))
      BY <1>4
    <3>2. LiveAfter(q, s, e, LiveAfter(p, s, e, e \in Range(d[s].live))) <=>
            LiveAfter(t, s, e,
              Adds(w, s, e) \/ (LiveAfter(p, s, e, e \in Range(d[s].live)) /\ ~Cuts(w, s)))
      BY <1>5, Zenon
    <3>3. LiveAfter(t, s, e, LiveAfter(p, s, e, e \in Range(d[s].live))) <=>
            LiveAfter(t, s, e,
              Adds(w, s, e) \/ (LiveAfter(p, s, e, e \in Range(d[s].live)) /\ ~Cuts(w, s)))
      <4> DEFINE b == LiveAfter(p, s, e, e \in Range(d[s].live))
                 c == Adds(w, s, e) \/ (LiveAfter(p, s, e, e \in Range(d[s].live)) /\ ~Cuts(w, s))
      <4>1. b <=> c
        BY <3>1
      <4> HIDE DEF b, c
      <4>2. LiveAfter(t, s, e, b) <=> LiveAfter(t, s, e, c)
        BY <4>1, Zenon DEF LiveAfter
      <4> QED
        BY <4>2 DEF b, c
    <3> QED
      BY <3>2, <3>3, Zenon DEF FinallyLive
  <2> QED
    BY <1>1, <2>1 DEF LiveInv
<1>12. ShownInv(u, t, p, d, ow, m)
  BY <1>1, <1>5 DEF ShownInv
<1>13. RequestInv(rs, t, w, n)
  BY <1>1, <1>6 DEF RequestInv
<1>14. RestoreInv(u, rs, t, p, w, d)
  <2> SUFFICES ASSUME rs.restore.id > 0
               PROVE  RestoreInv(u, rs, t, p, w, d)
    BY DEF RestoreInv
  <2> DEFINE r == rs.restore
  <2>1. /\ r.session \in Sessions /\ r.session # u.session
        /\ \A i \in DOMAIN q : ~IsWrite(q[i]) /\ q[i].id = r.id =>
             /\ q[i].op = "Read" /\ q[i].session = r.session
             /\ \A j \in (i + 1)..Len(q) : ~Of(q[j], r.session)
        /\ r.reply = "ok" =>
             /\ ~SomeOf(q, r.session) /\ ~SomeOf(p, r.session)
             /\ r.files.turns = d[r.session].turns /\ r.files.live = d[r.session].live
    BY <1>1 DEF RestoreInv
  <2>2. ASSUME NEW i \in DOMAIN t, ~IsWrite(t[i]), t[i].id = r.id
        PROVE  /\ t[i].op = "Read" /\ t[i].session = r.session
               /\ \A j \in (i + 1)..Len(t) : ~Of(t[j], r.session)
    BY <1>6, <2>1, <2>2
  <2>3. ASSUME w.id = r.id
        PROVE  w.op = "Read" /\ w.session = r.session /\ ~SomeOf(t, r.session)
    <3>1. /\ w.op = "Read" /\ w.session = r.session
          /\ \A j \in (1 + 1)..Len(q) : ~Of(q[j], r.session)
      BY <1>6, <2>1, <2>3
    <3> QED
      BY <1>6, <3>1 DEF SomeOf
  <2> QED
    BY <1>5, <2>1, <2>2, <2>3 DEF RestoreInv
<1>15. CommandInv(u, rs, t, p, d, ow) /\ UsedInv(u, rs, t, p, ow, sv)
  BY <1>1, <1>5 DEF CommandInv, UsedInv
<1>16. CheckpointInv(u, t, p, d, sv)
  BY <1>1, <1>5 DEF CheckpointInv
<1>17. ExitInv(u, rs, t, p, w)
  <2>1. ASSUME NEW i \in DOMAIN t, ~IsWrite(t[i]), t[i].id = rs.exit.id
        PROVE  i = Len(t)
    <3>1. i + 1 = Len(q)
      BY <1>1, <1>6, <2>1 DEF ExitInv
    <3> QED
      BY <1>6, <3>1
  <2>2. ASSUME w.id = rs.exit.id PROVE t = << >>
    <3>1. Len(q) = 1
      BY <1>1, <1>6, <2>2 DEF ExitInv
    <3> QED
      BY <1>5, <1>6, <3>1
  <2> QED
    BY <1>1, <2>1, <2>2 DEF ExitInv
<1> QED
  BY <1>7, <1>8, <1>10, <1>11, <1>12, <1>13, <1>14, <1>15, <1>16, <1>17 DEF StorageState

\* The worker turns to the pending writes of itself, or rests.
LEMMA RestKeeps ==
  ASSUME NEW u, NEW rs, NEW q, NEW p, NEW g, NEW d, NEW ow, NEW sv, NEW n, NEW m,
         StorageState(u, rs, q, p, g, d, ow, sv, n, m),
         NEW g2 \in {Resting, Timer, Dropped}
  PROVE  StorageState(u, rs, q, p, g2, d, ow, sv, n, m) /\ g2 \notin Barriers
<1>1. g2 \notin Barriers
  BY BarrierIs DEF Resting, Timer, Dropped
<1>2. TypesInv(u, rs, q, p, g2, d, ow, sv, n, m)
  BY DEF StorageState, TypesInv
<1>3. RequestInv(rs, q, g2, n) /\ RestoreInv(u, rs, q, p, g2, d) /\ ExitInv(u, rs, q, p, g2)
  BY <1>1 DEF StorageState, RequestInv, RestoreInv, ExitInv
<1> QED
  BY <1>1, <1>2, <1>3 DEF StorageState

\* Turns are added to a log one at a time.
LEMMA TurnPutIs ==
  ASSUME NEW f \in Files, NEW o \in Nat, NEW es \in Seq(Nat),
         NEW x, x = PutTurn(f, o, es)
  PROVE  /\ x \in Files /\ x.live = f.live /\ x.checkpoint = f.checkpoint
         /\ x.exists = f.exists /\ x.index = f.index
         /\ DOMAIN x.turns = DOMAIN f.turns \cup {o}
         /\ x.turns[o] = es
         /\ \A i \in DOMAIN f.turns : i # o => x.turns[i] = f.turns[i]
<1> DEFINE turns == [i \in DOMAIN f.turns \cup {o} |-> IF i = o THEN es ELSE f.turns[i]]
<1>1. /\ DOMAIN f = {"exists", "turns", "index", "live", "checkpoint"}
      /\ f.turns \in TurnLogs
  BY DEF Files
<1>2. PICK S : S \in SUBSET Nat /\ IsFiniteSet(S) /\ f.turns \in [S -> Seq(Nat)]
  BY <1>1 DEF TurnLogs
<1>3. /\ DOMAIN turns = S \cup {o} /\ DOMAIN f.turns = S
      /\ turns \in [S \cup {o} -> Seq(Nat)]
  BY <1>2
<1>4. IsFiniteSet(S \cup {o}) /\ S \cup {o} \in SUBSET Nat
  BY <1>2, FS_AddElement
<1>5. turns \in TurnLogs
  BY <1>3, <1>4 DEF TurnLogs
<1>6. turns[o] = es /\ \A i \in DOMAIN f.turns : i # o => turns[i] = f.turns[i]
  OBVIOUS
<1>7. x = [f EXCEPT !.turns = turns]
  BY DEF PutTurn
<1> HIDE DEF turns
<1> QED
  BY <1>1, <1>3, <1>5, <1>6, <1>7 DEF Files

\* Parts of a checkpoint are written in their order, the last of them last.
LEMMA PartsPutIs ==
  ASSUME NEW f \in Files, NEW k \in Nat, NEW v \in Nat
  PROVE  /\ PutParts(f, k, v) \in Files
         /\ PutParts(f, k, v).live = f.live /\ PutParts(f, k, v).turns = f.turns
         /\ k = Len(Parts) => PutParts(f, k, v).checkpoint = [part \in Range(Parts) |-> v]
<1>1. /\ DOMAIN f = {"exists", "turns", "index", "live", "checkpoint"}
      /\ f.checkpoint \in [Range(Parts) -> Nat] /\ f.exists \in BOOLEAN
  BY DEF Files
<1> DEFINE checkpoint == [part \in DOMAIN f.checkpoint |->
                            IF \E i \in 1..k : Parts[i] = part THEN v ELSE f.checkpoint[part]]
           exists == f.exists \/ k > 0
<1>2. checkpoint \in [Range(Parts) -> Nat]
  BY <1>1
<1>3. k = Len(Parts) => checkpoint = [part \in Range(Parts) |-> v]
  <2>1. \A part \in Range(Parts) : \E i \in 1..Len(Parts) : Parts[i] = part
    BY DEF Range, Parts
  <2> QED
    BY <1>1, <2>1
<1>4. PutParts(f, k, v) = [f EXCEPT !.exists = exists, !.checkpoint = checkpoint]
  BY DEF PutParts
<1>5. exists \in BOOLEAN
  OBVIOUS
<1> HIDE DEF checkpoint, exists
<1> QED
  BY <1>1, <1>2, <1>3, <1>4, <1>5 DEF Files

\* What a completed write leaves in the files of its thread.
LEMMA ExecuteIs ==
  ASSUME NEW w \in Writes, NEW f \in Files, NEW indexed \in BOOLEAN,
         NEW x, x = Execute(w, f, indexed)
  PROVE  /\ x \in Files
         /\ IF w.op = "CommitTurn"
            THEN /\ DOMAIN x.turns = DOMAIN f.turns \cup {w.ordinal}
                 /\ x.turns[w.ordinal] = w.entries
                 /\ \A i \in DOMAIN f.turns : i # w.ordinal => x.turns[i] = f.turns[i]
            ELSE x.turns = f.turns
         /\ \A e : e \in Range(x.live) <=>
              \/ w.op \in {"AppendLive", "ReplaceLive"} /\ e \in Range(w.entries)
              \/ w.op \in {"Runtime", "AppendLive"} /\ e \in Range(f.live)
         /\ IF w.op = "Runtime"
            THEN \A part \in Range(Parts) : x.checkpoint[part] = w.version
            ELSE x.checkpoint = f.checkpoint
<1>1. /\ DOMAIN f = {"exists", "turns", "index", "live", "checkpoint"}
      /\ f.live \in Seq(Nat) /\ f.index \in SUBSET Nat
  BY DEF Files
<1>2. << >> \in Seq(Nat) /\ \A e : ~(e \in Range(<< >>))
  BY DEF Range
<1>3. CASE w.op = "Runtime"
  <2>1. x = PutParts(f, Len(Parts), w.version)
    BY <1>3, Zenon DEF Execute
  <2>2. w.version \in Nat /\ Len(Parts) \in Nat
    BY <1>3, WriteIs DEF Parts
  <2>3. PICK k \in Nat : k = Len(Parts)
    BY <2>2
  <2>4. PICK v \in Nat : v = w.version
    BY <2>2
  <2>5. x = PutParts(f, k, v)
    BY <2>1, <2>3, <2>4
  <2>6. x \in Files /\ x.live = f.live /\ x.turns = f.turns
    BY ONLY <2>3, <2>4, <2>5, f \in Files, PartsPutIs, ZenonT(40)
  <2>7. x.checkpoint = [part \in Range(Parts) |-> v]
    BY ONLY <2>3, <2>4, <2>5, f \in Files, PartsPutIs
  <2> QED
    BY <1>3, <2>4, <2>6, <2>7
<1>4. CASE w.op = "AppendLive"
  <2>1. x = [f EXCEPT !.live = f.live \o w.entries]
    BY <1>4 DEF Execute
  <2>2. w.entries \in Seq(Nat)
    BY <1>4, WriteIs
  <2>3. PICK es \in Seq(Nat) : es = f.live \o w.entries
    BY <1>1, <2>2, JoinedIs
  <2>4. \A e : e \in Range(es) <=> e \in Range(f.live) \/ e \in Range(w.entries)
    BY <1>1, <2>2, <2>3, JoinedIs
  <2>5. x = [f EXCEPT !.live = es]
    BY <2>1, <2>3
  <2> QED
    BY <1>1, <1>4, <2>4, <2>5 DEF Files
<1>5. CASE w.op = "ReplaceLive"
  <2>1. x = [f EXCEPT !.live = w.entries]
    BY <1>5 DEF Execute
  <2>2. w.entries \in Seq(Nat)
    BY <1>5, WriteIs
  <2> QED
    BY <1>1, <1>5, <2>1, <2>2 DEF Files
<1>6. CASE w.op = "CommitTurn"
  <2>1. w.entries \in Seq(Nat) /\ w.ordinal \in Nat
    BY <1>6, WriteIs
  <2>2. PICK y : y = PutTurn(f, w.ordinal, w.entries)
    OBVIOUS
  <2>3. /\ y \in Files /\ y.checkpoint = f.checkpoint
        /\ DOMAIN y.turns = DOMAIN f.turns \cup {w.ordinal}
        /\ y.turns[w.ordinal] = w.entries
        /\ \A i \in DOMAIN f.turns : i # w.ordinal => y.turns[i] = f.turns[i]
    BY <2>1, <2>2, TurnPutIs
  <2>4. PICK z : z = IndexTurn(y, w.ordinal, indexed)
    OBVIOUS
  <2>5. z \in Files /\ z.turns = y.turns /\ z.checkpoint = y.checkpoint
    BY <2>1, <2>3, <2>4 DEF IndexTurn, Files
  <2>6. x = [z EXCEPT !.live = << >>]
    BY <1>6, <2>2, <2>4 DEF Execute
  <2>7. x \in Files /\ x.turns = z.turns /\ x.checkpoint = z.checkpoint /\ x.live = << >>
    BY <1>2, <2>5, <2>6 DEF Files
  <2> QED
    BY <1>2, <1>6, <2>3, <2>5, <2>7
<1>7. CASE w.op = "ClearLive"
  <2>1. x = [f EXCEPT !.live = << >>]
    BY <1>7 DEF Execute
  <2> QED
    BY <1>1, <1>2, <1>7, <2>1 DEF Files
<1> QED
  BY <1>3, <1>4, <1>5, <1>6, <1>7, WriteIs

\* What a write that failed may have left: part of what it would leave.
LEMMA PartialIs ==
  ASSUME NEW w \in Writes, NEW f \in Files, NEW x \in PartialWrites(w, f)
  PROVE  /\ x \in Files
         /\ \/ x.turns = f.turns
            \/ /\ w.op = "CommitTurn"
               /\ DOMAIN x.turns = DOMAIN f.turns \cup {w.ordinal}
               /\ x.turns[w.ordinal] = w.entries
               /\ \A i \in DOMAIN f.turns : i # w.ordinal => x.turns[i] = f.turns[i]
         /\ \A e : e \in Range(f.live) => e \in Range(x.live)
         /\ \A e : e \in Range(x.live) =>
              e \in Range(f.live) \/ (w.op = "AppendLive" /\ e \in Range(w.entries))
         /\ w.op # "Runtime" => x.checkpoint = f.checkpoint
<1>1. /\ DOMAIN f = {"exists", "turns", "index", "live", "checkpoint"}
      /\ f.live \in Seq(Nat) /\ f.index \in SUBSET Nat
  BY DEF Files
<1>2. CASE w.op = "Runtime"
  <2>1. x \in {PutParts(f, n, w.version) : n \in 0..(Len(Parts) - 1)}
    BY <1>2, Zenon DEF PartialWrites
  <2>2. PICK k \in 0..(Len(Parts) - 1) : x = PutParts(f, k, w.version)
    BY <2>1
  <2>3. k \in Nat /\ w.version \in Nat
    BY <1>2, <2>2, WriteIs DEF Parts
  <2>4. x \in Files /\ x.live = f.live /\ x.turns = f.turns
    BY <2>2, <2>3, PartsPutIs
  <2> QED
    BY <1>2, <2>4
<1>3. CASE w.op = "AppendLive"
  <2>1. w.entries \in Seq(Nat)
    BY <1>3, WriteIs
  <2>2. x \in {[f EXCEPT !.live = f.live \o SubSeq(w.entries, 1, n)] : n \in 0..Len(w.entries)}
    BY <1>3 DEF PartialWrites
  <2>3. PICK k \in 0..Len(w.entries) : x = [f EXCEPT !.live = f.live \o SubSeq(w.entries, 1, k)]
    BY <2>2
  <2>4. PICK es \in Seq(Nat) : es = SubSeq(w.entries, 1, k) /\ Range(es) \subseteq Range(w.entries)
    BY <2>1, PrefixIs
  <2>5. PICK live \in Seq(Nat) : live = f.live \o es
    BY <1>1, JoinedIs
  <2>6. \A e : e \in Range(live) <=> e \in Range(f.live) \/ e \in Range(es)
    BY <1>1, <2>5, JoinedIs
  <2>7. x = [f EXCEPT !.live = live]
    BY <2>3, <2>4, <2>5
  <2>8. /\ x.live = live /\ x.turns = f.turns /\ x.checkpoint = f.checkpoint /\ x \in Files
    BY <1>1, <2>7 DEF Files
  <2> QED
    BY <1>3, <2>4, <2>6, <2>8
<1>4. CASE w.op = "CommitTurn"
  <2>1. w.entries \in Seq(Nat) /\ w.ordinal \in Nat
    BY <1>4, WriteIs
  <2>2. PICK y : y = PutTurn(f, w.ordinal, w.entries)
    OBVIOUS
  <2>3. /\ y \in Files /\ y.checkpoint = f.checkpoint /\ y.live = f.live
        /\ DOMAIN y.turns = DOMAIN f.turns \cup {w.ordinal}
        /\ y.turns[w.ordinal] = w.entries
        /\ \A i \in DOMAIN f.turns : i # w.ordinal => y.turns[i] = f.turns[i]
    BY <2>1, <2>2, TurnPutIs
  <2>4. x \in {f} \cup {IndexTurn(y, w.ordinal, b) : b \in BOOLEAN}
    BY <1>4, <2>2 DEF PartialWrites
  <2>5. x = f \/ \E b \in BOOLEAN : x = IndexTurn(y, w.ordinal, b)
    BY <2>4
  <2>6. CASE x = f
    BY <1>4, <2>6
  <2>7. CASE \E b \in BOOLEAN : x = IndexTurn(y, w.ordinal, b)
    <3>1. x = y \/ x = [y EXCEPT !.index = y.index \cup {w.ordinal}]
      BY <2>7 DEF IndexTurn
    <3>2. /\ x \in Files /\ x.turns = y.turns /\ x.checkpoint = y.checkpoint
          /\ x.live = y.live
      BY <2>1, <2>3, <3>1 DEF Files
    <3> QED
      BY <1>4, <2>3, <3>2
  <2> QED
    BY <2>5, <2>6, <2>7
<1>5. CASE w.op \in {"ReplaceLive", "ClearLive"}
  <2>1. x = f
    BY <1>5 DEF PartialWrites
  <2> QED
    BY <1>5, <2>1
<1> QED
  BY <1>2, <1>3, <1>4, <1>5, WriteIs

\* The first pending write is done, and is pending no more.
LEMMA WriteStored ==
  ASSUME NEW u, NEW rs, NEW q, NEW p, NEW g, NEW d, NEW ow, NEW sv, NEW n, NEW m,
         StorageState(u, rs, q, p, g, d, ow, sv, n, m),
         p # << >>, NEW w, w = Head(p), NEW p2, p2 = Tail(p),
         NEW indexed \in BOOLEAN, NEW x, x = Execute(w, d[w.session], indexed),
         NEW d2, d2 = [d EXCEPT ![w.session] = x]
  PROVE  StorageState(u, rs, q, p2, g, d2, ow, sv, n, m)
<1> DEFINE t == w.session
<1>1. /\ TypesInv(u, rs, q, p, g, d, ow, sv, n, m) /\ RequestInv(rs, q, g, n)
      /\ CommandInv(u, rs, q, p, d, ow) /\ UsedInv(u, rs, q, p, ow, sv) /\ ExitInv(u, rs, q, p, g)
      /\ RestoreInv(u, rs, q, p, g, d)
      /\ KeptInv(q, p, d, ow) /\ ActiveInv(u, q, p, d, ow) /\ OrdinalInv(u, q, p, d)
      /\ LiveInv(u, q, p, d, ow) /\ ShownInv(u, q, p, d, ow, m) /\ CheckpointInv(u, q, p, d, sv)
  BY DEF StorageState
<1>2. /\ p \in Seq(Writes) /\ w \in Writes /\ t \in Sessions
      /\ d \in [Sessions -> Files] /\ d[t] \in Files /\ u.session \in Sessions
  <2>1. p \in Seq(Writes) /\ d \in [Sessions -> Files] /\ u \in Interfaces
    BY <1>1 DEF TypesInv
  <2>2. w \in Writes
    BY <2>1
  <2> QED
    BY <2>1, <2>2, WriteIs DEF Interfaces
<1>3. /\ p2 \in Seq(Writes)
      /\ \A s : SomeOf(p, s) <=> Of(w, s) \/ SomeOf(p2, s)
      /\ \A s, e : InWrite(p, s, e) <=> Holds(w, s, e) \/ InWrite(p2, s, e)
      /\ \A s, e : InTurn(p, s, e) <=> Turns(w, s, e) \/ InTurn(p2, s, e)
      /\ \A s, e : Survives(p, s, e) =>
           /\ Turns(w, s, e) \/ Survives(p2, s, e)
           /\ Cuts(w, s) => Holds(w, s, e) \/ InWrite(p2, s, e)
      /\ \A s, e, b : LiveAfter(p, s, e, b) <=>
           LiveAfter(p2, s, e, Adds(w, s, e) \/ (b /\ ~Cuts(w, s)))
      /\ \A s : SomeSave(p, s) <=> Saves(w, s) \/ SomeSave(p2, s)
      /\ \A s, v : LastSave(p, s, v) =>
           LastSave(p2, s, v) /\ (Saves(w, s) /\ ~SomeSave(p2, s) => w.version = v)
      /\ \A s : Ordered(p, s) =>
           Ordered(p2, s) /\ (Commits(w, s) => Above(p2, s, w.ordinal))
      /\ \A s, k : Below(p, s, k) <=> Below(p2, s, k) /\ (Commits(w, s) => w.ordinal < k)
      /\ \A s, o, es : Beyond(p, s, o, es) =>
           /\ Above(p2, s, o)
           /\ Commits(w, s) => o < w.ordinal \/ (w.ordinal = o /\ w.entries = es)
  BY <1>2, TailIs
<1>4. /\ x \in Files
      /\ IF w.op = "CommitTurn"
         THEN /\ DOMAIN x.turns = DOMAIN d[t].turns \cup {w.ordinal}
              /\ x.turns[w.ordinal] = w.entries
              /\ \A i \in DOMAIN d[t].turns : i # w.ordinal => x.turns[i] = d[t].turns[i]
         ELSE x.turns = d[t].turns
      /\ \A e : e \in Range(x.live) <=>
           \/ w.op \in {"AppendLive", "ReplaceLive"} /\ e \in Range(w.entries)
           \/ w.op \in {"Runtime", "AppendLive"} /\ e \in Range(d[t].live)
      /\ IF w.op = "Runtime"
         THEN \A part \in Range(Parts) : x.checkpoint[part] = w.version
         ELSE x.checkpoint = d[t].checkpoint
  <2>1. PICK f \in Files : f = d[t]
    BY <1>2
  <2>2. x = Execute(w, f, indexed) /\ w \in Writes /\ indexed \in BOOLEAN /\ f \in Files
    BY <1>2, <2>1
  <2> HIDE DEF t
  <2> QED
    BY ONLY <2>1, <2>2, ExecuteIs, SMTT(30)
<1>5. /\ d2 \in [Sessions -> Files] /\ d2[t] = x
      /\ \A s \in Sessions : s # t => d2[s] = d[s]
  BY <1>2, <1>4
<1>6. /\ w.op \in {"Runtime", "AppendLive", "ReplaceLive", "CommitTurn", "ClearLive"}
      /\ IsWrite(w)
      /\ \A s : /\ Of(w, s) <=> s = t
                /\ Saves(w, s) <=> s = t /\ w.op = "Runtime"
                /\ Commits(w, s) <=> s = t /\ w.op = "CommitTurn"
                /\ Cuts(w, s) <=> s = t /\ w.op \in {"ReplaceLive", "CommitTurn", "ClearLive"}
      /\ \A s, e : /\ Adds(w, s, e) <=>
                        s = t /\ w.op \in {"AppendLive", "ReplaceLive"} /\ e \in Range(w.entries)
                   /\ Turns(w, s, e) <=> s = t /\ w.op = "CommitTurn" /\ e \in Range(w.entries)
                   /\ Holds(w, s, e) <=> Adds(w, s, e) \/ Turns(w, s, e)
  BY <1>2, WriteIs DEF Of, Saves, Commits, Cuts, Adds, Turns, Holds, EntriesOf
<1>7. \A s \in Sessions : \A e : Stored(d2, s, e) <=> Stored(d, s, e) \/ Turns(w, s, e)
  <2>1. ASSUME NEW e
        PROVE  Stored(d2, t, e) <=> Stored(d, t, e) \/ Turns(w, t, e)
    <3>1. CASE w.op = "CommitTurn"
      <4>1. \A o \in DOMAIN d[t].turns : o = w.ordinal => d[t].turns[o] = w.entries
        <5>1. \A o \in DOMAIN d[t].turns : Beyond(p, t, o, d[t].turns[o])
          BY <1>1, <1>2 DEF OrdinalInv
        <5>2. \A o \in DOMAIN d[t].turns : o \in Nat
          BY <1>2 DEF Files, TurnLogs
        <5>3. w.ordinal \in Nat
          BY <1>2, <3>1, WriteIs
        <5>4. \A o \in DOMAIN d[t].turns :
                o < w.ordinal \/ (w.ordinal = o /\ w.entries = d[t].turns[o])
          BY <1>3, <1>6, <3>1, <5>1
        <5> QED
          BY <5>2, <5>3, <5>4
      <4> QED
        <5>1. /\ DOMAIN x.turns = DOMAIN d[t].turns \cup {w.ordinal}
              /\ x.turns[w.ordinal] = w.entries
              /\ \A o \in DOMAIN d[t].turns : o # w.ordinal => x.turns[o] = d[t].turns[o]
          BY <1>4, <3>1, Zenon
        <5>2. /\ d2[t] = x
              /\ Turns(w, t, e) <=> e \in Range(w.entries)
          BY <1>5, <1>6, <3>1, Zenon
        <5> HIDE DEF t
        <5> QED
          BY ONLY <4>1, <5>1, <5>2 DEF Stored
    <3>2. CASE w.op # "CommitTurn"
      BY <1>4, <1>5, <1>6, <3>2 DEF Stored
    <3> QED
      BY <3>1, <3>2
  <2>2. ASSUME NEW s \in Sessions, s # t, NEW e
        PROVE  Stored(d2, s, e) <=> Stored(d, s, e) \/ Turns(w, s, e)
    BY <1>5, <1>6, <2>2 DEF Stored
  <2> QED
    BY <2>1, <2>2
<1>8. \A s \in Sessions : \A e : e \in Range(d2[s].live) <=>
         Adds(w, s, e) \/ (e \in Range(d[s].live) /\ ~Cuts(w, s))
  BY <1>4, <1>5, <1>6
<1> HIDE DEF t
<1>9. TypesInv(u, rs, q, p2, g, d2, ow, sv, n, m)
  BY <1>1, <1>3, <1>5 DEF TypesInv
<1>10. KeptInv(q, p2, d2, ow)
  <2> SUFFICES ASSUME NEW s \in Sessions, NEW e \in ow[s]
               PROVE  /\ \/ Stored(d2, s, e) \/ e \in Range(d2[s].live)
                         \/ InWrite(p2, s, e) \/ InWrite(q, s, e)
                      /\ Stored(d2, s, e) \/ InWrite(q, s, e) \/ Survives(p2, s, e)
                      /\ Stored(d2, s, e) \/ InTurn(p2, s, e) \/ Survives(q, s, e)
    BY DEF KeptInv
  <2>1. /\ \/ Stored(d, s, e) \/ e \in Range(d[s].live)
           \/ InWrite(p, s, e) \/ InWrite(q, s, e)
        /\ Stored(d, s, e) \/ InWrite(q, s, e) \/ Survives(p, s, e)
        /\ Stored(d, s, e) \/ InTurn(p, s, e) \/ Survives(q, s, e)
    BY <1>1 DEF KeptInv
  <2> QED
    BY <1>3, <1>6, <1>7, <1>8, <2>1
<1>11. ActiveInv(u, q, p2, d2, ow)
  BY <1>1, <1>2, <1>3, <1>7 DEF ActiveInv, Turned
<1>12. OrdinalInv(u, q, p2, d2)
  <2>1. ASSUME NEW s \in Sessions
        PROVE  /\ Ordered(p2, s) /\ Ordered(q, s)
               /\ \A i \in DOMAIN p2 : Commits(p2[i], s) => Above(q, s, p2[i].ordinal)
               /\ \A o \in DOMAIN d2[s].turns :
                    Above(q, s, o) /\ Beyond(p2, s, o, d2[s].turns[o])
    <3>1. /\ Ordered(p, s) /\ Ordered(q, s)
          /\ \A i \in DOMAIN p : Commits(p[i], s) => Above(q, s, p[i].ordinal)
          /\ \A o \in DOMAIN d[s].turns :
               Above(q, s, o) /\ Beyond(p, s, o, d[s].turns[o])
      BY <1>1 DEF OrdinalInv
    <3>2. /\ 1 \in DOMAIN p /\ p[1] = w
          /\ \A i \in DOMAIN p2 : i + 1 \in DOMAIN p /\ p2[i] = p[i + 1]
      BY <1>2, Nearer
    <3>3. \A i \in DOMAIN p2 : Commits(p2[i], s) => Above(q, s, p2[i].ordinal)
      BY <3>1, <3>2
    <3>4. \A o \in DOMAIN d2[s].turns : o \in DOMAIN d[s].turns \/ (Commits(w, s) /\ o = w.ordinal)
      BY <1>4, <1>5, <1>6
    <3>5. \A o \in DOMAIN d2[s].turns : Above(q, s, o) /\ Above(p2, s, o)
      BY <1>3, <3>1, <3>2, <3>4
    <3>6. \A o, es : Above(p2, s, o) => Beyond(p2, s, o, es)
      BY DEF Above, Beyond
    <3> QED
      BY <1>3, <3>1, <3>3, <3>5, <3>6
  <2>2. ASSUME u.phase \in {"running", "saving"}
        PROVE  /\ Below(p2, u.session, u.ordinal) /\ Below(q, u.session, u.ordinal)
               /\ \A o \in DOMAIN d2[u.session].turns : o < u.ordinal
    <3>1. /\ Below(p, u.session, u.ordinal) /\ Below(q, u.session, u.ordinal)
          /\ \A o \in DOMAIN d[u.session].turns : o < u.ordinal
      BY <1>1, <2>2 DEF OrdinalInv
    <3>2. \A o \in DOMAIN d2[u.session].turns :
            o \in DOMAIN d[u.session].turns \/ (Commits(w, u.session) /\ o = w.ordinal)
      BY <1>2, <1>4, <1>5, <1>6
    <3> QED
      BY <1>3, <3>1, <3>2
  <2> QED
    BY <2>1, <2>2 DEF OrdinalInv
<1>13. LiveInv(u, q, p2, d2, ow)
  <2>1. ASSUME NEW s \in Sessions, NEW e
        PROVE  FinallyLive(q, p2, d2, s, e) <=> FinallyLive(q, p, d, s, e)
    <3> DEFINE b == e \in Range(d2[s].live)
               c == Adds(w, s, e) \/ (e \in Range(d[s].live) /\ ~Cuts(w, s))
    <3>1. b <=> c
      BY <1>8
    <3>2. LiveAfter(p, s, e, e \in Range(d[s].live)) <=> LiveAfter(p2, s, e, c)
      BY <1>3, Zenon
    <3> HIDE DEF b, c
    <3>3. LiveAfter(p2, s, e, b) <=> LiveAfter(p2, s, e, c)
      BY <3>1, Zenon DEF LiveAfter
    <3> DEFINE b1 == LiveAfter(p2, s, e, b)
               c1 == LiveAfter(p, s, e, e \in Range(d[s].live))
    <3>4. b1 <=> c1
      BY <3>2, <3>3
    <3> HIDE DEF b1, c1
    <3>5. LiveAfter(q, s, e, b1) <=> LiveAfter(q, s, e, c1)
      BY <3>4, Zenon DEF LiveAfter
    <3> QED
      BY <3>5, Zenon DEF FinallyLive, b1, c1, b
  <2> QED
    BY <1>1, <2>1 DEF LiveInv
<1>14. ShownInv(u, q, p2, d2, ow, m)
  BY <1>1, <1>3, <1>6, <1>7, <1>8 DEF ShownInv
<1>15. RestoreInv(u, rs, q, p2, g, d2)
  <2>1. ASSUME rs.restore.id > 0, rs.restore.reply = "ok"
        PROVE  d2[rs.restore.session] = d[rs.restore.session]
    BY <1>1, <1>3, <1>5, <1>6, <2>1 DEF RestoreInv
  <2> QED
    BY <1>1, <1>3, <2>1 DEF RestoreInv
<1>16. CommandInv(u, rs, q, p2, d2, ow)
  <2>1. ASSUME rs.command.id > 0
        PROVE  d2[rs.command.session] = d[rs.command.session]
    BY <1>1, <1>3, <1>5, <1>6, <2>1 DEF CommandInv
  <2> QED
    BY <1>1, <1>3, <2>1 DEF CommandInv
<1>17. UsedInv(u, rs, q, p2, ow, sv)
  BY <1>1, <1>3 DEF UsedInv
<1>18. CheckpointInv(u, q, p2, d2, sv)
  <2>1. ASSUME u.phase \in Leaving, ~SomeSave(q, u.session), ~SomeSave(p2, u.session),
               NEW part \in Range(Parts)
        PROVE  d2[u.session].checkpoint[part] = sv[u.session]
    <3>1. CASE Saves(w, u.session)
      <4>1. w.version = sv[u.session]
        BY <1>1, <1>2, <1>3, <2>1, <3>1 DEF CheckpointInv
      <4> QED
        BY <1>4, <1>5, <1>6, <3>1, <4>1
    <3>2. CASE ~Saves(w, u.session)
      <4>1. d[u.session].checkpoint[part] = sv[u.session]
        BY <1>1, <1>3, <2>1, <3>2 DEF CheckpointInv
      <4>2. d2[u.session].checkpoint = d[u.session].checkpoint
        BY <1>2, <1>4, <1>5, <1>6, <3>2
      <4> QED
        BY <4>1, <4>2
    <3> QED
      BY <3>1, <3>2
  <2>2. \A s \in Sessions :
          LastSave(q, s, sv[s]) /\ (~SomeSave(q, s) => LastSave(p2, s, sv[s]))
    BY <1>1, <1>3 DEF CheckpointInv
  <2> QED
    BY <2>1, <2>2 DEF CheckpointInv
<1>19. ExitInv(u, rs, q, p2, g)
  BY <1>1 DEF ExitInv
<1> QED
  BY <1>1, <1>9, <1>10, <1>11, <1>12, <1>13, <1>14, <1>15, <1>16, <1>17, <1>18, <1>19
  DEF StorageState

\* The first pending write failed: part of it may be done, all of it is pending.
LEMMA WriteTried ==
  ASSUME NEW u, NEW rs, NEW q, NEW p, NEW g, NEW d, NEW ow, NEW sv, NEW n, NEW m,
         StorageState(u, rs, q, p, g, d, ow, sv, n, m),
         p # << >>, NEW w, w = Head(p),
         NEW x \in PartialWrites(w, d[w.session]),
         NEW d2, d2 = [d EXCEPT ![w.session] = x]
  PROVE  StorageState(u, rs, q, p, g, d2, ow, sv, n, m)
<1> DEFINE t == w.session
<1>1. /\ TypesInv(u, rs, q, p, g, d, ow, sv, n, m) /\ RequestInv(rs, q, g, n)
      /\ CommandInv(u, rs, q, p, d, ow) /\ UsedInv(u, rs, q, p, ow, sv) /\ ExitInv(u, rs, q, p, g)
      /\ RestoreInv(u, rs, q, p, g, d)
      /\ KeptInv(q, p, d, ow) /\ ActiveInv(u, q, p, d, ow) /\ OrdinalInv(u, q, p, d)
      /\ LiveInv(u, q, p, d, ow) /\ ShownInv(u, q, p, d, ow, m) /\ CheckpointInv(u, q, p, d, sv)
  BY DEF StorageState
<1>2. /\ p \in Seq(Writes) /\ w \in Writes /\ t \in Sessions
      /\ d \in [Sessions -> Files] /\ d[t] \in Files /\ u.session \in Sessions
  <2>1. p \in Seq(Writes) /\ d \in [Sessions -> Files] /\ u \in Interfaces
    BY <1>1 DEF TypesInv
  <2>2. w \in Writes
    BY <2>1
  <2> QED
    BY <2>1, <2>2, WriteIs DEF Interfaces
<1>3. PICK p2 : p2 = Tail(p)
  OBVIOUS
<1>4. /\ \A s : SomeOf(p, s) <=> Of(w, s) \/ SomeOf(p2, s)
      /\ \A s, e : InWrite(p, s, e) <=> Holds(w, s, e) \/ InWrite(p2, s, e)
      /\ \A s, e : InTurn(p, s, e) <=> Turns(w, s, e) \/ InTurn(p2, s, e)
      /\ \A s, e, b : LiveAfter(p, s, e, b) <=>
           LiveAfter(p2, s, e, Adds(w, s, e) \/ (b /\ ~Cuts(w, s)))
      /\ \A s : SomeSave(p, s) <=> Saves(w, s) \/ SomeSave(p2, s)
      /\ \A s : Ordered(p, s) =>
           Ordered(p2, s) /\ (Commits(w, s) => Above(p2, s, w.ordinal))
      /\ \A s, k : Below(p, s, k) <=> Below(p2, s, k) /\ (Commits(w, s) => w.ordinal < k)
  BY <1>2, <1>3, TailIs
<1>5. /\ x \in Files
      /\ \/ x.turns = d[t].turns
         \/ /\ w.op = "CommitTurn"
            /\ DOMAIN x.turns = DOMAIN d[t].turns \cup {w.ordinal}
            /\ x.turns[w.ordinal] = w.entries
            /\ \A i \in DOMAIN d[t].turns : i # w.ordinal => x.turns[i] = d[t].turns[i]
      /\ \A e : e \in Range(d[t].live) => e \in Range(x.live)
      /\ \A e : e \in Range(x.live) =>
           e \in Range(d[t].live) \/ (w.op = "AppendLive" /\ e \in Range(w.entries))
      /\ w.op # "Runtime" => x.checkpoint = d[t].checkpoint
  BY <1>2, PartialIs, ZenonT(40)
<1>6. /\ d2 \in [Sessions -> Files] /\ d2[t] = x
      /\ \A s \in Sessions : s # t => d2[s] = d[s]
  BY <1>2, <1>5
<1>7. /\ IsWrite(w)
      /\ \A s : /\ Of(w, s) <=> s = t
                /\ Saves(w, s) <=> s = t /\ w.op = "Runtime"
                /\ Commits(w, s) <=> s = t /\ w.op = "CommitTurn"
                /\ Cuts(w, s) <=> s = t /\ w.op \in {"ReplaceLive", "CommitTurn", "ClearLive"}
      /\ \A s, e : /\ Adds(w, s, e) <=>
                        s = t /\ w.op \in {"AppendLive", "ReplaceLive"} /\ e \in Range(w.entries)
                   /\ Turns(w, s, e) <=> s = t /\ w.op = "CommitTurn" /\ e \in Range(w.entries)
                   /\ Holds(w, s, e) <=> Adds(w, s, e) \/ Turns(w, s, e)
  BY <1>2, WriteIs DEF Of, Saves, Commits, Cuts, Adds, Turns, Holds, EntriesOf
<1>8. w.op = "CommitTurn" =>
        /\ w.ordinal \in Nat
        /\ \A o \in DOMAIN d[t].turns :
             o \in Nat /\ (o < w.ordinal \/ (w.ordinal = o /\ w.entries = d[t].turns[o]))
  <2>1. \A o \in DOMAIN d[t].turns : Beyond(p, t, o, d[t].turns[o])
    BY <1>1, <1>2 DEF OrdinalInv
  <2>2. \A o \in DOMAIN d[t].turns : o \in Nat
    BY <1>2 DEF Files, TurnLogs
  <2>3. \A o, es : Beyond(p, t, o, es) /\ Commits(w, t) =>
          o < w.ordinal \/ (w.ordinal = o /\ w.entries = es)
    BY <1>2, TailIs
  <2> QED
    BY <1>2, <1>7, <2>1, <2>2, <2>3, WriteIs
<1>9. \A s \in Sessions : \A e :
        /\ Stored(d, s, e) => Stored(d2, s, e)
        /\ Stored(d2, s, e) => Stored(d, s, e) \/ Turns(w, s, e)
  <2>1. ASSUME NEW e
        PROVE  /\ Stored(d, t, e) => Stored(d2, t, e)
               /\ Stored(d2, t, e) => Stored(d, t, e) \/ Turns(w, t, e)
    <3>1. CASE x.turns = d[t].turns
      BY <1>6, <3>1 DEF Stored
    <3>2. CASE /\ w.op = "CommitTurn"
               /\ DOMAIN x.turns = DOMAIN d[t].turns \cup {w.ordinal}
               /\ x.turns[w.ordinal] = w.entries
               /\ \A i \in DOMAIN d[t].turns : i # w.ordinal => x.turns[i] = d[t].turns[i]
      <4>1. \A o \in DOMAIN d[t].turns : o = w.ordinal => d[t].turns[o] = w.entries
        BY <1>8, <3>2
      <4> QED
        BY <1>6, <1>7, <3>2, <4>1 DEF Stored
    <3> QED
      BY <1>5, <3>1, <3>2
  <2>2. ASSUME NEW s \in Sessions, s # t, NEW e
        PROVE  Stored(d2, s, e) <=> Stored(d, s, e)
    BY <1>6, <2>2 DEF Stored
  <2> QED
    BY <2>1, <2>2
<1>10. \A s \in Sessions : \A e :
         /\ e \in Range(d[s].live) => e \in Range(d2[s].live)
         /\ e \in Range(d2[s].live) =>
              e \in Range(d[s].live) \/ (Adds(w, s, e) /\ ~Cuts(w, s))
  BY <1>5, <1>6, <1>7
<1> HIDE DEF t
<1>11. TypesInv(u, rs, q, p, g, d2, ow, sv, n, m)
  BY <1>1, <1>6 DEF TypesInv
<1>12. KeptInv(q, p, d2, ow)
  BY <1>1, <1>9, <1>10 DEF KeptInv
<1>13. ActiveInv(u, q, p, d2, ow)
  BY <1>1, <1>2, <1>9 DEF ActiveInv, Turned
<1>14. OrdinalInv(u, q, p, d2)
  <2>1. ASSUME NEW s \in Sessions, NEW o \in DOMAIN d2[s].turns
        PROVE  Above(q, s, o) /\ Beyond(p, s, o, d2[s].turns[o])
    <3>1. /\ Ordered(p, s)
          /\ \A i \in DOMAIN p : Commits(p[i], s) => Above(q, s, p[i].ordinal)
          /\ \A k \in DOMAIN d[s].turns :
               Above(q, s, k) /\ Beyond(p, s, k, d[s].turns[k])
      BY <1>1 DEF OrdinalInv
    <3>2. 1 \in DOMAIN p /\ p[1] = w
      BY <1>2
    <3>3. \/ o \in DOMAIN d[s].turns /\ d2[s].turns[o] = d[s].turns[o]
          \/ Commits(w, s) /\ o = w.ordinal /\ d2[s].turns[o] = w.entries
      BY <1>5, <1>6, <1>7, <2>1
    <3>4. CASE o \in DOMAIN d[s].turns /\ d2[s].turns[o] = d[s].turns[o]
      BY <3>1, <3>4
    <3>5. CASE Commits(w, s) /\ o = w.ordinal /\ d2[s].turns[o] = w.entries
      <4>1. \A i \in DOMAIN p : i = 1 \/ 1 < i
        BY <1>2
      <4>2. Beyond(p, s, w.ordinal, w.entries)
        BY <3>1, <3>2, <3>5, <4>1 DEF Beyond, Ordered
      <4> QED
        BY <3>1, <3>2, <3>5, <4>2
    <3> QED
      BY <3>3, <3>4, <3>5
  <2>2. ASSUME u.phase \in {"running", "saving"}
        PROVE  \A o \in DOMAIN d2[u.session].turns : o < u.ordinal
    <3>1. /\ Below(p, u.session, u.ordinal)
          /\ \A o \in DOMAIN d[u.session].turns : o < u.ordinal
      BY <1>1, <2>2 DEF OrdinalInv
    <3>2. \A o \in DOMAIN d2[u.session].turns :
            o \in DOMAIN d[u.session].turns \/ (Commits(w, u.session) /\ o = w.ordinal)
      BY <1>2, <1>5, <1>6, <1>7
    <3> QED
      BY <1>4, <3>1, <3>2
  <2> QED
    BY <1>1, <2>1, <2>2 DEF OrdinalInv
<1>15. LiveInv(u, q, p, d2, ow)
  <2>1. ASSUME NEW s \in Sessions, NEW e
        PROVE  FinallyLive(q, p, d2, s, e) <=> FinallyLive(q, p, d, s, e)
    <3> DEFINE b == Adds(w, s, e) \/ (e \in Range(d2[s].live) /\ ~Cuts(w, s))
               c == Adds(w, s, e) \/ (e \in Range(d[s].live) /\ ~Cuts(w, s))
    <3>1. b <=> c
      BY <1>10
    <3>2. /\ LiveAfter(p, s, e, e \in Range(d[s].live)) <=> LiveAfter(p2, s, e, c)
          /\ LiveAfter(p, s, e, e \in Range(d2[s].live)) <=> LiveAfter(p2, s, e, b)
      BY <1>4, Zenon
    <3> HIDE DEF b, c
    <3>3. LiveAfter(p2, s, e, b) <=> LiveAfter(p2, s, e, c)
      BY <3>1, Zenon DEF LiveAfter
    <3> DEFINE b1 == LiveAfter(p, s, e, e \in Range(d2[s].live))
               c1 == LiveAfter(p, s, e, e \in Range(d[s].live))
    <3>4. b1 <=> c1
      BY <3>2, <3>3
    <3> HIDE DEF b1, c1
    <3>5. LiveAfter(q, s, e, b1) <=> LiveAfter(q, s, e, c1)
      BY <3>4, Zenon DEF LiveAfter
    <3> QED
      BY <3>5, Zenon DEF FinallyLive, b1, c1
  <2> QED
    BY <1>1, <2>1 DEF LiveInv
<1>16. ShownInv(u, q, p, d2, ow, m)
  BY <1>1, <1>4, <1>7, <1>9, <1>10 DEF ShownInv
<1>17. RestoreInv(u, rs, q, p, g, d2)
  <2>1. ASSUME rs.restore.id > 0, rs.restore.reply = "ok"
        PROVE  d2[rs.restore.session] = d[rs.restore.session]
    BY <1>1, <1>4, <1>6, <1>7, <2>1 DEF RestoreInv
  <2> QED
    BY <1>1, <2>1 DEF RestoreInv
<1>18. CommandInv(u, rs, q, p, d2, ow)
  <2>1. ASSUME rs.command.id > 0
        PROVE  d2[rs.command.session] = d[rs.command.session]
    BY <1>1, <1>4, <1>6, <1>7, <2>1 DEF CommandInv
  <2> QED
    BY <1>1, <2>1 DEF CommandInv
<1>19. CheckpointInv(u, q, p, d2, sv)
  <2>1. ASSUME u.phase \in Leaving, ~SomeSave(q, u.session), ~SomeSave(p, u.session),
               NEW part \in Range(Parts)
        PROVE  d2[u.session].checkpoint[part] = sv[u.session]
    <3>1. d[u.session].checkpoint[part] = sv[u.session]
      BY <1>1, <2>1 DEF CheckpointInv
    <3>2. d2[u.session].checkpoint = d[u.session].checkpoint
      BY <1>2, <1>4, <1>5, <1>6, <1>7, <2>1
    <3> QED
      BY <3>1, <3>2
  <2> QED
    BY <1>1, <2>1 DEF CheckpointInv
<1> QED
  BY <1>1, <1>11, <1>12, <1>13, <1>14, <1>15, <1>16, <1>17, <1>18, <1>19 DEF StorageState

\* What an answer leaves with the receiver it is for.
LEMMA AnsweredIs ==
  ASSUME receivers \in [restore : Receipts, command : Receipts, exit : Receipts],
         NEW r, NEW reply \in {"ok", "failed"}, NEW files \in Files, Reply(r, reply, files)
  PROVE  /\ receivers' \in [restore : Receipts, command : Receipts, exit : Receipts]
         /\ \A k \in {"restore", "command", "exit"} :
              /\ receivers'[k].id = receivers[k].id
              /\ receivers'[k].session = receivers[k].session
              /\ receivers[k].id # r.id => receivers'[k] = receivers[k]
              /\ receivers[k].id = r.id =>
                   receivers'[k].reply = reply /\ receivers'[k].files = files
<1>1. DOMAIN receivers = {"restore", "command", "exit"}
  OBVIOUS
<1>2. ASSUME NEW k \in {"restore", "command", "exit"}
      PROVE  /\ receivers'[k] \in Receipts
             /\ receivers'[k].id = receivers[k].id
             /\ receivers'[k].session = receivers[k].session
             /\ receivers[k].id # r.id => receivers'[k] = receivers[k]
             /\ receivers[k].id = r.id =>
                  receivers'[k].reply = reply /\ receivers'[k].files = files
  <2>1. PICK x \in Receipts : x = receivers[k]
    BY <1>1
  <2>2. receivers'[k] = IF x.id = r.id THEN [x EXCEPT !.reply = reply, !.files = files] ELSE x
    BY <1>1, <2>1 DEF Reply
  <2>3. /\ [x EXCEPT !.reply = reply, !.files = files] \in Receipts
        /\ [x EXCEPT !.reply = reply, !.files = files].id = x.id
        /\ [x EXCEPT !.reply = reply, !.files = files].session = x.session
        /\ [x EXCEPT !.reply = reply, !.files = files].reply = reply
        /\ [x EXCEPT !.reply = reply, !.files = files].files = files
    BY DEF Receipts
  <2> QED
    BY <2>1, <2>2, <2>3
<1>3. receivers' = [k \in {"restore", "command", "exit"} |-> receivers'[k]]
  <2>1. receivers' = [k \in DOMAIN receivers |->
                        IF receivers[k].id = r.id
                        THEN [receivers[k] EXCEPT !.reply = reply, !.files = files]
                        ELSE receivers[k]]
    BY DEF Reply
  <2> QED
    BY <1>1, <2>1
<1> QED
  BY <1>2, <1>3

\* Whoever waits for the request that made the worker flush is answered.
LEMMA RequestAnswered ==
  ASSUME NEW u, NEW rs, NEW q, NEW p, NEW g, NEW d, NEW ow, NEW sv, NEW n, NEW m,
         StorageState(u, rs, q, p, g, d, ow, sv, n, m), g \in Barriers,
         NEW reply \in {"ok", "failed"}, NEW files \in Files,
         reply = "ok" => p = << >>,
         reply = "ok" /\ g.op = "Read" /\ g.session # NoSession => files = d[g.session],
         NEW rs2 \in [restore : Receipts, command : Receipts, exit : Receipts],
         \A k \in {"restore", "command", "exit"} :
           /\ rs2[k].id = rs[k].id /\ rs2[k].session = rs[k].session
           /\ rs[k].id # g.id => rs2[k] = rs[k]
           /\ rs[k].id = g.id => rs2[k].reply = reply /\ rs2[k].files = files
  PROVE  StorageState(u, rs2, q, p, Resting, d, ow, sv, n, m)
<1>1. /\ TypesInv(u, rs, q, p, g, d, ow, sv, n, m) /\ RequestInv(rs, q, g, n)
      /\ CommandInv(u, rs, q, p, d, ow) /\ UsedInv(u, rs, q, p, ow, sv) /\ ExitInv(u, rs, q, p, g)
      /\ RestoreInv(u, rs, q, p, g, d)
      /\ KeptInv(q, p, d, ow) /\ ActiveInv(u, q, p, d, ow) /\ OrdinalInv(u, q, p, d)
      /\ LiveInv(u, q, p, d, ow) /\ ShownInv(u, q, p, d, ow, m) /\ CheckpointInv(u, q, p, d, sv)
  BY DEF StorageState
<1>2. /\ rs \in [restore : Receipts, command : Receipts, exit : Receipts]
      /\ DOMAIN rs = {"restore", "command", "exit"}
      /\ \A k \in DOMAIN rs : rs[k] \in Receipts
  BY <1>1 DEF TypesInv
<1>3. g.id \in Nat \ {0}
  BY BarrierIs
<1>4. \A k \in DOMAIN rs :
        /\ rs2[k].id = rs[k].id /\ rs2[k].session = rs[k].session
        /\ rs[k].id # g.id => rs2[k] = rs[k]
        /\ rs[k].id = g.id => rs2[k].reply = reply /\ rs2[k].files = files
  BY <1>2
<1>5. DOMAIN rs2 = {"restore", "command", "exit"}
  OBVIOUS
<1>6. Resting \notin Barriers
  BY BarrierIs DEF Resting
<1>7. TypesInv(u, rs2, q, p, Resting, d, ow, sv, n, m)
  BY <1>1 DEF TypesInv
<1>8. RequestInv(rs2, q, Resting, n)
  <2>1. \A k \in DOMAIN rs2 : rs2[k].id <= n /\ (rs2[k].id = 0 => rs2[k] = NoReceipt)
    BY <1>1, <1>2, <1>3, <1>4, <1>5 DEF RequestInv
  <2>2. rs2.restore.id = 0 \/ rs2.command.id = 0
    BY <1>1, <1>2, <1>4 DEF RequestInv
  <2> QED
    BY <1>1, <1>6, <2>1, <2>2 DEF RequestInv
<1>9. RestoreInv(u, rs2, q, p, Resting, d)
  <2> SUFFICES ASSUME rs2.restore.id > 0
               PROVE  RestoreInv(u, rs2, q, p, Resting, d)
    BY DEF RestoreInv
  <2> DEFINE r == rs.restore
             r2 == rs2.restore
  <2>1. /\ r2.id = r.id /\ r2.session = r.session
        /\ r.id # g.id => r2 = r
        /\ r.id = g.id => r2.reply = reply /\ r2.files = files
    BY <1>2, <1>4
  <2>2. /\ r.session \in Sessions /\ r.session # u.session
        /\ \A i \in DOMAIN q : ~IsWrite(q[i]) /\ q[i].id = r.id =>
             /\ q[i].op = "Read" /\ q[i].session = r.session
             /\ \A j \in (i + 1)..Len(q) : ~Of(q[j], r.session)
        /\ g.id = r.id => g.op = "Read" /\ g.session = r.session /\ ~SomeOf(q, r.session)
        /\ r.reply = "ok" =>
             /\ ~SomeOf(q, r.session) /\ ~SomeOf(p, r.session)
             /\ r.files.turns = d[r.session].turns /\ r.files.live = d[r.session].live
    BY <1>1, <2>1 DEF RestoreInv
  <2>3. ASSUME r2.reply = "ok"
        PROVE  /\ ~SomeOf(q, r.session) /\ ~SomeOf(p, r.session)
               /\ r2.files.turns = d[r.session].turns /\ r2.files.live = d[r.session].live
    <3>1. CASE r.id # g.id
      BY <2>1, <2>2, <2>3, <3>1
    <3>2. CASE r.id = g.id
      <4>1. reply = "ok" /\ r2.files = files /\ p = << >>
        BY <2>1, <2>3, <3>2
      <4>2. g.session # NoSession
        BY <2>2, <3>2, StorageAssumption DEF StorageAssumption
      <4>3. files = d[r.session]
        BY <2>2, <3>2, <4>1, <4>2
      <4> QED
        BY <2>2, <3>2, <4>1, <4>3, NoneIs
    <3> QED
      BY <3>1, <3>2
  <2> QED
    BY <1>6, <2>1, <2>2, <2>3 DEF RestoreInv
<1>10. CommandInv(u, rs2, q, p, d, ow) /\ UsedInv(u, rs2, q, p, ow, sv)
  <2>1. /\ rs2.restore.id = rs.restore.id /\ rs2.command.id = rs.command.id
        /\ rs2.command.session = rs.command.session
    BY <1>2, <1>4
  <2> QED
    BY <1>1, <2>1 DEF CommandInv, UsedInv
<1>11. ExitInv(u, rs2, q, p, Resting)
  <2>1. /\ rs2.restore.id = rs.restore.id /\ rs2.command.id = rs.command.id
        /\ rs2.exit.id = rs.exit.id
        /\ rs.exit.id # g.id => rs2.exit = rs.exit
        /\ rs.exit.id = g.id => rs2.exit.reply = reply
    BY <1>2, <1>4
  <2>2. rs2.exit.reply = "ok" => q = << >> /\ p = << >>
    BY <1>1, <2>1 DEF ExitInv
  <2> QED
    BY <1>1, <1>6, <2>1, <2>2 DEF ExitInv
<1> QED
  BY <1>1, <1>7, <1>8, <1>9, <1>10, <1>11 DEF StorageState

\* A thread is created.
LEMMA ThreadCreated ==
  ASSUME NEW u, NEW rs, NEW q, NEW p, NEW g, NEW d, NEW ow, NEW sv, NEW n, NEW m,
         StorageState(u, rs, q, p, g, d, ow, sv, n, m),
         NEW t \in Sessions, NEW d2, d2 = [d EXCEPT ![t].exists = TRUE]
  PROVE  StorageState(u, rs, q, p, g, d2, ow, sv, n, m)
<1>1. d \in [Sessions -> Files] /\ u.session \in Sessions
  BY DEF StorageState, TypesInv, Interfaces
<1>2. d2 \in [Sessions -> Files]
      /\ \A s \in Sessions : /\ d2[s].turns = d[s].turns /\ d2[s].live = d[s].live
                             /\ d2[s].checkpoint = d[s].checkpoint
  <2>1. PICK f \in Files : f = [d[t] EXCEPT !.exists = TRUE] /\ f.turns = d[t].turns
                             /\ f.live = d[t].live /\ f.checkpoint = d[t].checkpoint
    <3>1. PICK y \in Files : y = d[t]
      BY <1>1
    <3>2. [y EXCEPT !.exists = TRUE] \in Files
      BY DEF Files
    <3>3. /\ [y EXCEPT !.exists = TRUE].turns = y.turns
          /\ [y EXCEPT !.exists = TRUE].live = y.live
          /\ [y EXCEPT !.exists = TRUE].checkpoint = y.checkpoint
      BY <3>1 DEF Files
    <3> QED
      BY <3>1, <3>2, <3>3
  <2>2. d2 = [d EXCEPT ![t] = f]
    BY <2>1
  <2> QED
    BY <1>1, <2>1, <2>2
<1>3. \A s \in Sessions : \A e : Stored(d2, s, e) <=> Stored(d, s, e)
  BY <1>2 DEF Stored
<1>4. /\ TypesInv(u, rs, q, p, g, d2, ow, sv, n, m) /\ KeptInv(q, p, d2, ow)
      /\ ActiveInv(u, q, p, d2, ow) /\ OrdinalInv(u, q, p, d2)
  BY <1>1, <1>2, <1>3
  DEF StorageState, TypesInv, KeptInv, ActiveInv, Turned, OrdinalInv
<1>5. LiveInv(u, q, p, d2, ow)
  <2>1. \A s \in Sessions : d2[s].live = d[s].live
    BY <1>2
  <2>2. \A s \in Sessions : \A e : FinallyLive(q, p, d2, s, e) <=> FinallyLive(q, p, d, s, e)
    BY <2>1, Zenon DEF FinallyLive
  <2> QED
    BY <2>2 DEF StorageState, LiveInv
<1>6. ShownInv(u, q, p, d2, ow, m)
  BY <1>2, <1>3 DEF StorageState, ShownInv
<1>7. RestoreInv(u, rs, q, p, g, d2) /\ CommandInv(u, rs, q, p, d2, ow)
  BY <1>2 DEF StorageState, RestoreInv, CommandInv
<1>8. CheckpointInv(u, q, p, d2, sv)
  BY <1>1, <1>2 DEF StorageState, CheckpointInv
<1> QED
  BY <1>4, <1>5, <1>6, <1>7, <1>8 DEF StorageState

-----------------------------------------------------------------------------
(* The actions of the interface.                                           *)

\* One request more in the channel.
LEMMA QueuedIs ==
  ASSUME NEW S, NEW q \in Seq(S), NEW w \in S
  PROVE  q \o <<w>> = Append(q, w) /\ q \o << >> = q
OBVIOUS

\* The last entry of a turn is replaced by another.
LEMMA LastReplaced ==
  ASSUME NEW a \in Seq(Nat), a # << >>, NEW e \in Nat
  PROVE  /\ Append(Front(a), e) \in Seq(Nat) /\ Last(a) \in Range(a)
         /\ Range(Append(Front(a), e)) \subseteq Range(a) \cup {e}
         /\ Range(a) \subseteq Range(Append(Front(a), e)) \cup {Last(a)}
         /\ e \in Range(Append(Front(a), e))
<1>1. PICK f \in Seq(Nat) : f = Front(a) /\ a = Append(f, Last(a)) /\ Last(a) \in Nat
  <2>1. Len(a) \in Nat /\ Len(a) >= 1 /\ Len(a) \in DOMAIN a
    OBVIOUS
  <2>2. Front(a) \in Seq(Nat) /\ Last(a) \in Nat /\ a = Append(Front(a), Last(a))
    BY <2>1 DEF Front, Last
  <2> QED
    BY <2>2
<1>2. \A x \in Nat : /\ Append(f, x) \in Seq(Nat)
                     /\ \A y : y \in Range(Append(f, x)) <=> y \in Range(f) \/ y = x
  <2> SUFFICES ASSUME NEW x \in Nat
               PROVE  /\ Append(f, x) \in Seq(Nat)
                      /\ \A y : y \in Range(Append(f, x)) <=> y \in Range(f) \/ y = x
    OBVIOUS
  <2>1. /\ DOMAIN Append(f, x) = DOMAIN f \cup {Len(f) + 1}
        /\ Append(f, x)[Len(f) + 1] = x
        /\ \A i \in DOMAIN f : Append(f, x)[i] = f[i]
        /\ Append(f, x) \in Seq(Nat)
    OBVIOUS
  <2> QED
    BY <2>1 DEF Range
<1> QED
  BY <1>1, <1>2

\* Everything shown so far is committed.
LEMMA CommittedKeeps ==
  ASSUME StorageInv, ui.phase = "running"
  PROVE  /\ StorageState(Committed, receivers, channel \o CommitWrites, worker.pending,
                         worker.doing, disk, owed, saved, requests, shown)
         /\ Committed \in Interfaces /\ Committed.session = ui.session
         /\ Committed.phase = "running" /\ Committed.active = << >>
<1>1. /\ StorageState(ui, receivers, channel, worker.pending, worker.doing, disk, owed,
                      saved, requests, shown)
      /\ TypesInv(ui, receivers, channel, worker.pending, worker.doing, disk, owed,
                  saved, requests, shown)
  BY DEF StorageInv, StorageState
<1>2. channel \in Seq(Requests) /\ ui \in Interfaces
  BY <1>1 DEF TypesInv, Requests
<1>3. /\ ui.session \in Sessions /\ ui.active \in Seq(Nat)
      /\ ui.ordinal \in Nat /\ ui.committed \in Nat
  BY <1>2 DEF Interfaces
<1>4. CASE ui.active = << >>
  <2>1. Committed = ui /\ CommitWrites = << >>
    BY <1>4 DEF Committed, CommitWrites
  <2>2. channel \o << >> = channel
    BY <1>2
  <2> QED
    BY <1>1, <1>2, <1>4, <2>1, <2>2
<1>5. CASE ui.active # << >>
  <2>1. Ordinal \in Nat /\ Ordinal >= ui.ordinal
    BY <1>3 DEF Ordinal
  <2>2. PICK o \in Nat : o = Ordinal
    BY <2>1
  <2>3. /\ CommitWrites = <<CommitTurn(ui.session, o, ui.active)>>
        /\ Committed = [ui EXCEPT !.active = << >>, !.committed = ui.committed + 1,
                                  !.ordinal = o + 1]
    BY <1>5, <2>2 DEF Committed, CommitWrites
  <2>4. /\ Committed \in Interfaces /\ Committed.session = ui.session
        /\ Committed.phase = ui.phase /\ Committed.active = << >>
        /\ Committed.ordinal = o + 1
    <3>1. PICK k \in Nat, c \in Nat, es \in Seq(Nat) :
            k = o + 1 /\ c = ui.committed + 1 /\ es = << >>
      <4>1. o + 1 \in Nat /\ ui.committed + 1 \in Nat
        BY <1>3
      <4> QED
        BY <4>1, NoneIs
    <3>2. Committed = [ui EXCEPT !.active = es, !.committed = c, !.ordinal = k]
      BY <2>3, <3>1
    <3>3. /\ [ui EXCEPT !.active = es, !.committed = c, !.ordinal = k] \in Interfaces
          /\ [ui EXCEPT !.active = es, !.committed = c, !.ordinal = k].session = ui.session
          /\ [ui EXCEPT !.active = es, !.committed = c, !.ordinal = k].phase = ui.phase
          /\ [ui EXCEPT !.active = es, !.committed = c, !.ordinal = k].active = es
          /\ [ui EXCEPT !.active = es, !.committed = c, !.ordinal = k].ordinal = k
      BY ONLY <1>2, k \in Nat, c \in Nat, es \in Seq(Nat) DEF Interfaces
    <3> QED
      BY <3>1, <3>2, <3>3
  <2>5. CommitTurn(ui.session, o, ui.active) \in Requests
    BY <1>3, <2>2, CommitIs DEF Requests
  <2>6. channel \o CommitWrites = Append(channel, CommitTurn(ui.session, o, ui.active))
    BY <1>2, <2>3, <2>5, QueuedIs
  <2>7. o \in Nat /\ o >= ui.ordinal /\ ui.phase = "running"
    BY <2>1, <2>2
  <2>8. StorageState(Committed, receivers, Append(channel, CommitTurn(ui.session, o, ui.active)),
                     worker.pending, worker.doing, disk, owed, saved, requests, shown)
    BY ONLY <1>1, <1>5, <2>4, <2>7, CommitKeeps
  <2> QED
    BY <2>4, <2>6, <2>8
<1> QED
  BY <1>4, <1>5

\* An entry is shown and recorded.
LEMMA Recorded ==
  ASSUME NEW u, NEW rs, NEW q, NEW p, NEW g, NEW d, NEW ow, NEW sv, NEW n, NEW m,
         StorageState(u, rs, q, p, g, d, ow, sv, n, m), u.phase = "running"
  PROVE  StorageState([u EXCEPT !.active = Append(@, m + 1)], rs,
                      q \o <<AppendLive(u.session, <<m + 1>>)>>, p, g, d,
                      [ow EXCEPT ![u.session] = @ \cup {m + 1}], sv, n, m + 1)
<1>1. TypesInv(u, rs, q, p, g, d, ow, sv, n, m)
  BY DEF StorageState
<1>2. /\ q \in Seq(Requests) /\ u \in Interfaces /\ m + 1 \in Nat /\ <<m + 1>> \in Seq(Nat)
      /\ u.session \in Sessions /\ u.active \in Seq(Nat) /\ ow \in [Sessions -> SUBSET Nat]
  BY <1>1 DEF TypesInv, Requests, Interfaces
<1>3. PICK u2 : u2 = [u EXCEPT !.active = Append(@, m + 1)]
  OBVIOUS
<1>4. PICK ow2 : ow2 = [ow EXCEPT ![u.session] = @ \cup {m + 1}]
  OBVIOUS
<1>5. /\ u2 \in Interfaces /\ u2.session = u.session /\ u2.phase = u.phase
      /\ u2.active = Append(u.active, m + 1) /\ u2.ordinal = u.ordinal
  <2>1. Append(u.active, m + 1) \in Seq(Nat)
    BY <1>2
  <2> QED
    BY <1>2, <1>3, <2>1 DEF Interfaces
<1>6. /\ ow2 \in [Sessions -> SUBSET Nat] /\ ow2[u.session] = ow[u.session] \cup {m + 1}
      /\ \A s \in Sessions : s # u.session => ow2[s] = ow[s]
  BY <1>2, <1>4
<1>7. AppendLive(u.session, <<m + 1>>) \in Requests
  BY <1>2 DEF AppendLive, Requests, Writes
<1>8. q \o <<AppendLive(u.session, <<m + 1>>)>> = Append(q, AppendLive(u.session, <<m + 1>>))
  BY <1>2, <1>7, QueuedIs
<1>9. StorageState(u, rs, q, p, g, d, ow, sv, n, m) /\ u.phase = "running"
  OBVIOUS
<1>10. StorageState(u2, rs, Append(q, AppendLive(u.session, <<m + 1>>)), p, g, d, ow2, sv, n, m + 1)
  BY ONLY <1>5, <1>6, <1>9, RecordKeeps
<1> QED
  BY ONLY <1>3, <1>4, <1>8, <1>10

\* A checkpoint is on its way.
LEMMA Checkpointed ==
  ASSUME NEW u, NEW rs, NEW q, NEW p, NEW g, NEW d, NEW ow, NEW sv, NEW n, NEW m,
         StorageState(u, rs, q, p, g, d, ow, sv, n, m), u.phase = "running"
  PROVE  /\ StorageState(u, rs, q \o <<Runtime(u.session, sv[u.session] + 1)>>, p, g, d,
                         ow, [sv EXCEPT ![u.session] = @ + 1], n, m)
         /\ [sv EXCEPT ![u.session] = @ + 1][u.session] > 0
         /\ \A s \in Sessions : s # u.session => [sv EXCEPT ![u.session] = @ + 1][s] = sv[s]
         /\ SomeSave(q \o <<Runtime(u.session, sv[u.session] + 1)>>, u.session)
<1>1. TypesInv(u, rs, q, p, g, d, ow, sv, n, m)
  BY DEF StorageState
<1>2. /\ q \in Seq(Requests) /\ u.session \in Sessions /\ sv \in [Sessions -> Nat]
      /\ sv[u.session] \in Nat
  BY <1>1 DEF TypesInv, Requests, Interfaces
<1>3. PICK sv2 : sv2 = [sv EXCEPT ![u.session] = @ + 1]
  OBVIOUS
<1>4. /\ sv2 \in [Sessions -> Nat] /\ sv2[u.session] = sv[u.session] + 1
      /\ \A s \in Sessions : s # u.session => sv2[s] = sv[s]
      /\ sv2[u.session] > 0
  BY <1>2, <1>3
<1>5. PICK w : w = Runtime(u.session, sv[u.session] + 1)
  OBVIOUS
<1>6. w \in Requests /\ Saves(w, u.session)
  BY <1>2, <1>5 DEF Runtime, Requests, Writes, Saves
<1>7. q \o <<w>> = Append(q, w)
  BY <1>2, <1>6, QueuedIs
<1>8. SomeSave(Append(q, w), u.session)
  BY <1>2, <1>6, AppendedIs
<1>9. StorageState(u, rs, q, p, g, d, ow, sv, n, m) /\ u.phase = "running"
  OBVIOUS
<1>10. StorageState(u, rs, Append(q, Runtime(u.session, sv[u.session] + 1)), p, g, d,
                    ow, sv2, n, m)
  BY ONLY <1>4, <1>9, SaveKeeps
<1> QED
  BY ONLY <1>3, <1>4, <1>5, <1>7, <1>8, <1>10

\* push_entry, push_notice and push_user.
LEMMA PushEntryKeeps ==
  ASSUME StorageInv, NEW user \in BOOLEAN, PushEntry(user)
  PROVE  StorageInv'
<1>1. /\ ui.phase = "running"
      /\ ui' = Showing(IF user THEN Committed ELSE ui)
      /\ channel' = channel \o (IF user THEN CommitWrites ELSE << >>)
                      \o LiveWrite(ui.session)
      /\ owed' = Owing(ui.session)
      /\ shown' = Entry
      /\ UNCHANGED <<receivers, worker, disk, saved, requests>>
  BY DEF PushEntry, Running
<1>2. PICK u, q :
        /\ u = (IF user THEN Committed ELSE ui)
        /\ q = channel \o (IF user THEN CommitWrites ELSE << >>)
        /\ StorageState(u, receivers, q, worker.pending, worker.doing, disk, owed, saved,
                        requests, shown)
        /\ u.phase = "running" /\ u.session = ui.session
  <2>1. CASE user
    BY <1>1, <2>1, CommittedKeeps
  <2>2. CASE ~user
    <3>1. channel \in Seq(Requests)
      BY DEF StorageInv, StorageState, TypesInv, Requests
    <3>2. channel \o << >> = channel
      BY <3>1
    <3> QED
      BY <1>1, <2>2, <3>2 DEF StorageInv
  <2> QED
    BY <2>1, <2>2
<1>3. StorageState([u EXCEPT !.active = Append(@, shown + 1)], receivers,
                   q \o <<AppendLive(u.session, <<shown + 1>>)>>, worker.pending,
                   worker.doing, disk, [owed EXCEPT ![u.session] = @ \cup {shown + 1}],
                   saved, requests, shown + 1)
  BY <1>2, Recorded
<1>4. /\ ui' = [u EXCEPT !.active = Append(@, shown + 1)]
      /\ channel' = q \o <<AppendLive(u.session, <<shown + 1>>)>>
      /\ owed' = [owed EXCEPT ![u.session] = @ \cup {shown + 1}]
      /\ shown' = shown + 1
  BY <1>1, <1>2, Zenon DEF Showing, LiveWrite, Owing, Entry
<1> QED
  BY <1>1, <1>3, <1>4 DEF StorageInv

\* finalize_agent_stream.
LEMMA ReplaceEntryKeeps ==
  ASSUME StorageInv, ReplaceEntry
  PROVE  StorageInv'
<1> DEFINE active == Append(Front(ui.active), Entry)
           last == Last(ui.active)
<1>1. /\ ui.phase = "running" /\ ui.active # << >>
      /\ ui' = [ui EXCEPT !.active = active]
      /\ channel' = Append(channel, ReplaceLive(ui.session, active))
      /\ owed' = [owed EXCEPT ![ui.session] = (@ \ {last}) \cup Range(active)]
      /\ shown' = shown + 1
      /\ UNCHANGED <<receivers, worker, disk, saved, requests>>
  BY Zenon DEF ReplaceEntry, Running, Entry
<1>2. /\ StorageState(ui, receivers, channel, worker.pending, worker.doing, disk, owed,
                      saved, requests, shown)
      /\ ui \in Interfaces /\ ui.active \in Seq(Nat) /\ ui.session \in Sessions
      /\ owed \in [Sessions -> SUBSET Nat] /\ shown \in Nat
  BY DEF StorageInv, StorageState, TypesInv, Interfaces
<1>3. /\ active \in Seq(Nat) /\ last \in Range(ui.active)
      /\ Range(active) \subseteq Range(ui.active) \cup {shown + 1}
      /\ Range(ui.active) \subseteq Range(active) \cup {last}
      /\ shown + 1 \in Range(active)
  <2>1. ui.active \in Seq(Nat) /\ ui.active # << >> /\ shown + 1 \in Nat
    BY <1>1, <1>2
  <2> QED
    BY <2>1, LastReplaced DEF Entry
<1> HIDE DEF active, last
<1>4. /\ ui' \in Interfaces /\ ui'.session = ui.session /\ ui'.phase = ui.phase
      /\ ui'.active = active /\ ui'.ordinal = ui.ordinal
  BY <1>1, <1>2, <1>3 DEF Interfaces
<1>5. /\ owed' \in [Sessions -> SUBSET Nat]
      /\ owed'[ui.session] = (owed[ui.session] \ {last}) \cup Range(active)
      /\ \A s \in Sessions : s # ui.session => owed'[s] = owed[s]
  <2>1. Range(active) \subseteq Nat
    BY <1>3 DEF Range
  <2> QED
    BY <1>1, <1>2, <2>1
<1>6. StorageState(ui', receivers, Append(channel, ReplaceLive(ui.session, active)),
                   worker.pending, worker.doing, disk, owed', saved, requests, shown + 1)
  BY ONLY <1>1, <1>2, <1>3, <1>4, <1>5, ReplaceKeeps
<1> QED
  BY <1>1, <1>6 DEF StorageInv

\* persist_runtime_state.
LEMMA PersistKeeps ==
  ASSUME StorageInv, PersistRuntimeState
  PROVE  StorageInv'
<1>1. /\ ui.phase = "running"
      /\ channel' = channel \o CheckpointWrites /\ saved' = Saved
      /\ UNCHANGED <<ui, receivers, worker, disk, owed, requests, shown>>
  BY DEF PersistRuntimeState, Running, counters
<1>2. CASE receivers.restore # NoReceipt
  <2>1. channel \in Seq(Requests)
    BY DEF StorageInv, StorageState, TypesInv, Requests
  <2>2. channel \o << >> = channel
    BY <2>1
  <2> QED
    BY <1>1, <1>2, <2>2 DEF StorageInv, CheckpointWrites, Saved
<1>3. CASE receivers.restore = NoReceipt
  <2>1. /\ channel' = channel \o <<Runtime(ui.session, saved[ui.session] + 1)>>
        /\ saved' = [saved EXCEPT ![ui.session] = @ + 1]
    BY <1>1, <1>3 DEF CheckpointWrites, Saved
  <2>2. StorageState(ui, receivers, channel \o <<Runtime(ui.session, saved[ui.session] + 1)>>,
                     worker.pending, worker.doing, disk, owed,
                     [saved EXCEPT ![ui.session] = @ + 1], requests, shown)
    BY <1>1, Checkpointed DEF StorageInv
  <2> QED
    BY <1>1, <2>1, <2>2 DEF StorageInv
<1> QED
  BY <1>2, <1>3

\* reset_transcript.
LEMMA ResetKeeps ==
  ASSUME StorageInv, ResetTranscript
  PROVE  StorageInv'
<1>1. /\ ui.phase = "running"
      /\ ui' = Showing([Committed EXCEPT !.committed = 0])
      /\ channel' = channel \o CommitWrites \o <<ClearLive(ui.session)>> \o LiveWrite(ui.session)
      /\ owed' = Owing(ui.session)
      /\ shown' = Entry
      /\ UNCHANGED <<receivers, worker, disk, saved, requests>>
  BY DEF ResetTranscript, Running
<1>2. PICK c, q :
        /\ c = Committed /\ q = channel \o CommitWrites
        /\ StorageState(c, receivers, q, worker.pending, worker.doing, disk, owed, saved,
                        requests, shown)
        /\ c \in Interfaces /\ c.session = ui.session
        /\ c.phase = "running" /\ c.active = << >>
  BY <1>1, CommittedKeeps
<1>3. PICK u : u = [c EXCEPT !.committed = 0]
  OBVIOUS
<1>4. /\ u \in Interfaces /\ u.session = c.session /\ u.phase = c.phase
      /\ u.active = << >> /\ u.ordinal = c.ordinal
  BY <1>2, <1>3 DEF Interfaces
<1>5. q \in Seq(Requests) /\ ClearLive(c.session) \in Requests
  <2>1. q \in Seq(Requests) /\ c.session \in Sessions
    BY <1>2 DEF StorageState, TypesInv, Requests, Interfaces
  <2> QED
    BY <2>1, ClearIs DEF Requests
<1>6. q \o <<ClearLive(c.session)>> = Append(q, ClearLive(c.session))
  BY <1>5, QueuedIs
<1>7. StorageState(u, receivers, Append(q, ClearLive(c.session)), worker.pending,
                   worker.doing, disk, owed, saved, requests, shown)
  BY ONLY <1>2, <1>4, ClearKeeps
<1>8. u.phase = "running" /\ u.session = ui.session
  BY <1>2, <1>4
<1>9. StorageState([u EXCEPT !.active = Append(@, shown + 1)], receivers,
                   Append(q, ClearLive(c.session)) \o <<AppendLive(u.session, <<shown + 1>>)>>,
                   worker.pending, worker.doing, disk,
                   [owed EXCEPT ![u.session] = @ \cup {shown + 1}], saved, requests, shown + 1)
  BY ONLY <1>7, <1>8, Recorded
<1>10. /\ ui' = [u EXCEPT !.active = Append(@, shown + 1)]
       /\ channel' = Append(q, ClearLive(c.session)) \o <<AppendLive(u.session, <<shown + 1>>)>>
       /\ owed' = [owed EXCEPT ![u.session] = @ \cup {shown + 1}]
       /\ shown' = shown + 1
  BY <1>1, <1>2, <1>3, <1>6, <1>8, Zenon DEF Showing, LiveWrite, Owing, Entry
<1> QED
  BY <1>1, <1>9, <1>10 DEF StorageInv

\* What precedes a request of the interface, and the notice that follows it.
LEMMA Asked ==
  ASSUME StorageInv, NEW r, NEW receipt, Ask(r, receipt),
         NEW u, u = Committed,
         NEW q, q = channel \o CommitWrites \o <<Runtime(ui.session, saved[ui.session] + 1)>>,
         NEW sv, sv = [saved EXCEPT ![ui.session] = @ + 1]
  PROVE  /\ StorageState(u, receivers, q, worker.pending, worker.doing, disk, owed, sv,
                         requests, shown)
         /\ u.phase = "running" /\ u.session = ui.session /\ q \in Seq(Requests)
         /\ sv[u.session] > 0
         /\ \A s \in Sessions : s # u.session => sv[s] = saved[s]
         /\ receivers.restore = NoReceipt /\ receivers.command = NoReceipt
         /\ ui' = [u EXCEPT !.active = Append(@, shown + 1)]
         /\ channel' = q \o <<r>> \o <<AppendLive(u.session, <<shown + 1>>)>>
         /\ saved' = sv /\ receivers' = receipt /\ requests' = requests + 1
         /\ owed' = [owed EXCEPT ![u.session] = @ \cup {shown + 1}]
         /\ shown' = shown + 1
         /\ UNCHANGED <<worker, disk>>
<1>1. /\ ui.phase = "running"
      /\ receivers.restore = NoReceipt /\ receivers.command = NoReceipt
      /\ ui' = Showing(Committed)
      /\ channel' = q \o <<r>> \o LiveWrite(ui.session)
      /\ saved' = sv
      /\ owed' = Owing(ui.session)
      /\ receivers' = receipt /\ requests' = requests + 1 /\ shown' = Entry
      /\ UNCHANGED <<worker, disk>>
  BY Zenon DEF Ask, Running, Busy, CheckpointWrites, Saved, NewId
<1>2. PICK q0 :
        /\ q0 = channel \o CommitWrites
        /\ StorageState(u, receivers, q0, worker.pending, worker.doing, disk, owed, saved,
                        requests, shown)
        /\ u.session = ui.session /\ u.phase = "running"
  BY <1>1, CommittedKeeps
<1>3. /\ q = q0 \o <<Runtime(u.session, saved[u.session] + 1)>>
      /\ sv = [saved EXCEPT ![u.session] = @ + 1]
  BY <1>2
<1>4. /\ StorageState(u, receivers, q0 \o <<Runtime(u.session, saved[u.session] + 1)>>,
                      worker.pending, worker.doing, disk, owed,
                      [saved EXCEPT ![u.session] = @ + 1], requests, shown)
      /\ [saved EXCEPT ![u.session] = @ + 1][u.session] > 0
      /\ \A s \in Sessions : s # u.session => [saved EXCEPT ![u.session] = @ + 1][s] = saved[s]
  BY ONLY <1>2, Checkpointed
<1>5. /\ StorageState(u, receivers, q, worker.pending, worker.doing, disk, owed, sv,
                      requests, shown)
      /\ sv[u.session] > 0
      /\ \A s \in Sessions : s # u.session => sv[s] = saved[s]
  BY <1>3, <1>4, Zenon
<1>6. q \in Seq(Requests)
  BY <1>5 DEF StorageState, TypesInv, Requests
<1>7. /\ ui' = [u EXCEPT !.active = Append(@, shown + 1)]
      /\ channel' = q \o <<r>> \o <<AppendLive(u.session, <<shown + 1>>)>>
      /\ owed' = [owed EXCEPT ![u.session] = @ \cup {shown + 1}]
      /\ shown' = shown + 1
  BY <1>1, <1>2, Zenon DEF Showing, LiveWrite, Owing, Entry
<1> QED
  BY <1>1, <1>2, <1>5, <1>6, <1>7, Zenon

\* request_restore.
LEMMA RequestRestoreKeeps ==
  ASSUME StorageInv, NEW s \in Sessions, RequestRestore(s)
  PROVE  StorageInv'
<1> DEFINE r == Read(requests + 1, s)
           receipt == [receivers EXCEPT !.restore = Waiting(requests + 1, s)]
<1>1. s # ui.session /\ Ask(r, receipt)
  BY DEF RequestRestore, NewId
<1>2. PICK rs : rs = receipt
  OBVIOUS
<1> HIDE DEF receipt
<1>3. PICK u, q, sv :
        /\ u = Committed
        /\ q = channel \o CommitWrites \o <<Runtime(ui.session, saved[ui.session] + 1)>>
        /\ sv = [saved EXCEPT ![ui.session] = @ + 1]
  OBVIOUS
<1>4. /\ StorageState(u, receivers, q, worker.pending, worker.doing, disk, owed, sv,
                      requests, shown)
      /\ u.phase = "running" /\ u.session = ui.session /\ q \in Seq(Requests)
      /\ sv[u.session] > 0
      /\ receivers.restore = NoReceipt /\ receivers.command = NoReceipt
      /\ ui' = [u EXCEPT !.active = Append(@, shown + 1)]
      /\ channel' = q \o <<r>> \o <<AppendLive(u.session, <<shown + 1>>)>>
      /\ saved' = sv /\ receivers' = receipt /\ requests' = requests + 1
      /\ owed' = [owed EXCEPT ![u.session] = @ \cup {shown + 1}]
      /\ shown' = shown + 1
      /\ UNCHANGED <<worker, disk>>
  BY ONLY StorageInv, <1>1, <1>3, Asked
<1>5. receivers.restore.id = 0 /\ receivers.command.id = 0 /\ s # u.session
  BY <1>1, <1>4 DEF NoReceipt
<1>6. rs = [receivers EXCEPT !.restore = Waiting(requests + 1, s)]
  BY <1>2 DEF receipt
<1>7. s \in Sessions
  OBVIOUS
<1>8. StorageState(u, rs, Append(q, Read(requests + 1, s)), worker.pending, worker.doing,
                   disk, owed, sv, requests + 1, shown)
  BY ONLY <1>4, <1>5, <1>6, <1>7, RestoreAsked
<1>9. q \o <<r>> = Append(q, Read(requests + 1, s))
  <2>1. requests \in Nat
    BY <1>4 DEF StorageState, TypesInv
  <2>2. r \in Requests
    BY <2>1 DEF Read, Requests, Barriers
  <2> QED
    BY <1>4, <2>2, QueuedIs
<1>10. StorageState([u EXCEPT !.active = Append(@, shown + 1)], rs,
                   Append(q, Read(requests + 1, s)) \o <<AppendLive(u.session, <<shown + 1>>)>>,
                   worker.pending, worker.doing, disk,
                   [owed EXCEPT ![u.session] = @ \cup {shown + 1}], sv, requests + 1, shown + 1)
  BY ONLY <1>4, <1>8, Recorded
<1> QED
  BY <1>2, <1>4, <1>9, <1>10 DEF StorageInv

\* start_new.
LEMMA StartNewKeeps ==
  ASSUME StorageInv, NEW s \in Sessions, StartNew(s)
  PROVE  StorageInv'
<1> DEFINE r == Command(requests + 1, s)
           receipt == [receivers EXCEPT !.command = Waiting(requests + 1, s)]
<1>1. /\ s # ui.session /\ disk[s] = NoFiles /\ saved[s] = 0 /\ owed[s] = {}
      /\ Ask(r, receipt)
  BY DEF StartNew, Unused, NewId
<1>2. PICK rs : rs = receipt
  OBVIOUS
<1> HIDE DEF receipt
<1>3. PICK u, q, sv :
        /\ u = Committed
        /\ q = channel \o CommitWrites \o <<Runtime(ui.session, saved[ui.session] + 1)>>
        /\ sv = [saved EXCEPT ![ui.session] = @ + 1]
  OBVIOUS
<1>4. /\ StorageState(u, receivers, q, worker.pending, worker.doing, disk, owed, sv,
                      requests, shown)
      /\ u.phase = "running" /\ u.session = ui.session /\ q \in Seq(Requests)
      /\ sv[u.session] > 0
      /\ receivers.restore = NoReceipt /\ receivers.command = NoReceipt
      /\ ui' = [u EXCEPT !.active = Append(@, shown + 1)]
      /\ channel' = q \o <<r>> \o <<AppendLive(u.session, <<shown + 1>>)>>
      /\ saved' = sv /\ receivers' = receipt /\ requests' = requests + 1
      /\ owed' = [owed EXCEPT ![u.session] = @ \cup {shown + 1}]
      /\ shown' = shown + 1
      /\ UNCHANGED <<worker, disk>>
  BY ONLY StorageInv, <1>1, <1>3, Asked, ZenonT(40)
<1>5. receivers.restore.id = 0 /\ receivers.command.id = 0
  BY <1>4 DEF NoReceipt
<1>6. rs = [receivers EXCEPT !.command = Waiting(requests + 1, s)]
  BY <1>2 DEF receipt
<1>7. /\ s \in Sessions /\ s # u.session
      /\ disk[s] = NoFiles /\ owed[s] = {} /\ sv[s] = 0
  <2>1. saved \in [Sessions -> Nat]
    BY DEF StorageInv, StorageState, TypesInv
  <2> QED
    BY <1>1, <1>3, <1>4, <2>1
<1>8. StorageState(u, rs, Append(q, Command(requests + 1, s)), worker.pending, worker.doing,
                   disk, owed, sv, requests + 1, shown)
  BY ONLY <1>4, <1>5, <1>6, <1>7, CommandAsked
<1>9. q \o <<r>> = Append(q, Command(requests + 1, s))
  <2>1. requests \in Nat
    BY <1>4 DEF StorageState, TypesInv
  <2>2. r \in Requests
    BY <2>1 DEF Command, Requests, Barriers
  <2> QED
    BY <1>4, <2>2, QueuedIs
<1>10. StorageState([u EXCEPT !.active = Append(@, shown + 1)], rs,
                   Append(q, Command(requests + 1, s)) \o <<AppendLive(u.session, <<shown + 1>>)>>,
                   worker.pending, worker.doing, disk,
                   [owed EXCEPT ![u.session] = @ \cup {shown + 1}], sv, requests + 1, shown + 1)
  BY ONLY <1>4, <1>8, Recorded
<1> QED
  BY <1>2, <1>4, <1>9, <1>10 DEF StorageInv

\* A finite set of numbers has a greatest one (finish_restore takes the next
\* ordinal after the turns it loaded).
LEMMA GreatestOf ==
  ASSUME NEW T \in SUBSET Nat, IsFiniteSet(T), T # {}
  PROVE  Max(T) \in T /\ \A y \in T : Max(T) >= y
<1> DEFINE Bad == {k \in Nat : k > 0 /\ \E f \in [1..k -> Nat] :
                                 \A i \in 1..k : \E j \in 1..k : f[i] < f[j]}
<1>1. Bad = {}
  <2> SUFFICES ASSUME Bad # {} PROVE FALSE
    OBVIOUS
  <2>1. PICK k \in Bad : \A l \in Bad : k <= l
    <3>1. Bad \in SUBSET Nat
      OBVIOUS
    <3> HIDE DEF Bad
    <3> QED
      BY <3>1, LeastNumber
  <2>2. /\ k \in Nat /\ k > 0
        /\ \E f \in [1..k -> Nat] : \A i \in 1..k : \E j \in 1..k : f[i] < f[j]
    BY <2>1
  <2>3. PICK f \in [1..k -> Nat] : \A i \in 1..k : \E j \in 1..k : f[i] < f[j]
    BY <2>2
  <2>4. CASE k = 1
    <3>1. 1 \in 1..k /\ f[1] \in Nat
      BY <2>2, <2>4
    <3>2. PICK j \in 1..k : f[1] < f[j]
      BY <2>3, <3>1
    <3>3. j = 1
      BY <2>4, <3>2
    <3> QED
      BY <3>1, <3>2, <3>3
  <2>5. CASE k # 1
    <3> DEFINE h == [i \in 1..(k - 1) |-> f[i]]
    <3> HIDE DEF Bad
    <3>1. k - 1 \in Nat /\ k - 1 > 0 /\ k - 1 \notin Bad
      BY <2>1, <2>2, <2>5
    <3>2. h \in [1..(k - 1) -> Nat]
      <4>1. \A i \in 1..(k - 1) : i \in 1..k
        BY <2>2
      <4> QED
        BY <4>1
    <3>3. \E i \in 1..(k - 1) : \A j \in 1..(k - 1) : ~(h[i] < h[j])
      BY <3>1, <3>2 DEF Bad
    <3>4. PICK i \in 1..(k - 1) : \A j \in 1..(k - 1) : ~(f[i] < f[j])
      BY <3>3
    <3>5. i \in 1..k /\ k \in 1..k /\ f[i] \in Nat /\ f[k] \in Nat
      BY <2>2, <3>4
    <3>6. PICK j \in 1..k : f[i] < f[j]
      BY <2>3, <3>5
    <3>7. j = k
      BY <2>2, <3>4, <3>6
    <3>8. PICK j2 \in 1..k : f[k] < f[j2]
      BY <2>3, <3>5
    <3>9. j2 \in 1..(k - 1) /\ f[j2] \in Nat
      BY <2>2, <3>5, <3>8
    <3> QED
      BY <3>4, <3>5, <3>6, <3>7, <3>8, <3>9
  <2> QED
    BY <2>4, <2>5
<1>2. PICK k \in Nat : ExistsSurjection(1..k, T)
  BY FS_NatSurjection
<1>3. PICK f \in [1..k -> T] : \A t \in T : \E i \in 1..k : f[i] = t
  BY <1>2 DEF ExistsSurjection, Surjection
<1>4. k > 0
  <2>1. PICK t \in T : TRUE
    OBVIOUS
  <2>2. PICK i \in 1..k : f[i] = t
    BY <1>3, <2>1
  <2> QED
    BY <2>2
<1>5. f \in [1..k -> Nat]
  BY <1>3
<1>6. PICK i \in 1..k : \A j \in 1..k : ~(f[i] < f[j])
  BY <1>1, <1>4, <1>5
<1>7. \E x \in T : \A y \in T : x >= y
  <2>1. f[i] \in T /\ f[i] \in Nat
    BY <1>3, <1>6
  <2>2. ASSUME NEW y \in T PROVE f[i] >= y
    <3>1. PICK j \in 1..k : f[j] = y
      BY <1>3
    <3> QED
      BY <1>6, <2>1, <3>1
  <2> QED
    BY <2>1, <2>2
<1> QED
  BY <1>7 DEF Max

\* What follows a thread that was taken, or not (Continue).
LEMMA Continued ==
  ASSUME NEW u, NEW dropped, Continue(u, dropped), worker \in Workers, u.phase = "running",
         StorageState(u, dropped, channel, worker.pending, worker.doing, disk, owed, saved,
                      requests, shown)
  PROVE  StorageInv'
<1>1. /\ ui' = [u EXCEPT !.active = Append(@, shown + 1)]
      /\ channel' = channel \o <<AppendLive(u.session, <<shown + 1>>)>>
      /\ owed' = [owed EXCEPT ![u.session] = @ \cup {shown + 1}]
      /\ shown' = shown + 1
      /\ receivers' = dropped
      /\ UNCHANGED <<worker, disk, saved, requests>>
  BY Zenon DEF Continue, Showing, LiveWrite, Owing, Entry
<1>2. /\ u.phase = "running"
      /\ StorageState(u, dropped, channel, worker.pending, worker.doing, disk, owed, saved,
                      requests, shown)
  OBVIOUS
<1>3. StorageState([u EXCEPT !.active = Append(@, shown + 1)], dropped,
                   channel \o <<AppendLive(u.session, <<shown + 1>>)>>, worker.pending,
                   worker.doing, disk, [owed EXCEPT ![u.session] = @ \cup {shown + 1}],
                   saved, requests, shown + 1)
  BY ONLY <1>2, Recorded
<1> QED
  BY <1>1, <1>3 DEF StorageInv

\* The state of the interface, as the lemmas take it.
LEMMA StateIs ==
  ASSUME StorageInv
  PROVE  /\ StorageState(ui, receivers, channel, worker.pending, worker.doing, disk, owed,
                         saved, requests, shown)
         /\ TypesInv(ui, receivers, channel, worker.pending, worker.doing, disk, owed,
                     saved, requests, shown)
         /\ RequestInv(receivers, channel, worker.doing, requests)
         /\ RestoreInv(ui, receivers, channel, worker.pending, worker.doing, disk)
         /\ CommandInv(ui, receivers, channel, worker.pending, disk, owed)
         /\ ExitInv(ui, receivers, channel, worker.pending, worker.doing)
         /\ worker \in Workers
         /\ receivers \in [restore : Receipts, command : Receipts, exit : Receipts]
         /\ ui \in Interfaces /\ ui.session \in Sessions /\ ui.active \in Seq(Nat)
         /\ channel \in Seq(Requests) /\ disk \in [Sessions -> Files]
         /\ requests \in Nat
BY DEF StorageInv, StorageState, TypesInv, Interfaces, Requests

\* The receivers, one at a time.
LEMMA ReceiversAre ==
  ASSUME StorageInv
  PROVE  /\ receivers.restore \in Receipts /\ receivers.command \in Receipts
         /\ receivers.exit \in Receipts
         /\ \A k \in {"restore", "command", "exit"} :
              /\ receivers[k].id \in Nat
              /\ receivers[k].id = 0 => receivers[k] = NoReceipt
              /\ receivers[k].reply # "none" => receivers[k].id > 0
         /\ receivers.restore.id = 0 \/ receivers.command.id = 0
<1>1. /\ receivers \in [restore : Receipts, command : Receipts, exit : Receipts]
      /\ RequestInv(receivers, channel, worker.doing, requests)
  BY StateIs
<1>2. DOMAIN receivers = {"restore", "command", "exit"}
  BY <1>1
<1>3. ASSUME NEW k \in {"restore", "command", "exit"}
      PROVE  /\ receivers[k].id \in Nat
             /\ receivers[k].id = 0 => receivers[k] = NoReceipt
             /\ receivers[k].reply # "none" => receivers[k].id > 0
  <2>1. receivers[k] \in Receipts
    BY <1>1
  <2>2. receivers[k].id \in Nat
    BY <2>1 DEF Receipts
  <2>3. receivers[k].id = 0 => receivers[k] = NoReceipt
    BY <1>1, <1>2 DEF RequestInv
  <2>4. NoReceipt.reply = "none"
    BY DEF NoReceipt
  <2> QED
    BY <2>2, <2>3, <2>4
<1> QED
  BY <1>1, <1>3 DEF RequestInv

\* finish_restore.
LEMMA FinishRestoreKeeps ==
  ASSUME StorageInv, FinishRestore
  PROVE  StorageInv'
<1> DEFINE r == receivers.restore
           next == NextOrdinal(r.files)
           loaded == [session |-> r.session, active |-> r.files.live,
                      committed |-> Cardinality(DOMAIN r.files.turns),
                      ordinal |-> next, phase |-> "running"]
<1>1. PICK rs : rs = [receivers EXCEPT !.restore = NoReceipt]
  OBVIOUS
<1>2. /\ r.reply \in {"ok", "failed"}
      /\ Continue(IF r.reply = "ok" THEN loaded ELSE ui, rs)
  BY <1>1 DEF FinishRestore
<1>3. ui.phase = "running"
  BY <1>2 DEF Continue, Running
<1>4. /\ r.id > 0 /\ receivers.command = NoReceipt /\ r \in Receipts
      /\ rs \in [restore : {NoReceipt}, command : {NoReceipt}, exit : {receivers.exit}]
  <2>1. r.id > 0 /\ r \in Receipts /\ r.id \in Nat
    BY <1>2, ReceiversAre
  <2>2. receivers.command = NoReceipt
    BY <2>1, ReceiversAre
  <2> QED
    BY <1>1, <2>1, <2>2, StateIs
<1>5. /\ StorageState(ui, receivers, channel, worker.pending, worker.doing, disk, owed,
                      saved, requests, shown)
      /\ worker \in Workers
  BY StateIs
<1>6. CASE r.reply = "failed"
  <2>1. rs \in [restore : {receivers.restore, NoReceipt},
                command : {receivers.command, NoReceipt}, exit : {receivers.exit}]
    BY <1>4
  <2>2. StorageState(ui, rs, channel, worker.pending, worker.doing, disk, owed, saved,
                     requests, shown)
    BY ONLY <1>5, <2>1, DropKeeps
  <2>3. Continue(ui, rs)
    BY <1>2, <1>6
  <2> QED
    BY ONLY <1>3, <1>5, <2>2, <2>3, Continued
<1>7. CASE r.reply = "ok"
  <2>1. PICK s : s = r.session
    OBVIOUS
  <2>2. /\ s \in Sessions /\ s # ui.session
        /\ ~SomeOf(channel, s) /\ ~SomeOf(worker.pending, s)
        /\ r.files.turns = disk[s].turns /\ r.files.live = disk[s].live
    BY <1>4, <1>7, <2>1, StateIs DEF RestoreInv
  <2>3. disk[s].turns \in TurnLogs /\ disk[s].live \in Seq(Nat)
    BY <2>2, StateIs DEF Files
  <2>4. PICK S \in SUBSET Nat : IsFiniteSet(S) /\ disk[s].turns \in [S -> Seq(Nat)]
    BY <2>3 DEF TurnLogs
  <2>5. PICK c \in Nat : c = Cardinality(DOMAIN r.files.turns)
    BY <2>2, <2>4, FS_CardinalityType
  <2>6. PICK k \in Nat : k = next /\ \A o \in DOMAIN disk[s].turns : o < k
    <3>1. DOMAIN disk[s].turns = S
      BY <2>4
    <3>2. CASE S = {}
      <4>1. disk[s].turns = << >>
        BY <2>4, <3>2
      <4> QED
        BY <2>2, <3>1, <3>2, <4>1 DEF NextOrdinal
    <3>3. CASE S # {}
      <4>1. Max(S) \in S /\ \A y \in S : Max(S) >= y
        BY <2>4, <3>3, GreatestOf
      <4>2. disk[s].turns # << >>
        BY <3>1, <3>3
      <4>3. next = Max(S) + 1
        BY <2>2, <3>1, <4>2 DEF NextOrdinal
      <4>4. PICK x \in Nat : x = Max(S)
        BY <2>4, <4>1
      <4>5. /\ x + 1 \in Nat /\ x + 1 = next
            /\ \A o \in DOMAIN disk[s].turns : o < x + 1
        <5>1. next = x + 1 /\ \A o \in S : x >= o
          BY <4>1, <4>3, <4>4, Zenon
        <5>2. \A o \in S : o < x + 1
          <6> SUFFICES ASSUME NEW o \in S PROVE o < x + 1
            OBVIOUS
          <6>1. PICK y \in Nat : y = o
            BY S \in SUBSET Nat, Zenon
          <6>2. x >= y
            BY <5>1, <6>1, Zenon
          <6> QED
            BY ONLY x \in Nat, y \in Nat, y = o, x >= y
        <5>3. x + 1 \in Nat
          BY ONLY x \in Nat
        <5> HIDE DEF next
        <5> QED
          BY <3>1, <5>1, <5>2, <5>3
      <4> QED
        BY <4>5
    <3> QED
      BY <3>2, <3>3
  <2>7. PICK u : u = [session |-> s, active |-> disk[s].live, committed |-> c,
                      ordinal |-> k, phase |-> "running"]
    OBVIOUS
  <2>8. /\ u \in Interfaces /\ u.phase = "running" /\ u.session = s
        /\ u.active = disk[s].live
        /\ \A o \in DOMAIN disk[s].turns : o < u.ordinal
    BY <2>2, <2>3, <2>6, <2>7, c \in Nat, k \in Nat DEF Interfaces
  <2>9. Continue(u, rs)
    <3>1. u = loaded
      BY ONLY <2>1, <2>2, <2>5, <2>6, <2>7
    <3> QED
      BY <1>2, <1>7, <3>1
  <2>10. receivers.restore.id > 0 \/ receivers.command.id > 0
    BY <1>4
  <2>11. StorageState(u, rs, channel, worker.pending, worker.doing, disk, owed, saved,
                      requests, shown)
    BY ONLY <1>3, <1>4, <1>5, <2>2, <2>8, <2>10, AdoptKeeps
  <2> QED
    BY ONLY <1>5, <2>8, <2>9, <2>11, Continued
<1> QED
  BY <1>2, <1>6, <1>7

\* finish (pending_command).
LEMMA FinishNewKeeps ==
  ASSUME StorageInv, FinishNew
  PROVE  StorageInv'
<1> DEFINE r == receivers.command
           created == [session |-> r.session, active |-> << >>, committed |-> 0,
                       ordinal |-> 0, phase |-> "running"]
<1>1. PICK rs : rs = [receivers EXCEPT !.command = NoReceipt]
  OBVIOUS
<1>2. /\ r.reply \in {"ok", "failed"}
      /\ Continue(IF r.reply = "ok" THEN created ELSE ui, rs)
  BY <1>1 DEF FinishNew
<1>3. ui.phase = "running"
  BY <1>2 DEF Continue, Running
<1>4. /\ r.id > 0 /\ receivers.restore = NoReceipt /\ r \in Receipts
      /\ rs \in [restore : {NoReceipt}, command : {NoReceipt}, exit : {receivers.exit}]
  <2>1. r.id > 0 /\ r \in Receipts /\ r.id \in Nat
    BY <1>2, ReceiversAre
  <2>2. receivers.restore = NoReceipt
    BY <2>1, ReceiversAre
  <2> QED
    BY <1>1, <2>1, <2>2, StateIs
<1>5. /\ StorageState(ui, receivers, channel, worker.pending, worker.doing, disk, owed,
                      saved, requests, shown)
      /\ worker \in Workers
  BY StateIs
<1>6. CASE r.reply = "failed"
  <2>1. rs \in [restore : {receivers.restore, NoReceipt},
                command : {receivers.command, NoReceipt}, exit : {receivers.exit}]
    BY <1>4
  <2>2. StorageState(ui, rs, channel, worker.pending, worker.doing, disk, owed, saved,
                     requests, shown)
    BY ONLY <1>5, <2>1, DropKeeps
  <2>3. Continue(ui, rs)
    BY <1>2, <1>6
  <2> QED
    BY ONLY <1>3, <1>5, <2>2, <2>3, Continued
<1>7. CASE r.reply = "ok"
  <2>1. PICK s : s = r.session
    OBVIOUS
  <2>2. /\ s \in Sessions /\ s # ui.session
        /\ ~SomeOf(channel, s) /\ ~SomeOf(worker.pending, s)
        /\ disk[s].turns = << >> /\ disk[s].live = << >>
    BY <1>4, <2>1, StateIs DEF CommandInv
  <2>3. PICK u : u = [session |-> s, active |-> << >>, committed |-> 0,
                      ordinal |-> 0, phase |-> "running"]
    OBVIOUS
  <2>4. /\ u \in Interfaces /\ u.phase = "running" /\ u.session = s
        /\ u.active = disk[s].live
        /\ \A o \in DOMAIN disk[s].turns : o < u.ordinal
    BY <2>2, <2>3, NoneIs DEF Interfaces
  <2>5. Continue(u, rs)
    <3>1. u = created
      BY ONLY <2>1, <2>3
    <3> QED
      BY <1>2, <1>7, <3>1
  <2>6. receivers.restore.id > 0 \/ receivers.command.id > 0
    BY <1>4
  <2>7. StorageState(u, rs, channel, worker.pending, worker.doing, disk, owed, saved,
                     requests, shown)
    BY ONLY <1>3, <1>4, <1>5, <2>2, <2>4, <2>6, AdoptKeeps
  <2> QED
    BY ONLY <1>5, <2>4, <2>5, <2>7, Continued
<1> QED
  BY <1>2, <1>6, <1>7

\* cancel_restore.
LEMMA CancelKeeps ==
  ASSUME StorageInv, CancelRestore
  PROVE  StorageInv'
<1>1. /\ receivers' = [receivers EXCEPT !.restore = NoReceipt]
      /\ UNCHANGED <<ui, channel, worker, disk, owed, saved, requests, shown>>
  BY DEF CancelRestore, counters
<1>2. receivers' \in [restore : {receivers.restore, NoReceipt},
                      command : {receivers.command, NoReceipt}, exit : {receivers.exit}]
  BY <1>1, StateIs
<1>3. StorageState(ui, receivers', channel, worker.pending, worker.doing, disk, owed, saved,
                   requests, shown)
  BY <1>2, StateIs, DropKeeps
<1> QED
  BY <1>1, <1>3, StateIs DEF StorageInv

\* The commands that leave: the checkpoint and the request at the end.
LEMMA LeaveKeeps ==
  ASSUME StorageInv, NEW phase \in {"saving", "flushing"}, Leave(phase)
  PROVE  StorageInv'
<1>1. /\ ui.phase = "running"
      /\ ui' = [(IF phase = "saving" THEN [Committed EXCEPT !.active = Append(@, shown + 1)]
                 ELSE Committed) EXCEPT !.phase = phase]
      /\ shown' = IF phase = "saving" THEN shown + 1 ELSE shown
      /\ channel' = channel \o CommitWrites
                      \o <<Runtime(ui.session, saved[ui.session] + 1),
                           Read(requests + 1, NoSession)>>
      /\ saved' = [saved EXCEPT ![ui.session] = @ + 1]
      /\ receivers' = [receivers EXCEPT !.restore = NoReceipt,
                                        !.exit = Waiting(requests + 1, NoSession)]
      /\ requests' = requests + 1
      /\ UNCHANGED <<worker, disk, owed>>
  BY Zenon DEF Leave, Running, Showing, Entry, NewId
<1>2. PICK c, q0 :
        /\ c = Committed /\ q0 = channel \o CommitWrites
        /\ StorageState(c, receivers, q0, worker.pending, worker.doing, disk, owed, saved,
                        requests, shown)
        /\ c \in Interfaces /\ c.session = ui.session
        /\ c.phase = "running" /\ c.active = << >>
  BY <1>1, CommittedKeeps
<1>3. PICK q, sv, v :
        /\ v = Runtime(c.session, saved[c.session] + 1)
        /\ q = q0 \o <<v>>
        /\ sv = [saved EXCEPT ![c.session] = @ + 1]
  OBVIOUS
<1>4. StorageState(c, receivers, q, worker.pending, worker.doing, disk, owed, sv,
                   requests, shown) /\ SomeSave(q, c.session)
  BY ONLY <1>2, <1>3, Checkpointed
<1>5. PICK w, rs : /\ w = Read(requests + 1, NoSession)
                   /\ rs = [receivers EXCEPT !.restore = NoReceipt,
                                             !.exit = Waiting(requests + 1, NoSession)]
  OBVIOUS
<1>6. /\ w \in Barriers /\ w.id = requests + 1
      /\ rs \in [restore : {NoReceipt}, command : {receivers.command},
                 exit : {Waiting(requests + 1, NoSession)}]
  <2>1. requests + 1 \in Nat \ {0}
    BY StateIs
  <2>2. w \in Barriers /\ w.id = requests + 1
    BY <1>5, <2>1 DEF Read, Barriers
  <2>3. PICK x : x = Waiting(requests + 1, NoSession)
    OBVIOUS
  <2>4. receivers \in [restore : Receipts, command : Receipts, exit : Receipts]
    BY StateIs
  <2>5. rs = [receivers EXCEPT !.restore = NoReceipt, !.exit = x]
    BY <1>5, <2>3
  <2>6. rs \in [restore : {NoReceipt}, command : {receivers.command}, exit : {x}]
    BY ONLY <2>4, <2>5
  <2> QED
    BY <2>2, <2>3, <2>6
<1>7. PICK u : u = [c EXCEPT !.phase = phase]
  OBVIOUS
<1>8. /\ u \in Interfaces /\ u.session = c.session /\ u.active = c.active
      /\ u.ordinal = c.ordinal /\ u.phase = phase
  BY <1>2, <1>7 DEF Interfaces, Leaving
<1>9. \/ /\ c.phase = "running" /\ u.phase \in {"saving", "flushing"}
         /\ c.active = << >> /\ SomeSave(q, c.session)
      \/ c.phase \in {"saving", "flushing"} /\ u.phase \in {"flushing", "stopping"}
  BY <1>2, <1>4, <1>8
<1>10. StorageState(u, rs, Append(q, w), worker.pending, worker.doing, disk, owed, sv,
                    requests + 1, shown)
  BY ONLY <1>4, <1>6, <1>8, <1>9, ExitAsked
<1>11. channel' = Append(q, w)
  <2>1. q0 \in Seq(Requests) /\ v \in Requests /\ w \in Requests
    <3>1. q0 \in Seq(Requests) /\ saved[c.session] + 1 \in Nat /\ c.session \in Sessions
      BY <1>2 DEF StorageState, TypesInv, Requests, Interfaces
    <3> QED
      BY <1>3, <1>6, <3>1, RuntimeIs DEF Requests
  <2>2. \A a \in Seq(Requests) : \A x, y \in Requests :
          a \o <<x, y>> = Append(a \o <<x>>, y)
    OBVIOUS
  <2>3. channel' = q0 \o <<v, w>>
    BY <1>1, <1>2, <1>3, <1>5, Zenon
  <2> QED
    BY <1>3, <2>1, <2>2, <2>3, Zenon
<1>12. saved' = sv /\ receivers' = rs
  BY <1>1, <1>2, <1>3, <1>5, Zenon
<1>13. CASE phase = "saving"
  <2>1. PICK a : a = Append(u.active, shown + 1)
    OBVIOUS
  <2>2. a \in Seq(Nat)
    <3>1. u.active \in Seq(Nat) /\ shown + 1 \in Nat
      BY <1>8, <1>10 DEF Interfaces, StorageState, TypesInv
    <3> QED
      BY <2>1, <3>1
  <2>3. ui' = [[c EXCEPT !.active = a] EXCEPT !.phase = phase]
    BY <1>1, <1>2, <1>8, <1>13, <2>1
  <2>4. PICK c2 \in Interfaces : /\ c2 = [c EXCEPT !.active = a]
                                 /\ c2.session = c.session /\ c2.active = a
                                 /\ c2.ordinal = c.ordinal
    <3>1. /\ [c EXCEPT !.active = a] \in Interfaces
          /\ [c EXCEPT !.active = a].session = c.session
          /\ [c EXCEPT !.active = a].active = a
          /\ [c EXCEPT !.active = a].ordinal = c.ordinal
      BY <1>2, <2>2 DEF Interfaces
    <3> QED
      BY <3>1
  <2>5. /\ ui' \in Interfaces /\ ui'.session = u.session /\ ui'.phase = u.phase
        /\ ui'.active = Append(u.active, shown + 1) /\ ui'.ordinal = u.ordinal
    <3>1. ui' = [c2 EXCEPT !.phase = phase]
      BY <2>3, <2>4
    <3>2. /\ ui' \in Interfaces /\ ui'.session = c2.session /\ ui'.phase = phase
          /\ ui'.active = c2.active /\ ui'.ordinal = c2.ordinal
      BY ONLY <3>1, c2 \in Interfaces, phase \in {"saving", "flushing"} DEF Interfaces, Leaving
    <3> QED
      BY <1>8, <2>1, <2>4, <3>2
  <2>6. u.phase = "saving"
    BY <1>8, <1>13
  <2>7. StorageState(ui', rs, Append(q, w), worker.pending, worker.doing, disk, owed, sv,
                     requests + 1, shown + 1)
    BY ONLY <1>10, <2>5, <2>6, ShowKeeps
  <2> QED
    BY <1>1, <1>11, <1>12, <1>13, <2>7, StateIs DEF StorageInv
<1>14. CASE phase = "flushing"
  <2>1. ui' = u /\ shown' = shown
    BY <1>1, <1>2, <1>7, <1>14
  <2> QED
    BY <1>1, <1>10, <1>11, <1>12, <2>1, StateIs DEF StorageInv
<1> QED
  BY <1>13, <1>14

\* Esc while the session is saved.
LEMMA StayKeeps ==
  ASSUME StorageInv, StayInstead
  PROVE  StorageInv'
<1>1. PICK u, rs : /\ u = [ui EXCEPT !.phase = "running"]
                   /\ rs = [receivers EXCEPT !.exit = NoReceipt]
  OBVIOUS
<1>2. /\ ui.phase = "saving"
      /\ ui' = [u EXCEPT !.active = Append(@, shown + 1)]
      /\ channel' = channel \o <<AppendLive(ui.session, <<shown + 1>>)>>
      /\ owed' = [owed EXCEPT ![ui.session] = @ \cup {shown + 1}]
      /\ shown' = shown + 1
      /\ receivers' = rs
      /\ UNCHANGED <<worker, disk, saved, requests>>
  BY <1>1, Zenon DEF StayInstead, Showing, LiveWrite, Owing, Entry
<1>3. /\ u \in Interfaces /\ u.session = ui.session /\ u.active = ui.active
      /\ u.ordinal = ui.ordinal /\ u.phase = "running"
  BY <1>1, StateIs DEF Interfaces
<1>4. rs \in [restore : {NoReceipt}, command : {receivers.command, NoReceipt},
              exit : {NoReceipt}]
  <2>1. receivers.restore = NoReceipt
    BY <1>2, StateIs, ReceiversAre DEF ExitInv
  <2> QED
    BY <1>1, <2>1, StateIs
<1>5. /\ ui.phase \in Leaving
      /\ \/ ui.phase = "saving" /\ u.phase = "running"
         \/ /\ u.phase \in {"failed", "exited"} /\ rs.command = NoReceipt
            /\ u.phase = "exited" => receivers.exit.reply = "ok"
      /\ StorageState(ui, receivers, channel, worker.pending, worker.doing, disk, owed,
                      saved, requests, shown)
  BY <1>2, <1>3, StateIs DEF Leaving
<1>6. StorageState(u, rs, channel, worker.pending, worker.doing, disk, owed, saved,
                   requests, shown)
  BY ONLY <1>3, <1>4, <1>5, ExitEnds
<1>7. StorageState([u EXCEPT !.active = Append(@, shown + 1)], rs,
                   channel \o <<AppendLive(u.session, <<shown + 1>>)>>, worker.pending,
                   worker.doing, disk, [owed EXCEPT ![u.session] = @ \cup {shown + 1}],
                   saved, requests, shown + 1)
  BY ONLY <1>3, <1>6, Recorded
<1> QED
  BY <1>2, <1>3, <1>7, StateIs DEF StorageInv

\* What an answer leads to.
LEMMA AfterAnswerIs ==
  ASSUME ui.phase \in {"saving", "flushing", "stopping"},
         NEW ok \in BOOLEAN, NEW closed \in BOOLEAN, closed => ui.phase = "saving" /\ ~ok
  PROVE  \/ /\ ui.phase = "saving" /\ AfterAnswer(ok, closed) = "flushing"
         \/ /\ ui.phase = "flushing" /\ AfterAnswer(ok, closed) = "stopping"
         \/ /\ ui.phase = "saving" /\ AfterAnswer(ok, closed) = "running"
         \/ /\ ui.phase = "stopping" /\ ok /\ AfterAnswer(ok, closed) = "exited"
         \/ /\ ui.phase \in {"flushing", "stopping"} /\ AfterAnswer(ok, closed) = "failed"
<1>1. CASE ui.phase = "saving" /\ (ok \/ closed)
  BY <1>1, Zenon DEF AfterAnswer
<1>2. CASE ui.phase = "saving" /\ ~ok /\ ~closed
  BY <1>2, Zenon DEF AfterAnswer
<1>3. CASE ui.phase = "flushing" /\ ok
  BY <1>3, Zenon DEF AfterAnswer
<1>4. CASE ui.phase = "stopping" /\ ok
  BY <1>4, Zenon DEF AfterAnswer
<1>5. CASE ui.phase \in {"flushing", "stopping"} /\ ~ok
  BY <1>5, Zenon DEF AfterAnswer
<1> QED
  BY <1>1, <1>2, <1>3, <1>4, <1>5

\* The answers on the way out.
LEMMA ExitAnsweredKeeps ==
  ASSUME StorageInv, NEW closed \in BOOLEAN, ExitAnswered(closed)
  PROVE  StorageInv'
<1> DEFINE ok == receivers.exit.reply = "ok"
           next == AfterAnswer(ok, closed)
<1>1. /\ ok \in BOOLEAN
      /\ ok <=> receivers.exit.reply = "ok"
      /\ next = AfterAnswer(ok, closed)
      /\ receivers.exit.reply \in {"ok", "failed"}
      /\ closed => ui.phase = "saving" /\ ~ok
      /\ ui' = [(IF next = "running" THEN [ui EXCEPT !.active = Append(@, shown + 1)]
                 ELSE ui) EXCEPT !.phase = next]
      /\ shown' = IF next = "running" THEN shown + 1 ELSE shown
      /\ requests' = IF next \in {"flushing", "stopping"} THEN requests + 1 ELSE requests
      /\ next = "flushing" => channel' = Append(channel, Read(requests + 1, NoSession))
      /\ next = "stopping" => channel' = Append(channel, StopWorker(requests + 1))
      /\ next \in {"running", "exited", "failed"} => channel' = channel
      /\ receivers' = [receivers EXCEPT
           !.exit = IF next \in {"flushing", "stopping"}
                    THEN Waiting(requests + 1, NoSession) ELSE NoReceipt,
           !.command = IF next \in {"exited", "failed"} THEN NoReceipt ELSE @]
      /\ UNCHANGED <<worker, disk, owed, saved>>
  <2>1. next = "flushing" => channel' = Append(channel, Read(requests + 1, NoSession))
    BY Zenon DEF ExitAnswered, NewId
  <2>2. next = "stopping" => channel' = Append(channel, StopWorker(requests + 1))
    BY Zenon DEF ExitAnswered, NewId
  <2>3. next \in {"running", "exited", "failed"} => channel' = channel
    BY Zenon DEF ExitAnswered, NewId
  <2>4. ok \in BOOLEAN
    OBVIOUS
  <2>5. /\ receivers.exit.reply \in {"ok", "failed"}
        /\ closed => ui.phase = "saving" /\ ~ok
        /\ ui' = [(IF next = "running" THEN [ui EXCEPT !.active = Append(@, shown + 1)]
                   ELSE ui) EXCEPT !.phase = next]
        /\ shown' = IF next = "running" THEN shown + 1 ELSE shown
        /\ requests' = IF next \in {"flushing", "stopping"} THEN requests + 1 ELSE requests
        /\ receivers' = [receivers EXCEPT
             !.exit = IF next \in {"flushing", "stopping"}
                      THEN Waiting(requests + 1, NoSession) ELSE NoReceipt,
             !.command = IF next \in {"exited", "failed"} THEN NoReceipt ELSE @]
        /\ UNCHANGED <<worker, disk, owed, saved>>
    BY Zenon DEF ExitAnswered, NewId, Showing, Entry
  <2>6. (ok <=> receivers.exit.reply = "ok") /\ next = AfterAnswer(ok, closed)
    OBVIOUS
  <2> HIDE DEF next, ok
  <2> QED
    BY <2>1, <2>2, <2>3, <2>4, <2>5, <2>6
<1> HIDE DEF next, ok
<1>2. ui.phase \in {"saving", "flushing", "stopping"} /\ receivers.restore = NoReceipt
  <2>1. receivers.exit.id > 0
    BY <1>1, ReceiversAre
  <2>2. ui.phase \in {"saving", "flushing", "stopping"}
    BY <2>1, StateIs, ReceiversAre DEF ExitInv
  <2>3. receivers.restore.id = 0
    BY <2>2, StateIs DEF ExitInv
  <2> QED
    BY <2>2, <2>3, ReceiversAre
<1>3. \/ ui.phase = "saving" /\ next = "flushing"
      \/ ui.phase = "flushing" /\ next = "stopping"
      \/ ui.phase = "saving" /\ next = "running"
      \/ ui.phase = "stopping" /\ ok /\ next = "exited"
      \/ ui.phase \in {"flushing", "stopping"} /\ next = "failed"
  BY ONLY <1>1, <1>2, closed \in BOOLEAN, AfterAnswerIs
<1>4. PICK u : u = [ui EXCEPT !.phase = next]
  OBVIOUS
<1>5. /\ u \in Interfaces /\ u.session = ui.session /\ u.active = ui.active
      /\ u.ordinal = ui.ordinal /\ u.phase = next
  BY <1>3, <1>4, StateIs DEF Interfaces, Leaving
<1>6. /\ StorageState(ui, receivers, channel, worker.pending, worker.doing, disk, owed,
                      saved, requests, shown)
      /\ receivers \in [restore : Receipts, command : Receipts, exit : Receipts]
      /\ requests + 1 \in Nat \ {0}
  BY StateIs
<1>7. CASE next \in {"flushing", "stopping"}
  <2>1. PICK w, x : /\ w = IF next = "flushing" THEN Read(requests + 1, NoSession)
                           ELSE StopWorker(requests + 1)
                    /\ x = Waiting(requests + 1, NoSession)
    OBVIOUS
  <2>2. w \in Barriers /\ w.id = requests + 1
    BY <1>6, <2>1 DEF Read, StopWorker, Barriers
  <2>3. channel' = Append(channel, w)
    BY <1>1, <1>7, <2>1, Zenon
  <2>4. receivers' = [receivers EXCEPT !.exit = x]
    <3>1. receivers' = [receivers EXCEPT !.exit = x, !.command = receivers.command]
      BY <1>1, <1>7, <2>1
    <3> QED
      BY <1>6, <3>1
  <2>5. receivers' \in [restore : {NoReceipt}, command : {receivers.command}, exit : {x}]
    BY <1>2, <1>6, <2>4
  <2>6. receivers' \in [restore : {NoReceipt}, command : {receivers.command},
                        exit : {Waiting(requests + 1, NoSession)}]
    BY <2>1, <2>5
  <2>7. \/ /\ ui.phase = "running" /\ u.phase \in {"saving", "flushing"}
           /\ ui.active = << >> /\ SomeSave(channel, ui.session)
        \/ ui.phase \in {"saving", "flushing"} /\ u.phase \in {"flushing", "stopping"}
    BY <1>3, <1>5, <1>7
  <2>8. StorageState(u, receivers', Append(channel, w), worker.pending, worker.doing, disk,
                     owed, saved, requests + 1, shown)
    BY ONLY <1>5, <1>6, <2>2, <2>6, <2>7, ExitAsked
  <2>9. ui' = u /\ shown' = shown /\ requests' = requests + 1
    BY <1>1, <1>4, <1>7
  <2> QED
    BY <1>1, <2>3, <2>8, <2>9, StateIs DEF StorageInv
<1>8. CASE next \in {"exited", "failed"}
  <2>1. receivers' = [receivers EXCEPT !.exit = NoReceipt, !.command = NoReceipt]
    BY <1>1, <1>8
  <2>2. /\ receivers' \in [restore : {NoReceipt}, command : {receivers.command, NoReceipt},
                           exit : {NoReceipt}]
        /\ receivers'.command = NoReceipt
    BY <1>2, <1>6, <2>1
  <2>3. /\ ui.phase \in Leaving
        /\ \/ ui.phase = "saving" /\ u.phase = "running"
           \/ /\ u.phase \in {"failed", "exited"} /\ receivers'.command = NoReceipt
              /\ u.phase = "exited" => receivers.exit.reply = "ok"
    BY <1>1, <1>2, <1>3, <1>5, <1>8, <2>2 DEF Leaving
  <2>4. StorageState(u, receivers', channel, worker.pending, worker.doing, disk, owed, saved,
                     requests, shown)
    BY ONLY <1>5, <1>6, <2>2, <2>3, ExitEnds
  <2>5. ui' = u /\ shown' = shown /\ requests' = requests /\ channel' = channel
    BY <1>1, <1>4, <1>8
  <2> QED
    BY <1>1, <2>4, <2>5, StateIs DEF StorageInv
<1>9. CASE next = "running"
  <2>1. PICK a : a = Append(ui.active, shown + 1)
    OBVIOUS
  <2>2. a \in Seq(Nat)
    <3>1. ui.active \in Seq(Nat) /\ shown + 1 \in Nat
      BY StateIs DEF TypesInv
    <3> QED
      BY <2>1, <3>1
  <2>3. PICK c : c = [ui EXCEPT !.active = a]
    OBVIOUS
  <2>4. /\ c \in Interfaces /\ c.session = ui.session /\ c.phase = ui.phase
        /\ c.active = Append(ui.active, shown + 1) /\ c.ordinal = ui.ordinal
        /\ c.active = a
    BY <2>1, <2>2, <2>3, StateIs DEF Interfaces
  <2>5. ui.phase = "saving"
    BY <1>3, <1>9
  <2>6. StorageState(c, receivers, channel, worker.pending, worker.doing, disk, owed, saved,
                     requests, shown + 1)
    BY ONLY <1>6, <2>4, <2>5, ShowKeeps
  <2>7. ui' = [c EXCEPT !.phase = "running"]
    BY <1>1, <1>9, <2>1, <2>3
  <2>8. /\ ui' \in Interfaces /\ ui'.session = c.session /\ ui'.active = c.active
        /\ ui'.ordinal = c.ordinal /\ ui'.phase = "running"
    BY ONLY <2>4, <2>7 DEF Interfaces
  <2>9. receivers' = [receivers EXCEPT !.exit = NoReceipt]
    <3>1. receivers' = [receivers EXCEPT !.exit = NoReceipt, !.command = receivers.command]
      BY <1>1, <1>9
    <3> QED
      BY <1>6, <3>1
  <2>10. receivers' \in [restore : {NoReceipt}, command : {receivers.command, NoReceipt},
                         exit : {NoReceipt}]
    BY <1>2, <1>6, <2>9
  <2>11. /\ c.phase \in Leaving
         /\ \/ c.phase = "saving" /\ ui'.phase = "running"
            \/ /\ ui'.phase \in {"failed", "exited"} /\ receivers'.command = NoReceipt
               /\ ui'.phase = "exited" => receivers.exit.reply = "ok"
    BY <2>4, <2>5, <2>8 DEF Leaving
  <2>12. StorageState(ui', receivers', channel, worker.pending, worker.doing, disk, owed,
                      saved, requests, shown + 1)
    BY ONLY <2>6, <2>8, <2>10, <2>11, ExitEnds
  <2>13. shown' = shown + 1 /\ requests' = requests /\ channel' = channel
    BY <1>1, <1>9
  <2> QED
    BY <1>1, <2>12, <2>13, StateIs DEF StorageInv
<1> QED
  BY <1>3, <1>7, <1>8, <1>9

-----------------------------------------------------------------------------
(* The steps of the worker.                                                *)

\* What the worker is, one field at a time.
LEMMA WorkerIs ==
  ASSUME NEW w \in Workers
  PROVE  /\ DOMAIN w = {"alive", "pending", "canMerge", "doing", "error"}
         /\ w.pending \in Seq(Writes) /\ w.doing \in Barriers \cup {Resting, Timer, Dropped}
BY DEF Workers

\* recv_timeout: a write.
LEMMA TakeWriteKeeps ==
  ASSUME StorageInv, TakeWrite
  PROVE  StorageInv'
<1>1. PICK w, t, p2 :
        /\ w = Head(channel) /\ t = Tail(channel)
        /\ channel # << >> /\ IsWrite(w) /\ worker.doing = Resting
        /\ \/ p2 = Append(worker.pending, w)
           \/ /\ worker.pending # << >> /\ CanMerge(Last(worker.pending), w)
              /\ p2 = Append(Front(worker.pending), Merge(Last(worker.pending), w))
        /\ worker' = [worker EXCEPT !.canMerge = TRUE, !.pending = p2]
        /\ channel' = t
        /\ UNCHANGED <<ui, receivers, disk, owed, saved, requests, shown>>
  BY DEF TakeWrite, counters
<1>2. worker.doing \notin Barriers
  BY <1>1, BarrierIs DEF Resting
<1>3. StorageState(ui, receivers, channel, worker.pending, worker.doing, disk, owed, saved,
                   requests, shown)
  BY StateIs
<1>4. StorageState(ui, receivers, t, p2, worker.doing, disk, owed, saved, requests, shown)
  BY ONLY <1>1, <1>2, <1>3, WriteTaken
<1>5. p2 \in Seq(Writes)
  BY <1>4 DEF StorageState, TypesInv
<1>6. /\ worker' \in Workers /\ worker'.pending = p2 /\ worker'.doing = worker.doing
  BY <1>1, <1>5, StateIs DEF Workers
<1> QED
  BY <1>1, <1>4, <1>6 DEF StorageInv

\* recv_timeout: a barrier.
LEMMA TakeBarrierKeeps ==
  ASSUME StorageInv, TakeBarrier
  PROVE  StorageInv'
<1>1. PICK w, t :
        /\ w = Head(channel) /\ t = Tail(channel)
        /\ channel # << >> /\ ~IsWrite(w)
        /\ worker' = [worker EXCEPT !.canMerge = FALSE, !.doing = w]
        /\ channel' = t
        /\ UNCHANGED <<ui, receivers, disk, owed, saved, requests, shown>>
  BY DEF TakeBarrier, counters
<1>2. StorageState(ui, receivers, channel, worker.pending, worker.doing, disk, owed, saved,
                   requests, shown)
  BY StateIs
<1>3. StorageState(ui, receivers, t, worker.pending, w, disk, owed, saved, requests, shown)
  BY ONLY <1>1, <1>2, BarrierTaken
<1>4. w \in Barriers \cup {Resting, Timer, Dropped}
  BY <1>3 DEF StorageState, TypesInv
<1>5. /\ worker' \in Workers /\ worker'.pending = worker.pending /\ worker'.doing = w
  BY <1>1, <1>4, StateIs DEF Workers
<1> QED
  BY <1>1, <1>3, <1>5 DEF StorageInv

\* The timer, or every sender gone.
LEMMA StartFlushKeeps ==
  ASSUME StorageInv, StartFlush
  PROVE  StorageInv'
<1>1. PICK g \in {Resting, Timer, Dropped} :
        /\ worker' = [worker EXCEPT !.doing = g]
        /\ UNCHANGED <<ui, receivers, channel, disk, owed, saved, requests, shown>>
  BY DEF StartFlush, counters
<1>2. StorageState(ui, receivers, channel, worker.pending, g, disk, owed, saved,
                   requests, shown)
  BY StateIs, RestKeeps
<1>3. /\ worker' \in Workers /\ worker'.pending = worker.pending /\ worker'.doing = g
  BY <1>1, StateIs DEF Workers
<1> QED
  BY <1>1, <1>2, <1>3 DEF StorageInv

\* flush_pending: the first write is done.
LEMMA StoreWriteKeeps ==
  ASSUME StorageInv, NEW indexed \in BOOLEAN, StoreWrite(indexed)
  PROVE  StorageInv'
<1>1. PICK w, p2, x :
        /\ worker.pending # << >> /\ w = Head(worker.pending) /\ p2 = Tail(worker.pending)
        /\ x = Execute(w, disk[w.session], indexed)
        /\ disk' = [disk EXCEPT ![w.session] = x]
        /\ worker' = [worker EXCEPT !.pending = p2, !.error = FALSE]
        /\ UNCHANGED <<ui, receivers, channel, owed, saved, requests, shown>>
  BY Zenon DEF StoreWrite
<1>2. StorageState(ui, receivers, channel, worker.pending, worker.doing, disk, owed, saved,
                   requests, shown)
  BY StateIs
<1>3. indexed \in BOOLEAN
  OBVIOUS
<1>4. StorageState(ui, receivers, channel, p2, worker.doing, disk', owed, saved,
                   requests, shown)
  BY ONLY <1>1, <1>2, <1>3, WriteStored
<1>5. p2 \in Seq(Writes)
  BY <1>4 DEF StorageState, TypesInv
<1>6. /\ worker' \in Workers /\ worker'.pending = p2 /\ worker'.doing = worker.doing
  BY <1>1, <1>5, StateIs DEF Workers
<1> QED
  BY <1>1, <1>4, <1>6 DEF StorageInv

\* flush_pending: the first write fails, and whoever waits for it is told.
LEMMA StoreFailsKeeps ==
  ASSUME StorageInv, StoreFails
  PROVE  StorageInv'
<1> DEFINE r == worker.doing
<1>1. /\ worker.pending # << >>
      /\ \E f \in PartialWrites(Head(worker.pending), disk[Head(worker.pending).session]) :
            disk' = [disk EXCEPT ![Head(worker.pending).session] = f]
      /\ worker' = [worker EXCEPT !.doing = Resting, !.alive = r # Dropped, !.error = TRUE]
      /\ \/ r.op \in {"Read", "Execute", "Shutdown"} /\ Reply(r, "failed", NoFiles)
         \/ receivers' = receivers
      /\ UNCHANGED <<ui, channel, shown, owed, saved, requests>>
  BY Zenon DEF StoreFails
<1>2. PICK w : w = Head(worker.pending)
  OBVIOUS
<1>3. PICK x \in PartialWrites(w, disk[w.session]) : disk' = [disk EXCEPT ![w.session] = x]
  BY <1>1, <1>2
<1>4. /\ StorageState(ui, receivers, channel, worker.pending, worker.doing, disk, owed,
                      saved, requests, shown)
      /\ worker \in Workers
      /\ receivers \in [restore : Receipts, command : Receipts, exit : Receipts]
  BY StateIs
<1>5. worker.pending # << >>
  BY <1>1
<1>6. StorageState(ui, receivers, channel, worker.pending, worker.doing, disk', owed,
                   saved, requests, shown)
  BY ONLY <1>2, <1>3, x \in PartialWrites(w, disk[w.session]), <1>4, <1>5, WriteTried
<1>7. StorageState(ui, receivers', channel, worker.pending, Resting, disk', owed,
                   saved, requests, shown)
  <2>1. CASE receivers' = receivers
    BY <1>6, <2>1, RestKeeps
  <2>2. CASE r.op \in {"Read", "Execute", "Shutdown"} /\ Reply(r, "failed", NoFiles)
    <3>1. worker.doing \in Barriers
      <4>1. r \in Barriers \cup {Resting, Timer, Dropped}
        BY <1>4, WorkerIs
      <4> QED
        BY <2>2, <4>1 DEF Resting, Timer, Dropped
    <3>2. PICK reply \in {"ok", "failed"}, files \in Files : reply = "failed" /\ files = NoFiles
      BY NoFilesIs
    <3>3. /\ reply = "ok" => worker.pending = << >>
          /\ reply = "ok" /\ worker.doing.op = "Read" /\ worker.doing.session # NoSession
               => files = disk'[worker.doing.session]
      BY <3>2
    <3>4. Reply(worker.doing, reply, files)
      BY <2>2, <3>2
    <3>5. /\ receivers' \in [restore : Receipts, command : Receipts, exit : Receipts]
          /\ \A k \in {"restore", "command", "exit"} :
               /\ receivers'[k].id = receivers[k].id
               /\ receivers'[k].session = receivers[k].session
               /\ receivers[k].id # worker.doing.id => receivers'[k] = receivers[k]
               /\ receivers[k].id = worker.doing.id =>
                    receivers'[k].reply = reply /\ receivers'[k].files = files
      BY ONLY <1>4, <3>4, reply \in {"ok", "failed"}, files \in Files, AnsweredIs
    <3> QED
      BY ONLY <1>6, <3>1, <3>3, <3>5, reply \in {"ok", "failed"}, files \in Files,
              RequestAnswered
  <2> QED
    BY <1>1, <2>1, <2>2
<1>8. /\ worker' \in Workers /\ worker'.pending = worker.pending /\ worker'.doing = Resting
  <2>1. PICK b \in BOOLEAN : b = (r # Dropped)
    OBVIOUS
  <2>2. worker' = [worker EXCEPT !.doing = Resting, !.alive = b, !.error = TRUE]
    BY <1>1, <2>1
  <2> QED
    BY <1>4, <2>2, b \in BOOLEAN DEF Workers
<1> QED
  BY <1>1, <1>7, <1>8 DEF StorageInv

\* Everything is written: the closure runs, and whoever waits for it is told.
LEMMA FlushDoneKeeps ==
  ASSUME StorageInv, NEW fault \in BOOLEAN, FlushDone(fault)
  PROVE  StorageInv'
<1> DEFINE r == worker.doing
           reply0 == IF fault THEN "failed" ELSE "ok"
           files0 == IF r.op = "Read" /\ r.session # NoSession
                     THEN disk[r.session] ELSE NoFiles
<1>1. /\ worker.pending = << >>
      /\ worker' = [worker EXCEPT !.doing = Resting,
                                  !.alive = r # Dropped /\ r.op # "Shutdown"]
      /\ \/ r.op = "Execute" /\ disk' = [disk EXCEPT ![r.session].exists = TRUE]
         \/ disk' = disk
      /\ \/ r.op \in {"Read", "Execute", "Shutdown"} /\ Reply(r, reply0, files0)
         \/ receivers' = receivers
      /\ UNCHANGED <<ui, channel, shown, owed, saved, requests>>
  BY Zenon DEF FlushDone
<1>2. /\ StorageState(ui, receivers, channel, worker.pending, worker.doing, disk, owed,
                      saved, requests, shown)
      /\ worker \in Workers /\ disk \in [Sessions -> Files]
      /\ receivers \in [restore : Receipts, command : Receipts, exit : Receipts]
  BY StateIs
<1>3. r.op \in {"Read", "Execute", "Shutdown"} => worker.doing \in Barriers
  BY <1>2, WorkerIs DEF Resting, Timer, Dropped
<1>4. StorageState(ui, receivers', channel, worker.pending, Resting, disk, owed,
                   saved, requests, shown)
  <2>1. CASE receivers' = receivers
    BY <1>2, <2>1, RestKeeps
  <2>2. CASE r.op \in {"Read", "Execute", "Shutdown"} /\ Reply(r, reply0, files0)
    <3>1. worker.doing \in Barriers
      BY <1>3, <2>2
    <3>2. PICK files \in Files : files = files0
      <4>1. CASE r.op = "Read" /\ r.session # NoSession
        BY <1>2, <3>1, <4>1, BarrierIs
      <4>2. CASE ~(r.op = "Read" /\ r.session # NoSession)
        BY <4>2, NoFilesIs
      <4> QED
        BY <4>1, <4>2
    <3>3. PICK reply \in {"ok", "failed"} : reply = reply0
      OBVIOUS
    <3>4. /\ reply = "ok" => worker.pending = << >>
          /\ reply = "ok" /\ worker.doing.op = "Read" /\ worker.doing.session # NoSession
               => files = disk[worker.doing.session]
      BY <1>1, <3>2
    <3>5. Reply(worker.doing, reply, files)
      BY <2>2, <3>2, <3>3
    <3>6. /\ receivers' \in [restore : Receipts, command : Receipts, exit : Receipts]
          /\ \A k \in {"restore", "command", "exit"} :
               /\ receivers'[k].id = receivers[k].id
               /\ receivers'[k].session = receivers[k].session
               /\ receivers[k].id # worker.doing.id => receivers'[k] = receivers[k]
               /\ receivers[k].id = worker.doing.id =>
                    receivers'[k].reply = reply /\ receivers'[k].files = files
      BY ONLY <1>2, <3>5, reply \in {"ok", "failed"}, files \in Files, AnsweredIs
    <3> QED
      BY ONLY <1>2, <3>1, <3>4, <3>6, reply \in {"ok", "failed"}, files \in Files,
              RequestAnswered
  <2> QED
    BY <1>1, <2>1, <2>2
<1>5. StorageState(ui, receivers', channel, worker.pending, Resting, disk', owed,
                   saved, requests, shown)
  <2>1. CASE disk' = disk
    BY <1>4, <2>1
  <2>2. CASE r.op = "Execute" /\ disk' = [disk EXCEPT ![r.session].exists = TRUE]
    <3>1. PICK t \in Sessions : t = r.session
      BY <1>3, <2>2, BarrierIs
    <3>2. disk' = [disk EXCEPT ![t].exists = TRUE]
      BY <2>2, <3>1, Zenon
    <3> QED
      BY ONLY <1>4, <3>2, t \in Sessions, ThreadCreated
  <2> QED
    BY <1>1, <2>1, <2>2
<1>6. /\ worker' \in Workers /\ worker'.pending = worker.pending /\ worker'.doing = Resting
  <2>1. PICK b \in BOOLEAN : b = (r # Dropped /\ r.op # "Shutdown")
    OBVIOUS
  <2>2. worker' = [worker EXCEPT !.doing = Resting, !.alive = b]
    BY <1>1, <2>1
  <2> QED
    BY <1>2, <2>2, b \in BOOLEAN DEF Workers
<1> QED
  BY <1>1, <1>5, <1>6 DEF StorageInv

-----------------------------------------------------------------------------
(* The process.                                                            *)

\* A worker that has just started.
LEMMA NewWorkerIs ==
  /\ NewWorker \in Workers /\ [NewWorker EXCEPT !.alive = FALSE] \in Workers
  /\ NewWorker.pending = << >> /\ NewWorker.doing = Resting
  /\ [NewWorker EXCEPT !.alive = FALSE].pending = << >>
  /\ [NewWorker EXCEPT !.alive = FALSE].doing = Resting
BY NoneIs DEF NewWorker, Workers

\* Nobody waits for anything.
LEMMA NobodyWaits ==
  /\ NoReceipts \in [restore : Receipts, command : Receipts, exit : Receipts]
  /\ DOMAIN NoReceipts = {"restore", "command", "exit"}
  /\ \A k \in {"restore", "command", "exit"} : NoReceipts[k] = NoReceipt
  /\ NoReceipt.id = 0 /\ NoReceipt.reply = "none"
<1>1. NoReceipt \in Receipts
  BY NoFilesIs DEF NoReceipt, Receipts
<1> QED
  BY <1>1 DEF NoReceipts, NoReceipt

\* With nothing to write and nobody who waits, the files alone have to be
\* right: after a crash, and at a start.
LEMMA FilesSuffice ==
  ASSUME NEW u \in Interfaces, u.active = << >>, u.phase \in {"down", "running"},
         NEW d \in [Sessions -> Files], NEW ow \in [Sessions -> SUBSET Nat],
         NEW sv \in [Sessions -> Nat], NEW n \in Nat, NEW m \in Nat,
         \A s \in Sessions, e \in Nat :
           /\ e \in ow[s] => Stored(d, s, e) \/ e \in Range(d[s].live)
           /\ e \in Range(d[s].live) => e \in ow[s]
           /\ Stored(d, s, e) \/ e \in ow[s] => e <= m,
         u.phase = "running" =>
           d[u.session].turns = << >> /\ d[u.session].live = << >> /\ ow[u.session] = {}
  PROVE  StorageState(u, NoReceipts, << >>, << >>, Resting, d, ow, sv, n, m)
<1> PICK q : q = << >>
  OBVIOUS
<1>1. /\ q \in Seq(Writes) /\ q \in Seq(Requests) /\ Len(q) = 0
      /\ \A s : ~SomeOf(q, s) /\ ~SomeSave(q, s) /\ Ordered(q, s)
      /\ \A s, x : Below(q, s, x) /\ Above(q, s, x) /\ LastSave(q, s, x)
      /\ \A s, e : ~InWrite(q, s, e) /\ ~InTurn(q, s, e) /\ Survives(q, s, e)
      /\ \A s, o, es : Beyond(q, s, o, es)
      /\ DOMAIN q = {} /\ u.session \in Sessions
  BY NoneIs DEF Interfaces
<1>2. /\ Resting \notin Barriers /\ \A e : ~(e \in Range(<< >>))
  BY BarrierIs DEF Resting, Range
<1>3. TypesInv(u, NoReceipts, q, q, Resting, d, ow, sv, n, m)
  BY <1>1, NobodyWaits DEF TypesInv, Requests
<1>4. KeptInv(q, q, d, ow)
  BY <1>1 DEF KeptInv
<1>5. ActiveInv(u, q, q, d, ow)
  BY <1>1 DEF ActiveInv, Leaving
<1>6. OrdinalInv(u, q, q, d)
  BY <1>1 DEF OrdinalInv
<1>7. LiveInv(u, q, q, d, ow)
  <2>1. ASSUME NEW s \in Sessions, NEW e
        PROVE  FinallyLive(q, q, d, s, e) <=> e \in Range(d[s].live)
    <3> DEFINE b == e \in Range(d[s].live)
               c == LiveAfter(q, s, e, b)
    <3>1. c <=> b
      BY <1>1 DEF LiveAfter
    <3>2. FinallyLive(q, q, d, s, e) <=> LiveAfter(q, s, e, c)
      BY Zenon DEF FinallyLive
    <3> HIDE DEF c
    <3>3. LiveAfter(q, s, e, c) <=> c
      BY <1>1 DEF LiveAfter
    <3> QED
      BY <3>1, <3>2, <3>3, Zenon
  <2> QED
    BY <1>2, <2>1 DEF LiveInv
<1>8. ShownInv(u, q, q, d, ow, m)
  BY <1>1 DEF ShownInv
<1>9. RequestInv(NoReceipts, q, Resting, n)
  BY <1>1, <1>2, NobodyWaits DEF RequestInv
<1>10. RestoreInv(u, NoReceipts, q, q, Resting, d) /\ CommandInv(u, NoReceipts, q, q, d, ow)
  BY NobodyWaits DEF RestoreInv, CommandInv
<1>11. UsedInv(u, NoReceipts, q, q, ow, sv)
  BY <1>1, NobodyWaits DEF UsedInv
<1>12. CheckpointInv(u, q, q, d, sv)
  BY <1>1 DEF CheckpointInv, Leaving
<1>13. ExitInv(u, NoReceipts, q, q, Resting)
  BY <1>1, <1>2, NobodyWaits DEF ExitInv
<1> QED
  BY <1>3, <1>4, <1>5, <1>6, <1>7, <1>8, <1>9, <1>10, <1>11, <1>12, <1>13
  DEF StorageState

\* What the files hold is owed after a crash.
LEMMA RecoverableIs ==
  ASSUME NEW s \in Sessions, disk \in [Sessions -> Files]
  PROVE  /\ Recoverable(s) \in SUBSET Nat
         /\ \A e : e \in Recoverable(s) <=> Stored(disk, s, e) \/ e \in Range(disk[s].live)
<1>1. disk[s] \in Files
  OBVIOUS
<1>2. /\ disk[s].live \in Seq(Nat)
      /\ \A o \in DOMAIN disk[s].turns : disk[s].turns[o] \in Seq(Nat)
  BY <1>1 DEF Files, TurnLogs
<1>3. \A a \in Seq(Nat) : Range(a) \subseteq Nat
  BY DEF Range
<1>4. \A e : e \in Recoverable(s) <=> Stored(disk, s, e) \/ e \in Range(disk[s].live)
  BY DEF Recoverable, Stored
<1>5. ASSUME NEW e \in Recoverable(s) PROVE e \in Nat
  BY <1>2, <1>3, <1>4 DEF Stored
<1> QED
  BY <1>4, <1>5

\* The process is killed.
LEMMA CrashKeeps ==
  ASSUME StorageInv, Crash
  PROVE  StorageInv'
<1>1. /\ ui' = [ui EXCEPT !.phase = "down", !.active = << >>]
      /\ owed' = [s \in Sessions |-> Recoverable(s)]
      /\ saved' = [s \in Sessions |-> disk[s].checkpoint["state"]]
      /\ receivers' = NoReceipts /\ channel' = << >>
      /\ worker' = [NewWorker EXCEPT !.alive = FALSE]
      /\ disk' = disk /\ requests' = requests /\ shown' = shown
  BY DEF Crash, counters
<1>2. /\ disk \in [Sessions -> Files] /\ requests \in Nat /\ shown \in Nat
      /\ ShownInv(ui, channel, worker.pending, disk, owed, shown)
  BY StateIs DEF TypesInv, StorageState
<1>3. ui' \in Interfaces /\ ui'.active = << >> /\ ui'.phase = "down"
  <2>1. PICK a \in Seq(Nat) : a = << >>
    BY NoneIs
  <2>2. ui' = [ui EXCEPT !.phase = "down", !.active = a]
    BY <1>1, <2>1
  <2> QED
    BY <2>1, <2>2, a \in Seq(Nat), StateIs DEF Interfaces
<1>4. /\ owed' \in [Sessions -> SUBSET Nat]
      /\ \A s \in Sessions, e \in Nat :
           /\ e \in owed'[s] => Stored(disk, s, e) \/ e \in Range(disk[s].live)
           /\ e \in Range(disk[s].live) => e \in owed'[s]
           /\ Stored(disk, s, e) \/ e \in owed'[s] => e <= shown
  <2>1. \A s \in Sessions : owed'[s] = Recoverable(s)
    BY <1>1
  <2>2. \A s \in Sessions, e \in Nat :
          Stored(disk, s, e) \/ e \in Range(disk[s].live) => e <= shown
    BY <1>2 DEF ShownInv
  <2> QED
    BY <1>1, <1>2, <2>1, <2>2, RecoverableIs
<1>5. saved' \in [Sessions -> Nat]
  <2>1. "state" \in Range(Parts)
    <3>1. Parts[1] = "state" /\ 1 \in DOMAIN Parts
      BY DEF Parts
    <3> QED
      BY <3>1 DEF Range
  <2>2. \A s \in Sessions : disk[s].checkpoint["state"] \in Nat
    BY <1>2, <2>1 DEF Files
  <2> QED
    BY <1>1, <2>2
<1>6. /\ ui'.phase \in {"down", "running"}
      /\ ui'.phase = "running" =>
           /\ disk[ui'.session].turns = << >> /\ disk[ui'.session].live = << >>
           /\ owed'[ui'.session] = {}
  BY <1>3
<1>7. StorageState(ui', NoReceipts, << >>, << >>, Resting, disk, owed', saved', requests, shown)
  BY ONLY <1>2, <1>3, <1>4, <1>5, <1>6, FilesSuffice
<1> QED
  BY <1>1, <1>7, NewWorkerIs DEF StorageInv

\* A process starts in a thread of its own.
LEMMA StartKeeps ==
  ASSUME StorageInv, NEW s \in Sessions, Start(s)
  PROVE  StorageInv'
<1>1. /\ ui.phase \in {"down", "exited"}
      /\ disk[s] = NoFiles /\ owed[s] = {}
      /\ ui' = [session |-> s, active |-> << >>, committed |-> 0, ordinal |-> 0,
                phase |-> "running"]
      /\ worker' = NewWorker
      /\ UNCHANGED <<receivers, channel, disk, owed, saved, shown, requests>>
  BY DEF Start, Unused
<1>2. /\ disk \in [Sessions -> Files] /\ requests \in Nat /\ shown \in Nat
      /\ owed \in [Sessions -> SUBSET Nat] /\ saved \in [Sessions -> Nat]
      /\ ShownInv(ui, channel, worker.pending, disk, owed, shown)
      /\ KeptInv(channel, worker.pending, disk, owed)
      /\ LiveInv(ui, channel, worker.pending, disk, owed)
  BY StateIs DEF TypesInv, StorageState
<1>3. /\ channel = << >> /\ worker.pending = << >>
      /\ receivers.restore.id = 0 /\ receivers.command.id = 0 /\ receivers.exit.id = 0
  BY <1>1, StateIs DEF ExitInv
<1>4. receivers = NoReceipts
  <2>1. \A k \in {"restore", "command", "exit"} : receivers[k] = NoReceipt
    BY <1>3, ReceiversAre
  <2> QED
    BY <2>1, StateIs DEF NoReceipts
<1>5. /\ ui' \in Interfaces /\ ui'.active = << >> /\ ui'.phase = "running"
      /\ ui'.session = s
  BY <1>1, NoneIs DEF Interfaces
<1>6. \A t \in Sessions, e \in Nat :
        /\ e \in owed[t] => Stored(disk, t, e) \/ e \in Range(disk[t].live)
        /\ e \in Range(disk[t].live) => e \in owed[t]
        /\ Stored(disk, t, e) \/ e \in owed[t] => e <= shown
  <2>1. \A t \in Sessions : \A e : FinallyLive(channel, worker.pending, disk, t, e)
          <=> e \in Range(disk[t].live)
    BY <1>3 DEF FinallyLive, LiveAfter
  <2>2. \A t, e : ~InWrite(channel, t, e) /\ ~InWrite(worker.pending, t, e)
    BY <1>3, NoneIs
  <2> QED
    BY <1>2, <2>1, <2>2 DEF KeptInv, LiveInv, ShownInv
<1>7. /\ ui'.phase \in {"down", "running"}
      /\ ui'.phase = "running" =>
           /\ disk[ui'.session].turns = << >> /\ disk[ui'.session].live = << >>
           /\ owed[ui'.session] = {}
  BY <1>1, <1>5, NoFilesIs
<1>8. StorageState(ui', NoReceipts, << >>, << >>, Resting, disk, owed, saved, requests, shown)
  BY ONLY <1>2, <1>5, <1>6, <1>7, FilesSuffice
<1> QED
  BY <1>1, <1>3, <1>4, <1>8, NewWorkerIs DEF StorageInv

\* The first process.
LEMMA StorageStarts ==
  ASSUME StorageInit
  PROVE  StorageInv
<1>1. PICK s \in Sessions : ui = [session |-> s, active |-> << >>, committed |-> 0,
                                  ordinal |-> 0, phase |-> "running"]
  BY DEF StorageInit
<1>2. /\ receivers = NoReceipts /\ channel = << >> /\ worker = NewWorker
      /\ disk = [t \in Sessions |-> NoFiles]
      /\ owed = [t \in Sessions |-> {}] /\ saved = [t \in Sessions |-> 0]
      /\ shown = 0 /\ requests = 0
  BY DEF StorageInit
<1>3. /\ ui \in Interfaces /\ ui.active = << >> /\ ui.session = s
      /\ ui.phase \in {"down", "running"}
  BY <1>1, NoneIs DEF Interfaces
<1>4. /\ disk \in [Sessions -> Files] /\ owed \in [Sessions -> SUBSET Nat]
      /\ saved \in [Sessions -> Nat] /\ requests \in Nat /\ shown \in Nat
  BY <1>2, NoFilesIs
<1>5. \A t \in Sessions : /\ disk[t].turns = << >> /\ disk[t].live = << >> /\ owed[t] = {}
                          /\ DOMAIN disk[t].turns = {}
  BY <1>2, NoFilesIs
<1>6. \A t \in Sessions, e \in Nat :
        /\ e \in owed[t] => Stored(disk, t, e) \/ e \in Range(disk[t].live)
        /\ e \in Range(disk[t].live) => e \in owed[t]
        /\ Stored(disk, t, e) \/ e \in owed[t] => e <= shown
  <2>1. \A e : ~(e \in Range(<< >>))
    BY DEF Range
  <2> QED
    BY <1>5, <2>1 DEF Stored
<1>7. ui.phase = "running" =>
        /\ disk[ui.session].turns = << >> /\ disk[ui.session].live = << >>
        /\ owed[ui.session] = {}
  BY <1>3, <1>5
<1>8. StorageState(ui, NoReceipts, << >>, << >>, Resting, disk, owed, saved, requests, shown)
  BY ONLY <1>3, <1>4, <1>6, <1>7, FilesSuffice
<1> QED
  BY <1>2, <1>8, NewWorkerIs DEF StorageInv

-----------------------------------------------------------------------------
(* The order of entries.                                                   *)

\* The places of two sequences in their concatenation.
LEMMA PlacesIn ==
  ASSUME NEW S, NEW a \in Seq(S), NEW b \in Seq(S), NEW c, c = a \o b
  PROVE  /\ c \in Seq(S)
         /\ Len(a) \in Nat /\ Len(b) \in Nat /\ Len(c) = Len(a) + Len(b)
         /\ DOMAIN a = 1..Len(a) /\ DOMAIN b = 1..Len(b) /\ DOMAIN c = 1..Len(c)
         /\ \A i \in 1..Len(c) : c[i] = IF i <= Len(a) THEN a[i] ELSE b[i - Len(a)]
OBVIOUS

\* A beginning of what is in order is in order.
LEMMA OrderPrefix ==
  ASSUME NEW a \in Seq(Nat), NEW b \in Seq(Nat), InOrder(a \o b)
  PROVE  InOrder(a)
<1>1. PICK c : c = a \o b
  OBVIOUS
<1>2. /\ Len(a) \in Nat /\ Len(b) \in Nat /\ Len(c) = Len(a) + Len(b)
      /\ DOMAIN a = 1..Len(a) /\ DOMAIN c = 1..Len(c)
      /\ \A i \in 1..Len(c) : c[i] = IF i <= Len(a) THEN a[i] ELSE b[i - Len(a)]
  BY <1>1, PlacesIn
<1>3. \A i \in DOMAIN a : i \in DOMAIN c /\ c[i] = a[i]
  BY <1>2
<1>4. \A i \in DOMAIN a : \A k \in 1..(i - 1) : k \in DOMAIN a
  BY <1>2
<1>5. InOrder(c)
  BY <1>1
<1> QED
  BY <1>3, <1>4, <1>5 DEF InOrder

\* What is repeated at the end is not out of place.
LEMMA OrderRepeat ==
  ASSUME NEW a \in Seq(Nat), NEW b \in Seq(Nat), InOrder(a), Range(b) \subseteq Range(a)
  PROVE  InOrder(a \o b)
<1>1. PICK c : c = a \o b
  OBVIOUS
<1>2. /\ Len(a) \in Nat /\ Len(b) \in Nat /\ Len(c) = Len(a) + Len(b)
      /\ DOMAIN a = 1..Len(a) /\ DOMAIN b = 1..Len(b) /\ DOMAIN c = 1..Len(c)
      /\ \A i \in 1..Len(c) : c[i] = IF i <= Len(a) THEN a[i] ELSE b[i - Len(a)]
      /\ c \in Seq(Nat)
  BY <1>1, PlacesIn
<1>3. \A i \in DOMAIN a : i \in DOMAIN c /\ c[i] = a[i]
  BY <1>2
<1>4. \A i \in DOMAIN c : c[i] \in Range(a)
  <2>1. ASSUME NEW i \in DOMAIN c, i > Len(a) PROVE c[i] \in Range(b)
    <3>1. i - Len(a) \in DOMAIN b /\ c[i] = b[i - Len(a)]
      BY <1>2, <2>1
    <3> QED
      BY <3>1 DEF Range
  <2>2. ASSUME NEW i \in DOMAIN c, ~(i > Len(a)) PROVE c[i] \in Range(a)
    <3>1. i \in DOMAIN a /\ c[i] = a[i]
      BY <1>2, <2>2
    <3> QED
      BY <3>1 DEF Range
  <2> QED
    BY <2>1, <2>2
<1>5. ASSUME NEW i \in DOMAIN c, NEW j \in DOMAIN c, i < j, c[i] > c[j]
      PROVE  \E k \in 1..(i - 1) : c[k] = c[j]
  <2>1. PICK l \in DOMAIN a : a[l] = c[j]
    BY <1>4 DEF Range
  <2>2. l \in DOMAIN c /\ c[l] = c[j] /\ l \in Nat /\ i \in Nat /\ c[i] \in Nat /\ c[j] \in Nat
    BY <1>2, <1>3, <1>5, <2>1
  <2>3. CASE l < i
    BY <1>2, <2>2, <2>3
  <2>4. CASE l = i
    BY <1>5, <2>2, <2>4
  <2>5. CASE i < l
    <3>1. i \in DOMAIN a /\ a[i] = c[i]
      BY <1>2, <2>1, <2>5
    <3>2. PICK k \in 1..(i - 1) : a[k] = a[l]
      BY <1>5, <2>1, <2>5, <3>1 DEF InOrder
    <3>3. k \in DOMAIN a
      BY <1>2, <3>1
    <3> QED
      BY <1>3, <2>1, <3>2, <3>3
  <2> QED
    BY <2>2, <2>3, <2>4, <2>5
<1>6. InOrder(c)
  BY <1>5 DEF InOrder
<1> QED
  BY <1>1, <1>6

\* What is new is in place at the end.
LEMMA OrderNext ==
  ASSUME NEW a \in Seq(Nat), NEW e \in Nat, InOrder(a), \A i \in DOMAIN a : a[i] < e
  PROVE  InOrder(Append(a, e))
<1>1. PICK c : c = Append(a, e)
  OBVIOUS
<1>2. /\ Len(a) \in Nat /\ DOMAIN a = 1..Len(a) /\ DOMAIN c = 1..(Len(a) + 1)
      /\ c[Len(a) + 1] = e
      /\ \A i \in DOMAIN a : c[i] = a[i] /\ a[i] \in Nat
  BY <1>1
<1>3. ASSUME NEW i \in DOMAIN c, NEW j \in DOMAIN c, i < j, c[i] > c[j]
      PROVE  \E k \in 1..(i - 1) : c[k] = c[j]
  <2>1. i \in DOMAIN a /\ c[i] = a[i]
    BY <1>2, <1>3
  <2>2. j # Len(a) + 1
    BY <1>2, <1>3, <2>1
  <2>3. j \in DOMAIN a /\ c[j] = a[j]
    BY <1>2, <2>2
  <2>4. PICK k \in 1..(i - 1) : a[k] = a[j]
    BY <1>3, <2>1, <2>3 DEF InOrder
  <2>5. k \in DOMAIN a
    BY <1>2, <2>1
  <2> QED
    BY <1>2, <2>3, <2>4, <2>5
<1> QED
  BY <1>1, <1>3 DEF InOrder

\* What is written twice in a row stays in order: the first lines of an append
\* that failed, before it is tried again.
LEMMA OrderTwice ==
  ASSUME NEW a \in Seq(Nat), NEW b \in Seq(Nat), NEW r \in Seq(Nat), InOrder((a \o b) \o r)
  PROVE  InOrder((a \o b) \o (b \o r))
<1>1. PICK x, y, c, d : x = a \o b /\ y = b \o r /\ c = x \o r /\ d = x \o y
  OBVIOUS
<1>2. PICK A \in Nat, B \in Nat, R \in Nat : A = Len(a) /\ B = Len(b) /\ R = Len(r)
  OBVIOUS
<1>3. /\ x \in Seq(Nat) /\ A \in Nat /\ B \in Nat /\ Len(x) = A + B
      /\ \A i \in 1..(A + B) : x[i] = IF i <= A THEN a[i] ELSE b[i - A]
  BY <1>1, <1>2, PlacesIn
<1>4. /\ y \in Seq(Nat) /\ R \in Nat /\ Len(y) = B + R
      /\ \A i \in 1..(B + R) : y[i] = IF i <= B THEN b[i] ELSE r[i - B]
  BY <1>1, <1>2, PlacesIn
<1>5. /\ c \in Seq(Nat) /\ Len(c) = A + B + R /\ DOMAIN c = 1..(A + B + R)
      /\ \A i \in 1..(A + B + R) : c[i] = IF i <= A + B THEN x[i] ELSE r[i - (A + B)]
  <2>1. /\ c \in Seq(Nat) /\ Len(c) = (A + B) + R /\ DOMAIN c = 1..Len(c)
        /\ \A i \in 1..Len(c) : c[i] = IF i <= A + B THEN x[i] ELSE r[i - (A + B)]
    BY <1>1, <1>2, <1>3, PlacesIn
  <2> QED
    BY <2>1
<1>6. /\ d \in Seq(Nat) /\ DOMAIN d = 1..(A + B + B + R)
      /\ \A i \in 1..(A + B + B + R) : d[i] = IF i <= A + B THEN x[i] ELSE y[i - (A + B)]
  <2>1. /\ d \in Seq(Nat) /\ Len(d) = (A + B) + (B + R) /\ DOMAIN d = 1..Len(d)
        /\ \A i \in 1..Len(d) : d[i] = IF i <= A + B THEN x[i] ELSE y[i - (A + B)]
    <3>1. x \in Seq(Nat) /\ y \in Seq(Nat) /\ d = x \o y
      BY <1>1, <1>3, <1>4
    <3>2. /\ d \in Seq(Nat) /\ Len(d) = Len(x) + Len(y) /\ DOMAIN d = 1..Len(d)
          /\ \A i \in 1..Len(d) : d[i] = IF i <= Len(x) THEN x[i] ELSE y[i - Len(x)]
      BY ONLY <3>1, PlacesIn
    <3>3. Len(x) = A + B /\ Len(y) = B + R
      BY <1>3, <1>4
    <3> QED
      BY ONLY <3>2, <3>3
  <2>2. (A + B) + (B + R) = A + B + B + R
    BY <1>3, <1>4
  <2> QED
    BY <2>1, <2>2
<1>7. \A i \in 1..(A + B) : i \in DOMAIN c /\ i \in DOMAIN d /\ d[i] = c[i]
  BY <1>3, <1>4, <1>5, <1>6
<1>8. ASSUME NEW i \in DOMAIN d, i > A + B
      PROVE  i - B \in DOMAIN c /\ d[i] = c[i - B]
  <2>1. i \in 1..(A + B + B + R)
    BY <1>6
  <2>2. i - B \in 1..(A + B + R) /\ i - (A + B) \in 1..(B + R)
    BY <1>3, <1>4, <1>8, <2>1
  <2>3. d[i] = y[i - (A + B)]
    BY <1>3, <1>6, <1>8, <2>1
  <2>4. CASE i - B <= A + B
    <3>1. i - (A + B) <= B /\ ~(i - B <= A) /\ i - B \in 1..(A + B)
          /\ (i - B) - A = i - (A + B)
      BY ONLY A \in Nat, B \in Nat, R \in Nat, <1>8, <2>1, <2>4
    <3>2. c[i - B] = x[i - B] /\ x[i - B] = b[(i - B) - A]
      BY <1>3, <1>5, <2>2, <2>4, <3>1
    <3>3. y[i - (A + B)] = b[i - (A + B)]
      BY <1>4, <2>2, <3>1
    <3> QED
      BY <1>5, <2>2, <2>3, <3>1, <3>2, <3>3
  <2>5. CASE ~(i - B <= A + B)
    <3>1. ~(i - (A + B) <= B) /\ (i - (A + B)) - B = (i - B) - (A + B)
      BY ONLY A \in Nat, B \in Nat, R \in Nat, <2>1, <2>5
    <3>2. c[i - B] = r[(i - B) - (A + B)]
      BY <1>5, <2>2, <2>5
    <3>3. y[i - (A + B)] = r[(i - (A + B)) - B]
      BY <1>4, <2>2, <3>1
    <3> QED
      BY <1>5, <2>2, <2>3, <3>1, <3>2, <3>3
  <2> QED
    BY <2>4, <2>5
<1>9. InOrder(c)
  BY <1>1
<1>10. ASSUME NEW i \in DOMAIN d, NEW j \in DOMAIN d, i < j, d[i] > d[j]
       PROVE  \E k \in 1..(i - 1) : d[k] = d[j]
  <2>1. i \in Nat /\ j \in Nat /\ i >= 1 /\ j >= 1 /\ d[i] \in Nat /\ d[j] \in Nat
    BY <1>3, <1>4, <1>6, <1>10
  <2>2. CASE j <= A + B
    <3>1. i \in 1..(A + B) /\ j \in 1..(A + B)
      BY <1>3, <1>10, <2>1, <2>2
    <3>2. PICK k \in 1..(i - 1) : c[k] = c[j]
      BY <1>7, <1>9, <1>10, <3>1 DEF InOrder
    <3>3. k \in 1..(A + B)
      BY <1>3, <3>1
    <3> QED
      BY <1>7, <3>1, <3>2, <3>3
  <2>3. CASE i > A + B
    <3>1. /\ i - B \in DOMAIN c /\ d[i] = c[i - B]
          /\ j - B \in DOMAIN c /\ d[j] = c[j - B]
      BY <1>3, <1>8, <1>10, <2>1, <2>3
    <3>2. i - B < j - B
      BY <1>3, <1>10, <2>1
    <3>3. PICK k \in 1..((i - B) - 1) : c[k] = c[j - B]
      BY <1>9, <1>10, <3>1, <3>2 DEF InOrder
    <3>4. CASE k <= A + B
      <4>1. k \in 1..(A + B) /\ k \in 1..(i - 1)
        BY <1>3, <2>1, <3>3, <3>4
      <4> QED
        BY <1>7, <3>1, <3>3, <4>1
    <3>5. CASE ~(k <= A + B)
      <4>1. k + B \in 1..(i - 1) /\ k + B > A + B /\ (k + B) - B = k
        BY ONLY A \in Nat, B \in Nat, k \in 1..((i - B) - 1), <2>1, <3>5
      <4>3. k + B \in DOMAIN d
        BY <1>6, <1>10, <4>1
      <4>2. d[k + B] = c[k]
        BY <1>8, <4>1, <4>3
      <4> QED
        BY <3>1, <3>3, <4>1, <4>2
    <3> QED
      BY <3>4, <3>5
  <2>4. CASE i <= A + B /\ j > A + B
    <3>1. /\ i \in 1..(A + B) /\ d[i] = c[i] /\ i \in DOMAIN c
          /\ j - B \in DOMAIN c /\ d[j] = c[j - B]
      BY <1>3, <1>7, <1>8, <2>1, <2>4
    <3>2. CASE i < j - B
      <4>1. PICK k \in 1..(i - 1) : c[k] = c[j - B]
        BY <1>9, <1>10, <3>1, <3>2 DEF InOrder
      <4>2. k \in 1..(A + B)
        BY <1>3, <3>1
      <4> QED
        BY <1>7, <3>1, <4>1, <4>2
    <3>3. CASE i = j - B
      BY <1>10, <2>1, <3>1, <3>3
    <3>4. CASE i > j - B
      <4>1. i \in 1..(A + B) /\ j - B \in 1..(A + B + R)
        BY <1>5, <3>1
      <4>2. j - B \in 1..(i - 1) /\ j - B \in 1..(A + B)
        BY ONLY A \in Nat, B \in Nat, R \in Nat, <2>1, <3>4, <4>1
      <4> QED
        BY <1>7, <3>1, <4>2
    <3> QED
      BY ONLY B \in Nat, <2>1, <3>2, <3>3, <3>4
  <2> QED
    BY <1>3, <1>10, <2>1, <2>2, <2>3, <2>4
<1>11. InOrder(d)
  BY <1>10 DEF InOrder
<1> QED
  BY <1>1, <1>11

\* A view without entries.
LEMMA OrderNone == InOrder(<<>> \o <<>>)
BY DEF InOrder

-----------------------------------------------------------------------------
(* The turns of a transcript.                                              *)

\* The turns below an ordinal.
Earlier(f, n) == FlattenSeq([i \in 1..n |-> TurnAt(f, i - 1)])

\* They are a sequence, and the next turn follows them.
LEMMA TurnsAre ==
  ASSUME NEW f, f.turns \in TurnLogs, NEW n \in Nat
  PROVE  /\ TurnAt(f, n) \in Seq(Nat)
         /\ Earlier(f, n) \in Seq(Nat)
         /\ Earlier(f, 0) = <<>>
         /\ Earlier(f, n + 1) = Earlier(f, n) \o TurnAt(f, n)
<1>1. \A o : TurnAt(f, o) \in Seq(Nat)
  BY NoneIs DEF TurnLogs, TurnAt
<1>2. PICK S : S = Seq(Nat)
  OBVIOUS
<1>3. PICK t : t = [i \in 1..n |-> TurnAt(f, i - 1)]
  OBVIOUS
<1>4. t \in Seq(Seq(Nat)) /\ Len(t) = n
  <2>1. \A i \in 1..n : TurnAt(f, i - 1) \in S
    BY <1>1, <1>2
  <2>2. t \in Seq(S) /\ Len(t) = n
    BY <1>3, <2>1
  <2> QED
    BY <1>2, <2>2
<1>5. [i \in 1..(n + 1) |-> TurnAt(f, i - 1)] = Append(t, TurnAt(f, n))
  <2>1. PICK e \in S : e = TurnAt(f, n)
    BY <1>1, <1>2
  <2>2. PICK c : c = Append(t, e)
    OBVIOUS
  <2>3. /\ c \in Seq(S) /\ Len(c) = n + 1 /\ c[n + 1] = e
        /\ \A i \in 1..n : c[i] = t[i]
    BY ONLY <1>4, <1>2, <2>2, n \in Nat, e \in S
  <2>4. c = [i \in 1..(n + 1) |-> c[i]]
    BY <2>3
  <2>5. \A i \in 1..(n + 1) : c[i] = TurnAt(f, i - 1)
    <3>1. \A i \in 1..n : c[i] = TurnAt(f, i - 1)
      BY <1>3, <2>3
    <3>2. c[n + 1] = TurnAt(f, (n + 1) - 1)
      BY <2>1, <2>3
    <3> QED
      BY <3>1, <3>2
  <2> QED
    BY <2>1, <2>2, <2>4, <2>5
<1>6. Earlier(f, n) = FlattenSeq(t) /\ Earlier(f, n + 1) = FlattenSeq(Append(t, TurnAt(f, n)))
  BY <1>3, <1>5 DEF Earlier
<1>7. /\ FlattenSeq(t) \in Seq(Nat)
      /\ FlattenSeq(Append(t, TurnAt(f, n))) = FlattenSeq(t) \o TurnAt(f, n)
  BY <1>1, <1>4, FlattenAppend
<1>8. Earlier(f, 0) = <<>>
  <2>1. [i \in 1..0 |-> TurnAt(f, i - 1)] = <<>>
    OBVIOUS
  <2> QED
    BY <2>1, FlattenNone DEF Earlier
<1> QED
  BY <1>1, <1>6, <1>7, <1>8

\* A turn stored after all the others ends the transcript (append_turn_record).
LEMMA TurnsGrow ==
  ASSUME NEW f, f.turns \in TurnLogs
  PROVE  /\ NextOrdinal(f) \in Nat /\ TurnEntries(f) \in Seq(Nat)
         /\ \A o \in DOMAIN f.turns : o < NextOrdinal(f)
         /\ f.turns = << >> => TurnEntries(f) = << >>
         /\ \A n \in Nat : (\A o \in DOMAIN f.turns : o < n) => Earlier(f, n) = TurnEntries(f)
<1>1. DOMAIN f.turns \in SUBSET Nat /\ IsFiniteSet(DOMAIN f.turns)
  BY DEF TurnLogs
<1>2. f.turns = << >> <=> DOMAIN f.turns = {}
  <2>1. f.turns = [o \in DOMAIN f.turns |-> f.turns[o]]
    BY DEF TurnLogs
  <2>2. << >> = [o \in {} |-> f.turns[o]]
    OBVIOUS
  <2> QED
    BY <2>1, <2>2
<1>3. /\ NextOrdinal(f) \in Nat
      /\ \A o \in DOMAIN f.turns : o < NextOrdinal(f)
      /\ NextOrdinal(f) # 0 => NextOrdinal(f) - 1 \in DOMAIN f.turns
      /\ f.turns = << >> => NextOrdinal(f) = 0
  <2>1. CASE f.turns = << >>
    BY <1>2, <2>1 DEF NextOrdinal
  <2>2. CASE f.turns # << >>
    <3>1. PICK k \in Nat : /\ k = Max(DOMAIN f.turns) /\ k \in DOMAIN f.turns
                           /\ \A o \in DOMAIN f.turns : k >= o
      BY <1>1, <1>2, <2>2, GreatestOf
    <3>2. NextOrdinal(f) = k + 1
      BY <2>2, <3>1 DEF NextOrdinal
    <3> QED
      BY <1>1, <2>2, <3>1, <3>2
  <2> QED
    BY <2>1, <2>2
<1>4. PICK N \in Nat : N = NextOrdinal(f)
  BY <1>3
<1>5. TurnEntries(f) = Earlier(f, N)
  BY <1>4 DEF TurnEntries, Earlier
<1>6. \A k \in Nat : Earlier(f, N + k) = Earlier(f, N)
  <2> DEFINE T == {k \in Nat : Earlier(f, N + k) = Earlier(f, N)}
  <2>1. T \in SUBSET Nat /\ 0 \in T
    OBVIOUS
  <2>2. ASSUME NEW k \in T PROVE k + 1 \in T
    <3>1. k \in Nat /\ N + k \in Nat /\ Earlier(f, N + k) = Earlier(f, N)
      OBVIOUS
    <3>2. /\ Earlier(f, (N + k) + 1) = Earlier(f, N + k) \o TurnAt(f, N + k)
          /\ Earlier(f, N + k) \in Seq(Nat)
      BY <3>1, TurnsAre
    <3>3. N + k \notin DOMAIN f.turns
      BY <1>1, <1>3, <1>4, <3>1
    <3>4. TurnAt(f, N + k) = << >>
      BY <3>3 DEF TurnAt
    <3>5. Earlier(f, (N + k) + 1) = Earlier(f, N + k)
      <4>1. \A a \in Seq(Nat) : a \o << >> = a
        OBVIOUS
      <4> QED
        BY <3>2, <3>4, <4>1, Zenon
    <3>6. (N + k) + 1 = N + (k + 1) /\ k + 1 \in Nat
      BY <3>1
    <3> QED
      BY <3>1, <3>5, <3>6
  <2> HIDE DEF T
  <2>3. \A k \in Nat : k \in T
    BY <2>1, <2>2, EveryNumber
  <2> QED
    BY <2>3 DEF T
<1>7. ASSUME NEW n \in Nat, \A o \in DOMAIN f.turns : o < n
      PROVE  Earlier(f, n) = Earlier(f, N)
  <2>1. n >= N
    BY <1>1, <1>3, <1>4, <1>7
  <2>2. n - N \in Nat /\ N + (n - N) = n
    BY <2>1
  <2> QED
    BY <1>6, <2>2
<1> QED
  BY <1>3, <1>4, <1>5, <1>7, TurnsAre

\* Two logs with the same turns below an ordinal.
LEMMA TurnsAgree ==
  ASSUME NEW f, NEW h, NEW n \in Nat, \A o \in Nat : o < n => TurnAt(f, o) = TurnAt(h, o)
  PROVE  Earlier(f, n) = Earlier(h, n)
<1>1. \A i \in 1..n : i - 1 \in Nat /\ i - 1 < n
  OBVIOUS
<1>2. \A i \in 1..n : TurnAt(f, i - 1) = TurnAt(h, i - 1)
  BY <1>1
<1>3. [i \in 1..n |-> TurnAt(f, i - 1)] = [i \in 1..n |-> TurnAt(h, i - 1)]
  BY <1>2
<1> QED
  BY <1>3 DEF Earlier

\* A log with one line more (append_turn_record).
AddedTurn(f, o, es) == [i \in DOMAIN f.turns \cup {o} |-> IF i = o THEN es ELSE f.turns[i]]

\* The turn that is stored last comes after the others.
LEMMA TurnStored ==
  ASSUME NEW f, f.turns \in TurnLogs, NEW o \in Nat, NEW es \in Seq(Nat),
         \A i \in DOMAIN f.turns : i < o,
         NEW h, h.turns = AddedTurn(f, o, es), h.turns \in TurnLogs
  PROVE  TurnEntries(h) = TurnEntries(f) \o es
<1>1. /\ DOMAIN h.turns = DOMAIN f.turns \cup {o} /\ h.turns[o] = es
      /\ \A i \in DOMAIN f.turns : i # o => h.turns[i] = f.turns[i]
  BY DEF AddedTurn
<1>2. DOMAIN f.turns \in SUBSET Nat
  BY DEF TurnLogs
<1>3. \A i \in Nat : i < o => TurnAt(f, i) = TurnAt(h, i)
  BY <1>1, <1>2 DEF TurnAt
<1>4. Earlier(h, o) = TurnEntries(f)
  <2>1. Earlier(f, o) = Earlier(h, o)
    BY <1>3, TurnsAgree
  <2>2. Earlier(f, o) = TurnEntries(f)
    BY TurnsGrow
  <2> QED
    BY <2>1, <2>2
<1>5. Earlier(h, o + 1) = TurnEntries(h)
  <2>1. \A i \in DOMAIN h.turns : i < o + 1
    BY <1>1, <1>2
  <2> QED
    BY <2>1, TurnsGrow
<1>6. TurnAt(h, o) = es
  BY <1>1 DEF TurnAt
<1> QED
  BY <1>4, <1>5, <1>6, TurnsAre

-----------------------------------------------------------------------------
(* The invariant of the order.  A view of a thread is its turns and its live *)
(* log, before or after a request; requests lead from view to view.          *)

Views(m) == [turns : Seq(0..m), live : Seq(0..m)]
Arranged(v) == InOrder(v.turns \o v.live)

\* What a request makes of the view v of thread s.  A commit that stops after
\* the turn was stored leaves an order, too.
Effect(w, s, v, x) ==
  IF ~Of(w, s) \/ w.op = "Runtime" THEN x = v
  ELSE \/ w.op = "AppendLive" /\ x.turns = v.turns /\ x.live = v.live \o w.entries
       \/ w.op = "ReplaceLive" /\ x.turns = v.turns /\ x.live = w.entries
       \/ w.op = "ClearLive" /\ x.turns = v.turns /\ x.live = << >>
       \/ /\ w.op = "CommitTurn" /\ x.turns = v.turns \o w.entries /\ x.live = << >>
          /\ InOrder((v.turns \o w.entries) \o v.live)
Moves(w, s, v, x, m) == x \in Views(m) /\ Arranged(x) /\ Effect(w, s, v, x)

Leads(v, z, x, s, m) ==
  \E g \in [1..(Len(z) + 1) -> Views(m)] :
    /\ g[1] = v /\ g[Len(z) + 1] = x /\ Arranged(v)
    /\ \A i \in 1..Len(z) : Moves(z[i], s, g[i], g[i + 1], m)

\* The files are the first view, but for a turn whose commit is tried again.
Retried(f, p, s) == p # << >> /\ Commits(p[1], s) /\ p[1].ordinal \in DOMAIN f.turns
Begins(f, p, s, v) ==
  /\ f.live = v.live
  /\ TurnEntries(f) = IF Retried(f, p, s) THEN v.turns \o p[1].entries ELSE v.turns

\* The last view of the current thread fits the active turn.
Follows(u, s, v) ==
  s = u.session /\ u.phase # "down" =>
    InOrder(v.turns \o u.active) /\ Range(v.live) \subseteq Range(u.active)

ThreadOrder(u, q, p, d, m, s) ==
  \E a, b, c :
    /\ Begins(d[s], p, s, a)
    /\ Leads(a, p, b, s, m) /\ Leads(b, q, c, s, m)
    /\ Follows(u, s, c)
OrderState(u, q, p, d, m) ==
  /\ u.active \in Seq(0..m)
  /\ \A s \in Sessions : ThreadOrder(u, q, p, d, m, s)
OrderInv == OrderState(ui, channel, worker.pending, disk, shown)

-----------------------------------------------------------------------------
(* Views and requests.                                                     *)

\* Where requests lead is a view in order.
LEMMA LeadsAre ==
  ASSUME NEW v, NEW z \in Seq(Requests), NEW x, NEW s, NEW m \in Nat, Leads(v, z, x, s, m)
  PROVE  v \in Views(m) /\ x \in Views(m) /\ Arranged(v) /\ Arranged(x)
<1>1. PICK n \in Nat : n = Len(z)
  OBVIOUS
<1>2. PICK g \in [1..(n + 1) -> Views(m)] :
        /\ g[1] = v /\ g[n + 1] = x /\ Arranged(v)
        /\ \A i \in 1..n : Moves(z[i], s, g[i], g[i + 1], m)
  BY <1>1 DEF Leads
<1>3. v \in Views(m) /\ x \in Views(m) /\ Arranged(v)
  BY <1>2
<1>4. CASE n = 0
  BY <1>2, <1>3, <1>4
<1>5. CASE n # 0
  <2>1. n \in 1..n
    BY <1>5
  <2> QED
    BY <1>2, <1>3, <2>1 DEF Moves
<1> QED
  BY <1>4, <1>5

\* No request leads nowhere.
LEMMA LeadsNone ==
  ASSUME NEW v, NEW x, NEW s, NEW m \in Nat
  PROVE  Leads(v, << >>, x, s, m) <=> v = x /\ v \in Views(m) /\ Arranged(v)
<1>1. Len(<< >>) = 0
  OBVIOUS
<1>2. ASSUME v = x, v \in Views(m), Arranged(v) PROVE Leads(v, << >>, x, s, m)
  <2>1. PICK g \in [1..1 -> Views(m)] : g[1] = v
    <3>1. [i \in 1..1 |-> v] \in [1..1 -> Views(m)] /\ [i \in 1..1 |-> v][1] = v
      BY <1>2
    <3> QED
      BY <3>1
  <2>2. Len(<< >>) + 1 = 1 /\ \A i \in 1..Len(<< >>) : FALSE
    BY <1>1
  <2>3. \A i \in 1..Len(<< >>) : Moves(<< >>[i], s, g[i], g[i + 1], m)
    BY <2>2
  <2>4. /\ g \in [1..(Len(<< >>) + 1) -> Views(m)] /\ g[1] = v
        /\ g[Len(<< >>) + 1] = x
    BY <1>2, <2>1, <2>2
  <2> QED
    BY ONLY <1>2, <2>3, <2>4 DEF Leads
<1>3. ASSUME Leads(v, << >>, x, s, m) PROVE v = x /\ v \in Views(m) /\ Arranged(v)
  BY <1>1, <1>3 DEF Leads
<1> QED
  BY <1>2, <1>3

\* One request more at the end.
LEMMA LeadsOn ==
  ASSUME NEW v, NEW z \in Seq(Requests), NEW w \in Requests, NEW x, NEW s, NEW m \in Nat
  PROVE  Leads(v, Append(z, w), x, s, m) <=>
           \E y : Leads(v, z, y, s, m) /\ Moves(w, s, y, x, m)
<1>1. PICK n \in Nat : n = Len(z)
  OBVIOUS
<1>2. PICK a : a = Append(z, w)
  OBVIOUS
<1>3. Len(a) = n + 1 /\ a[n + 1] = w /\ \A i \in 1..n : a[i] = z[i]
  BY <1>1, <1>2
<1>4. ASSUME NEW g \in [1..(n + 2) -> Views(m)], g[1] = v, g[n + 2] = x, Arranged(v),
             \A i \in 1..(n + 1) : Moves(a[i], s, g[i], g[i + 1], m)
      PROVE  \E y : Leads(v, z, y, s, m) /\ Moves(w, s, y, x, m)
  <2>1. PICK h : h = [i \in 1..(n + 1) |-> g[i]]
    OBVIOUS
  <2>2. h \in [1..(n + 1) -> Views(m)] /\ h[1] = v /\ h[n + 1] = g[n + 1]
    BY <1>4, <2>1
  <2>3. \A i \in 1..n : Moves(z[i], s, h[i], h[i + 1], m)
    <3>1. \A i \in 1..n : i \in 1..(n + 1) /\ i + 1 \in 1..(n + 1)
      OBVIOUS
    <3> QED
      BY <1>3, <1>4, <2>1, <3>1
  <2>4. Leads(v, z, g[n + 1], s, m)
    BY <1>1, <1>4, <2>2, <2>3 DEF Leads
  <2>5. Moves(w, s, g[n + 1], g[(n + 1) + 1], m)
    BY <1>3, <1>4
  <2>6. (n + 1) + 1 = n + 2
    OBVIOUS
  <2> QED
    BY <1>4, <2>4, <2>5, <2>6
<1>5. ASSUME NEW y, NEW g \in [1..(n + 1) -> Views(m)], g[1] = v, g[n + 1] = y, Arranged(v),
             \A i \in 1..n : Moves(z[i], s, g[i], g[i + 1], m), Moves(w, s, y, x, m)
      PROVE  Leads(v, a, x, s, m)
  <2>1. PICK h : h = [i \in 1..(n + 2) |-> IF i = n + 2 THEN x ELSE g[i]]
    OBVIOUS
  <2>2. /\ h \in [1..(n + 2) -> Views(m)] /\ h[1] = v /\ h[n + 2] = x
        /\ \A i \in 1..(n + 1) : h[i] = g[i]
    <3>1. x \in Views(m)
      BY <1>5 DEF Moves
    <3> QED
      BY <1>5, <2>1, <3>1
  <2>3. ASSUME NEW i \in 1..(n + 1) PROVE Moves(a[i], s, h[i], h[i + 1], m)
    <3>1. CASE i = n + 1
      <4>1. h[i] = y /\ h[i + 1] = x /\ a[i] = w
        BY <1>3, <1>5, <2>2, <3>1
      <4> QED
        BY <1>5, <4>1
    <3>2. CASE i # n + 1
      <4>1. i \in 1..n /\ i + 1 \in 1..(n + 1)
        BY <3>2
      <4> QED
        BY <1>3, <1>5, <2>2, <4>1
    <3> QED
      BY <3>1, <3>2
  <2>4. Len(a) + 1 = n + 2
    BY <1>3
  <2> QED
    BY <1>3, <1>5, <2>2, <2>3, <2>4 DEF Leads
<1>6. Leads(v, a, x, s, m) <=>
        \E g \in [1..(n + 2) -> Views(m)] :
          /\ g[1] = v /\ g[n + 2] = x /\ Arranged(v)
          /\ \A i \in 1..(n + 1) : Moves(a[i], s, g[i], g[i + 1], m)
  <2>1. Len(a) + 1 = n + 2
    BY <1>3
  <2> QED
    BY <1>3, <2>1 DEF Leads
<1>7. \A y : Leads(v, z, y, s, m) <=>
        \E g \in [1..(n + 1) -> Views(m)] :
          /\ g[1] = v /\ g[n + 1] = y /\ Arranged(v)
          /\ \A i \in 1..n : Moves(z[i], s, g[i], g[i + 1], m)
  BY <1>1 DEF Leads
<1> QED
  BY <1>2, <1>4, <1>5, <1>6, <1>7

\* The first request goes ahead, and the others follow.
Onward(v, w, t, x, s, m) == \E y : Moves(w, s, v, y, m) /\ Leads(y, t, x, s, m)

\* The first of some requests.
LEMMA LeadsFrom ==
  ASSUME NEW v, NEW z \in Seq(Requests), z # << >>, NEW x, NEW s, NEW m \in Nat,
         NEW w, w = Head(z), NEW t, t = Tail(z)
  PROVE  Leads(v, z, x, s, m) <=>
           v \in Views(m) /\ Arranged(v) /\ Onward(v, w, t, x, s, m)
<1>1. PICK n \in Nat : n + 1 = Len(z)
  <2>1. Len(z) \in Nat /\ Len(z) # 0
    OBVIOUS
  <2>2. Len(z) - 1 \in Nat /\ (Len(z) - 1) + 1 = Len(z)
    BY <2>1
  <2> QED
    BY <2>2
<1>2. PICK a : a = Tail(z)
  OBVIOUS
<1>3. Len(a) = n /\ Head(z) = z[1] /\ \A i \in 1..n : a[i] = z[i + 1]
  BY <1>1, <1>2
<1>4. ASSUME NEW g \in [1..(n + 2) -> Views(m)], g[1] = v, g[n + 2] = x, Arranged(v),
             \A i \in 1..(n + 1) : Moves(z[i], s, g[i], g[i + 1], m)
      PROVE  \E y : /\ v \in Views(m) /\ Arranged(v) /\ Moves(z[1], s, v, y, m)
                    /\ Leads(y, a, x, s, m)
  <2>1. PICK h : h = [i \in 1..(n + 1) |-> g[i + 1]]
    OBVIOUS
  <2>2. h \in [1..(n + 1) -> Views(m)] /\ h[1] = g[2] /\ h[n + 1] = x
    BY <1>4, <2>1
  <2>3. \A i \in 1..n : Moves(a[i], s, h[i], h[i + 1], m)
    <3>1. \A i \in 1..n : i \in 1..(n + 1) /\ i + 1 \in 1..(n + 1)
      OBVIOUS
    <3>2. \A i \in 1..n : Moves(z[i + 1], s, g[i + 1], g[(i + 1) + 1], m)
      BY <1>4, <3>1
    <3> QED
      BY <1>3, <2>1, <3>1, <3>2
  <2>4. v \in Views(m) /\ Moves(z[1], s, v, g[2], m)
    <3>1. 1 \in 1..(n + 1) /\ 1 \in 1..(n + 2) /\ 1 + 1 = 2
      OBVIOUS
    <3> QED
      BY <1>4, <3>1
  <2>5. Leads(g[2], a, x, s, m)
    <3>1. Arranged(g[2])
      BY <2>4 DEF Moves
    <3> QED
      BY <1>3, <2>2, <2>3, <3>1 DEF Leads
  <2> QED
    BY <1>4, <2>4, <2>5
<1>5. ASSUME NEW y, v \in Views(m), Arranged(v), Moves(z[1], s, v, y, m),
             NEW g \in [1..(n + 1) -> Views(m)], g[1] = y, g[n + 1] = x,
             \A i \in 1..n : Moves(a[i], s, g[i], g[i + 1], m)
      PROVE  Leads(v, z, x, s, m)
  <2>1. PICK h : h = [i \in 1..(n + 2) |-> IF i = 1 THEN v ELSE g[i - 1]]
    OBVIOUS
  <2>2. /\ h \in [1..(n + 2) -> Views(m)] /\ h[1] = v
        /\ \A i \in 1..(n + 1) : h[i + 1] = g[i]
    <3>1. \A i \in 1..(n + 2) : i = 1 \/ i - 1 \in 1..(n + 1)
      OBVIOUS
    <3>2. \A i \in 1..(n + 1) : i + 1 \in 1..(n + 2) /\ i + 1 # 1 /\ (i + 1) - 1 = i
      OBVIOUS
    <3> QED
      BY <1>5, <2>1, <3>1, <3>2
  <2>3. h[n + 2] = x
    <3>1. (n + 1) + 1 = n + 2 /\ n + 1 \in 1..(n + 1)
      OBVIOUS
    <3> QED
      BY <1>5, <2>2, <3>1
  <2>4. ASSUME NEW i \in 1..(n + 1) PROVE Moves(z[i], s, h[i], h[i + 1], m)
    <3>1. CASE i = 1
      <4>1. h[i + 1] = y
        BY <1>5, <2>2, <3>1
      <4> QED
        BY <1>5, <2>2, <3>1, <4>1
    <3>2. CASE i # 1
      <4>1. PICK j \in 1..n : i = j + 1
        <5>1. i - 1 \in 1..n /\ i = (i - 1) + 1
          BY <3>2
        <5> QED
          BY <5>1
      <4>2. h[i] = g[j] /\ h[i + 1] = g[j + 1] /\ z[i] = a[j]
        <5>1. j \in 1..(n + 1) /\ j + 1 \in 1..(n + 1)
          OBVIOUS
        <5> QED
          BY <1>3, <2>2, <4>1, <5>1
      <4> QED
        BY <1>5, <4>2
    <3> QED
      BY <3>1, <3>2
  <2>5. Len(z) + 1 = n + 2
    BY <1>1
  <2> QED
    BY <1>1, <1>5, <2>2, <2>3, <2>4, <2>5 DEF Leads
<1>6. Leads(v, z, x, s, m) <=>
        \E g \in [1..(n + 2) -> Views(m)] :
          /\ g[1] = v /\ g[n + 2] = x /\ Arranged(v)
          /\ \A i \in 1..(n + 1) : Moves(z[i], s, g[i], g[i + 1], m)
  <2>1. Len(z) + 1 = n + 2
    BY <1>1
  <2> QED
    BY <1>1, <2>1 DEF Leads
<1>7. ASSUME NEW y, Leads(y, a, x, s, m)
      PROVE  \E g \in [1..(n + 1) -> Views(m)] :
               /\ g[1] = y /\ g[n + 1] = x
               /\ \A i \in 1..n : Moves(a[i], s, g[i], g[i + 1], m)
  BY <1>3, <1>7 DEF Leads
<1>8. ASSUME NEW y, v \in Views(m), Arranged(v), Moves(z[1], s, v, y, m),
             Leads(y, a, x, s, m)
      PROVE  Leads(v, z, x, s, m)
  BY <1>5, <1>7, <1>8
<1>9. Leads(v, z, x, s, m) <=>
        \E y : /\ v \in Views(m) /\ Arranged(v) /\ Moves(w, s, v, y, m)
               /\ Leads(y, t, x, s, m)
  BY <1>2, <1>3, <1>4, <1>6, <1>8
<1> QED
  BY <1>9, Zenon DEF Onward

\* The bound on entries may grow.
LEMMA LeadsGrow ==
  ASSUME NEW v, NEW z \in Seq(Requests), NEW x, NEW s, NEW m \in Nat, Leads(v, z, x, s, m)
  PROVE  Leads(v, z, x, s, m + 1)
<1>1. Views(m) \subseteq Views(m + 1)
  <2>1. ASSUME NEW t \in Seq(0..m) PROVE t \in Seq(0..(m + 1))
    OBVIOUS
  <2> QED
    BY <2>1 DEF Views
<1>2. \A w, y, y2 : Moves(w, s, y, y2, m) => Moves(w, s, y, y2, m + 1)
  BY <1>1 DEF Moves
<1> QED
  BY <1>1, <1>2 DEF Leads

\* The requests of other threads lead nowhere.
LEMMA LeadsElse ==
  ASSUME NEW v, NEW z \in Seq(Requests), NEW x, NEW s, NEW m \in Nat, Leads(v, z, x, s, m),
         ~SomeOf(z, s)
  PROVE  x = v
<1>1. PICK n \in Nat : n = Len(z)
  OBVIOUS
<1>2. PICK g \in [1..(n + 1) -> Views(m)] :
        /\ g[1] = v /\ g[n + 1] = x
        /\ \A i \in 1..n : Moves(z[i], s, g[i], g[i + 1], m)
  BY <1>1 DEF Leads
<1>3. \A i \in 1..n : g[i + 1] = g[i]
  <2>1. \A i \in 1..n : ~Of(z[i], s)
    BY <1>1 DEF SomeOf
  <2> QED
    BY <1>2, <2>1 DEF Moves, Effect
<1> DEFINE T == {i \in Nat : i <= n => g[i + 1] = v}
<1>4. T \in SUBSET Nat /\ 0 \in T
  BY <1>2
<1>5. \A i \in T : i + 1 \in T
  <2> SUFFICES ASSUME NEW i \in Nat, i <= n => g[i + 1] = v, i + 1 <= n
               PROVE  g[(i + 1) + 1] = v
    OBVIOUS
  <2>1. i + 1 \in 1..n
    OBVIOUS
  <2> QED
    BY <1>3, <2>1
<1> HIDE DEF T
<1>6. n \in T
  BY <1>4, <1>5, EveryNumber
<1> QED
  BY <1>2, <1>6 DEF T

\* A part of a sequence over a set.
LEMMA PartsIn ==
  ASSUME NEW S, NEW T, NEW a \in Seq(T), NEW b \in Seq(T), a \o b \in Seq(S)
  PROVE  a \in Seq(S) /\ b \in Seq(S)
<1>1. PICK c \in Seq(S) : c = a \o b
  OBVIOUS
<1>2. /\ Len(a) \in Nat /\ Len(b) \in Nat /\ Len(c) = Len(a) + Len(b)
      /\ DOMAIN a = 1..Len(a) /\ DOMAIN b = 1..Len(b) /\ DOMAIN c = 1..Len(c)
      /\ \A i \in 1..Len(c) : c[i] = IF i <= Len(a) THEN a[i] ELSE b[i - Len(a)]
  BY <1>1, PlacesIn
<1>3. \A i \in 1..Len(c) : c[i] \in S
  BY <1>1, <1>2
<1>4. \A i \in 1..Len(a) : a[i] \in S
  BY <1>2, <1>3
<1>5. \A i \in 1..Len(b) : b[i] \in S
  <2> SUFFICES ASSUME NEW i \in 1..Len(b) PROVE b[i] \in S
    OBVIOUS
  <2>1. Len(a) + i \in 1..Len(c) /\ ~(Len(a) + i <= Len(a)) /\ (Len(a) + i) - Len(a) = i
    BY <1>2
  <2>2. c[Len(a) + i] = b[(Len(a) + i) - Len(a)]
    BY <1>2, <2>1
  <2> QED
    BY <1>3, <2>1, <2>2
<1>6. a = [i \in 1..Len(a) |-> a[i]] /\ b = [i \in 1..Len(b) |-> b[i]]
  OBVIOUS
<1>7. a \in [1..Len(a) -> S] /\ b \in [1..Len(b) -> S]
  BY <1>4, <1>5, <1>6
<1> QED
  BY <1>2, <1>7, SeqDef

\* Sequences of entries may be put together from either end.
LEMMA Together ==
  /\ \A a, b \in Seq(Nat) : a \o b \in Seq(Nat) /\ Range(a \o b) = Range(a) \cup Range(b)
  /\ \A a, b, c \in Seq(Nat) : (a \o b) \o c = a \o (b \o c)
<1>1. \A a, b \in Seq(Nat) : a \o b \in Seq(Nat) /\ Range(a \o b) = Range(a) \cup Range(b)
  BY RangeConcatenation
<1>2. \A a, b, c \in Seq(Nat) : (a \o b) \o c = a \o (b \o c)
  BY ConcatAssociative
<1> QED
  BY <1>1, <1>2

\* Concatenation, under a name the provers leave alone.
Joined(a, b) == a \o b

\* It is associative, and holds what its parts hold.
LEMMA JoinedAre ==
  /\ \A x, y \in Seq(Nat) : Joined(x, y) \in Seq(Nat)
  /\ \A x, y, z \in Seq(Nat) : Joined(Joined(x, y), z) = Joined(x, Joined(y, z))
  /\ \A x, y \in Seq(Nat) : Range(Joined(x, y)) = Range(x) \cup Range(y)
BY Together DEF Joined

\* A live log after the first lines of an append were written twice.
Again(v, x) ==
  /\ x.turns = v.turns
  /\ \/ x = v
     \/ \E a, b, r \in Seq(Nat) : v.live = (a \o b) \o r /\ x.live = (a \o b) \o (b \o r)

\* It keeps the order and the entries.
LEMMA AgainIs ==
  ASSUME NEW v, NEW x, v.live \in Seq(Nat), Again(v, x), NEW t \in Seq(Nat)
  PROVE  /\ InOrder(t \o v.live) => InOrder(t \o x.live)
         /\ Range(x.live) \subseteq Range(v.live)
<1>1. CASE x = v
  BY <1>1
<1>2. CASE x # v
  <2>1. PICK a \in Seq(Nat), b \in Seq(Nat), r \in Seq(Nat) :
          v.live = (a \o b) \o r /\ x.live = (a \o b) \o (b \o r)
    BY <1>2 DEF Again
  <2>2. v.live = Joined(Joined(a, b), r) /\ x.live = Joined(Joined(a, b), Joined(b, r))
    BY <2>1 DEF Joined
  <2>3. PICK ab \in Seq(Nat), br \in Seq(Nat), ta \in Seq(Nat) :
          ab = Joined(a, b) /\ br = Joined(b, r) /\ ta = Joined(t, a)
    BY JoinedAre
  <2>4. Joined(t, v.live) = Joined(Joined(ta, b), r)
    BY <2>2, <2>3, JoinedAre
  <2>5. Joined(t, x.live) = Joined(Joined(ta, b), br)
    BY <2>2, <2>3, JoinedAre
  <2>6. ASSUME InOrder(t \o v.live) PROVE InOrder(t \o x.live)
    <3>1. InOrder((ta \o b) \o r)
      BY ONLY <2>4, <2>6 DEF Joined
    <3>2. InOrder((ta \o b) \o (b \o r))
      BY ONLY <3>1, ta \in Seq(Nat), b \in Seq(Nat), r \in Seq(Nat), OrderTwice
    <3> QED
      BY ONLY <2>3, <2>5, <3>2 DEF Joined
  <2>7. Range(x.live) \subseteq Range(v.live)
    BY <2>2, <2>3, JoinedAre
  <2> QED
    BY <2>6, <2>7
<1> QED
  BY <1>1, <1>2

\* It stays so when more is appended.
LEMMA AgainOn ==
  ASSUME NEW v, NEW x, Again(v, x), NEW es \in Seq(Nat), NEW y, NEW z,
         y.turns = v.turns, z.turns = v.turns,
         y.live = v.live \o es, z.live = x.live \o es, x = v => z = y
  PROVE  Again(y, z)
<1>1. CASE x = v
  BY <1>1, Zenon DEF Again
<1>2. CASE x # v
  <2>1. PICK a \in Seq(Nat), b \in Seq(Nat), r \in Seq(Nat) :
          v.live = (a \o b) \o r /\ x.live = (a \o b) \o (b \o r)
    BY <1>2 DEF Again
  <2>2. /\ v.live = Joined(Joined(a, b), r) /\ x.live = Joined(Joined(a, b), Joined(b, r))
        /\ y.live = Joined(v.live, es) /\ z.live = Joined(x.live, es)
    BY <2>1 DEF Joined
  <2>3. PICK ab \in Seq(Nat), br \in Seq(Nat), re \in Seq(Nat) :
          ab = Joined(a, b) /\ br = Joined(b, r) /\ re = Joined(r, es)
    BY JoinedAre
  <2>4. y.live = Joined(ab, re) /\ z.live = Joined(ab, Joined(b, re))
    <3>1. /\ Joined(Joined(ab, r), es) = Joined(ab, re)
          /\ Joined(Joined(ab, br), es) = Joined(ab, Joined(br, es))
      BY <2>3, JoinedAre
    <3>2. Joined(br, es) = Joined(b, re)
      BY <2>3, JoinedAre
    <3> QED
      BY ONLY <2>2, <2>3, <3>1, <3>2
  <2>5. y.live = (a \o b) \o re /\ z.live = (a \o b) \o (b \o re)
    BY ONLY <2>3, <2>4 DEF Joined
  <2> QED
    BY <2>5, Zenon DEF Again
<1> QED
  BY <1>1, <1>2

\* A request leads on from a live log that was written twice, too.
LEMMA AgainMoves ==
  ASSUME NEW m \in Nat, NEW w \in Requests, NEW s, NEW v \in Views(m), NEW x \in Views(m),
         Arranged(x), Again(v, x), NEW y, Moves(w, s, v, y, m)
  PROVE  \E z : Moves(w, s, x, z, m) /\ Again(y, z)
<1>1. /\ y \in Views(m) /\ Arranged(y) /\ Effect(w, s, v, y)
      /\ x.turns = v.turns /\ v.turns \in Seq(Nat) /\ v.live \in Seq(Nat) /\ x.live \in Seq(Nat)
      /\ y.turns \in Seq(Nat) /\ y.live \in Seq(0..m) /\ x.live \in Seq(0..m)
  <2>1. \A t \in Seq(0..m) : t \in Seq(Nat)
    OBVIOUS
  <2> QED
    BY <2>1 DEF Moves, Views, Again
<1>2. Again(y, y)
  BY Zenon DEF Again
<1>3. CASE ~Of(w, s) \/ w.op = "Runtime"
  BY <1>1, <1>3 DEF Effect, Moves
<1>4. CASE Of(w, s) /\ w.op = "ReplaceLive" /\ y.turns = v.turns /\ y.live = w.entries
  BY <1>1, <1>2, <1>4 DEF Effect, Moves
<1>5. CASE Of(w, s) /\ w.op = "ClearLive" /\ y.turns = v.turns /\ y.live = << >>
  BY <1>1, <1>2, <1>5 DEF Effect, Moves
<1>6. CASE /\ Of(w, s) /\ w.op = "CommitTurn"
           /\ y.turns = v.turns \o w.entries /\ y.live = << >>
           /\ InOrder((v.turns \o w.entries) \o v.live)
  <2>1. InOrder(y.turns \o x.live)
    BY <1>1, <1>6, AgainIs
  <2>2. Effect(w, s, x, y)
    BY <1>1, <1>6, <2>1 DEF Effect
  <2> QED
    BY <1>1, <1>2, <2>2 DEF Moves
<1>7. CASE /\ Of(w, s) /\ w.op = "AppendLive"
           /\ y.turns = v.turns /\ y.live = v.live \o w.entries
  <2>1. w.entries \in Seq(Nat)
    BY <1>7, WriteIs, BarrierIs DEF Of, Requests
  <2>2. w.entries \in Seq(0..m)
    BY <1>1, <1>7, <2>1, PartsIn
  <2>3. PICK z \in Views(m) : z.turns = v.turns /\ z.live = x.live \o w.entries
    <3>1. PICK l \in Seq(0..m) : l = x.live \o w.entries
      <4>1. \A S : \A k, h \in Seq(S) : k \o h \in Seq(S)
        OBVIOUS
      <4> QED
        BY <1>1, <2>2, <4>1, Zenon
    <3>2. v.turns \in Seq(0..m)
      BY DEF Views
    <3>3. [turns |-> v.turns, live |-> l] \in Views(m)
      BY <3>1, <3>2 DEF Views
    <3> QED
      BY <3>1, <3>3
  <2>4. x = v => z = y
    <3>1. \A r \in Views(m) : r = [turns |-> r.turns, live |-> r.live]
      BY DEF Views
    <3>2. y = [turns |-> y.turns, live |-> y.live] /\ z = [turns |-> z.turns, live |-> z.live]
      BY <1>1, <2>3, <3>1
    <3> QED
      BY <1>7, <2>3, <3>2
  <2>5. Again(y, z)
    <3>1. PICK es \in Seq(Nat) : es = w.entries
      BY <2>1
    <3>2. /\ Again(v, x) /\ y.turns = v.turns /\ z.turns = v.turns
          /\ y.live = v.live \o es /\ z.live = x.live \o es
      BY <1>7, <2>3, <3>1
    <3>3. x = v => z = y
      BY <2>4
    <3> QED
      BY ONLY es \in Seq(Nat), <3>2, <3>3, AgainOn, SMTT(30)
  <2>6. Arranged(z)
    <3>1. \A t \in Seq(Nat) : InOrder(t \o y.live) => InOrder(t \o z.live)
      <4>1. y.live \in Seq(Nat) /\ Again(y, z)
        BY <1>1, <1>7, <2>1, <2>5
      <4> QED
        BY ONLY <4>1, AgainIs
    <3> QED
      BY <1>1, <1>7, <2>3, <3>1 DEF Arranged
  <2>7. Effect(w, s, x, z)
    BY <1>1, <1>7, <2>3 DEF Effect
  <2> QED
    BY <2>3, <2>5, <2>6, <2>7 DEF Moves
<1> QED
  BY <1>1, <1>3, <1>4, <1>5, <1>6, <1>7, Zenon DEF Effect

\* And so do all that follow.
LEMMA AgainLeads ==
  ASSUME NEW m \in Nat, NEW z \in Seq(Requests), NEW s, NEW v, NEW c, Leads(v, z, c, s, m),
         NEW x \in Views(m), Arranged(x), Again(v, x)
  PROVE  \E e : Leads(x, z, e, s, m) /\ Again(c, e)
<1> DEFINE T == {n \in Nat : \A y \in Seq(Requests) : Len(y) = n =>
                   \A d : Leads(v, y, d, s, m) => \E e : Leads(x, y, e, s, m) /\ Again(d, e)}
<1>1. T \in SUBSET Nat
  OBVIOUS
<1>2. 0 \in T
  <2> SUFFICES ASSUME NEW y \in Seq(Requests), Len(y) = 0, NEW d, Leads(v, y, d, s, m)
               PROVE  \E e : Leads(x, y, e, s, m) /\ Again(d, e)
    OBVIOUS
  <2>1. y = << >>
    OBVIOUS
  <2>2. d = v
    BY <2>1, LeadsNone
  <2>3. Leads(x, y, x, s, m)
    BY <2>1, LeadsNone
  <2> QED
    BY <2>2, <2>3
<1>3. ASSUME NEW n \in T PROVE n + 1 \in T
  <2>1. /\ n \in Nat
        /\ \A y \in Seq(Requests) : Len(y) = n =>
             \A d : Leads(v, y, d, s, m) => \E e : Leads(x, y, e, s, m) /\ Again(d, e)
    BY <1>3
  <2>2. ASSUME NEW y \in Seq(Requests), Len(y) = n + 1, NEW d, Leads(v, y, d, s, m)
        PROVE  \E e : Leads(x, y, e, s, m) /\ Again(d, e)
    <3> HIDE DEF T
    <3>1. PICK f \in Seq(Requests), w \in Requests : y = Append(f, w) /\ Len(f) = n
      <4>1. /\ Front(y) \in Seq(Requests) /\ Last(y) \in Requests
            /\ y = Append(Front(y), Last(y)) /\ Len(Front(y)) = n
        BY <2>1, <2>2 DEF Front, Last
      <4> QED
        BY <4>1
    <3>2. PICK g : Leads(v, f, g, s, m) /\ Moves(w, s, g, d, m)
      BY <2>2, <3>1, LeadsOn
    <3>3. PICK h : Leads(x, f, h, s, m) /\ Again(g, h)
      BY <2>1, <3>1, <3>2
    <3>4. g \in Views(m) /\ h \in Views(m) /\ Arranged(h)
      BY <3>2, <3>3, LeadsAre
    <3>5. PICK e : Moves(w, s, h, e, m) /\ Again(d, e)
      BY <3>2, <3>3, <3>4, AgainMoves
    <3> QED
      BY <3>1, <3>3, <3>5, LeadsOn
  <2>3. n + 1 \in Nat
    BY <2>1
  <2> QED
    BY <2>2, <2>3
<1> HIDE DEF T
<1>4. \A n \in Nat : n \in T
  BY <1>1, <1>2, <1>3, EveryNumber
<1> QED
  BY <1>4 DEF T

-----------------------------------------------------------------------------
(* The changes of the state, for the order.                                *)

\* Something is shown, or the phase changes.
LEMMA OrderShown ==
  ASSUME NEW u, NEW q \in Seq(Requests), NEW p \in Seq(Requests), NEW d, NEW m \in Nat,
         OrderState(u, q, p, d, m), NEW u2, NEW k \in {m, m + 1}, u2.active \in Seq(0..k),
         \A s \in Sessions : \A c \in Views(m) :
           Arranged(c) /\ Follows(u, s, c) => Follows(u2, s, c)
  PROVE  OrderState(u2, q, p, d, k)
<1> SUFFICES ASSUME NEW s \in Sessions PROVE ThreadOrder(u2, q, p, d, k, s)
  BY Zenon DEF OrderState
<1>1. PICK a, b, c : /\ Begins(d[s], p, s, a)
                     /\ Leads(a, p, b, s, m) /\ Leads(b, q, c, s, m)
                     /\ Follows(u, s, c)
  BY Zenon DEF OrderState, ThreadOrder
<1>2. Leads(a, p, b, s, k) /\ Leads(b, q, c, s, k)
  BY <1>1, LeadsGrow
<1>3. c \in Views(m) /\ Arranged(c)
  BY <1>1, LeadsAre
<1>4. Follows(u2, s, c)
  BY <1>1, <1>3
<1> QED
  BY <1>1, <1>2, <1>4, Zenon DEF ThreadOrder

\* A request goes to the end of the channel.
LEMMA OrderQueued ==
  ASSUME NEW u, NEW q \in Seq(Requests), NEW p \in Seq(Requests), NEW d, NEW m \in Nat,
         OrderState(u, q, p, d, m), NEW u2, NEW k \in {m, m + 1}, u2.active \in Seq(0..k),
         NEW w \in Requests,
         \A s \in Sessions : \A c \in Views(m) :
           Arranged(c) /\ Follows(u, s, c)
             => \E x : Moves(w, s, c, x, k) /\ Follows(u2, s, x)
  PROVE  OrderState(u2, Append(q, w), p, d, k)
<1> SUFFICES ASSUME NEW s \in Sessions PROVE ThreadOrder(u2, Append(q, w), p, d, k, s)
  BY Zenon DEF OrderState
<1>1. PICK a, b, c : /\ Begins(d[s], p, s, a)
                     /\ Leads(a, p, b, s, m) /\ Leads(b, q, c, s, m)
                     /\ Follows(u, s, c)
  BY Zenon DEF OrderState, ThreadOrder
<1>2. Leads(a, p, b, s, k) /\ Leads(b, q, c, s, k)
  BY <1>1, LeadsGrow
<1>3. c \in Views(m) /\ Arranged(c)
  BY <1>1, LeadsAre
<1>4. PICK x : Moves(w, s, c, x, k) /\ Follows(u2, s, x)
  BY <1>1, <1>3
<1>5. Leads(b, Append(q, w), x, s, k)
  BY <1>2, <1>4, LeadsOn
<1> QED
  BY <1>1, <1>2, <1>4, <1>5, Zenon DEF ThreadOrder

\* A view in order, of numbers.
LEMMA ViewIs ==
  ASSUME NEW m \in Nat, NEW v \in Views(m)
  PROVE  /\ v.turns \in Seq(Nat) /\ v.live \in Seq(Nat)
         /\ v.turns \in Seq(0..m) /\ v.live \in Seq(0..m)
         /\ v \in Views(m + 1)
         /\ \A i \in DOMAIN (v.turns \o v.live) : (v.turns \o v.live)[i] < m + 1
<1>1. \A t \in Seq(0..m) : t \in Seq(Nat) /\ t \in Seq(0..(m + 1))
  OBVIOUS
<1>2. PICK t \in Seq(0..m) : t = v.turns \o v.live
  <2>1. \A S : \A k, h \in Seq(S) : k \o h \in Seq(S)
    OBVIOUS
  <2> QED
    BY <2>1, Zenon DEF Views
<1>3. \A i \in DOMAIN t : t[i] \in 0..m
  OBVIOUS
<1>4. \A i \in DOMAIN t : t[i] < m + 1
  BY <1>3
<1> QED
  BY <1>1, <1>2, <1>4 DEF Views

\* A request that writes no entries: a checkpoint, a read, a command.
LEMMA OrderAsked ==
  ASSUME NEW u, NEW q \in Seq(Requests), NEW p \in Seq(Requests), NEW d, NEW m \in Nat,
         OrderState(u, q, p, d, m), NEW w \in Requests, ~IsWrite(w) \/ w.op = "Runtime",
         NEW u2, u2.active = u.active, u2.session = u.session,
         u.phase = "down" => u2.phase = "down"
  PROVE  OrderState(u2, Append(q, w), p, d, m)
<1>1. \A s \in Sessions : \A c \in Views(m) :
        Arranged(c) /\ Follows(u, s, c) => Moves(w, s, c, c, m) /\ Follows(u2, s, c)
  BY DEF Moves, Effect, Of, Follows
<1>2. u2.active \in Seq(0..m)
  BY DEF OrderState
<1> QED
  BY <1>1, <1>2, OrderQueued

\* The live log is cleared.
LEMMA OrderCleared ==
  ASSUME NEW u, NEW q \in Seq(Requests), NEW p \in Seq(Requests), NEW d, NEW m \in Nat,
         OrderState(u, q, p, d, m), u.session \in Sessions,
         NEW u2, u2.active = u.active, u2.session = u.session, u2.phase = u.phase
  PROVE  OrderState(u2, Append(q, ClearLive(u.session)), p, d, m)
<1>1. PICK w \in Requests : w = ClearLive(u.session)
  BY ClearIs DEF Requests
<1>2. w.op = "ClearLive" /\ \A s : Of(w, s) <=> s = u.session
  BY <1>1, ClearIs DEF ClearLive
<1>3. ASSUME NEW s \in Sessions, NEW c \in Views(m), Arranged(c), Follows(u, s, c)
      PROVE  \E x : Moves(w, s, c, x, m) /\ Follows(u2, s, x)
  <2>1. CASE s # u.session
    BY <1>2, <1>3, <2>1 DEF Moves, Effect, Follows
  <2>2. CASE s = u.session
    <3>1. PICK x : x = [turns |-> c.turns, live |-> << >>]
      OBVIOUS
    <3>2. x \in Views(m) /\ x.turns = c.turns /\ x.live = << >>
      <4>1. << >> \in Seq(0..m) /\ c.turns \in Seq(0..m)
        BY DEF Views
      <4> QED
        BY <3>1, <4>1 DEF Views
    <3>3. c.turns \in Seq(Nat) /\ c.live \in Seq(Nat)
      BY ViewIs
    <3>4. InOrder(c.turns)
      BY <1>3, <3>3, OrderPrefix DEF Arranged
    <3>5. c.turns \o << >> = c.turns
      BY <3>3
    <3>6. Arranged(x)
      BY <3>2, <3>4, <3>5 DEF Arranged
    <3>7. Range(<< >>) = {}
      BY DEF Range
    <3>8. Effect(w, s, c, x)
      BY <1>2, <2>2, <3>2 DEF Effect
    <3>9. Follows(u2, s, x)
      BY <1>3, <3>2, <3>7 DEF Follows
    <3> QED
      BY <3>2, <3>6, <3>8, <3>9 DEF Moves
  <2> QED
    BY <2>1, <2>2
<1>4. u2.active \in Seq(0..m)
  BY DEF OrderState
<1> QED
  BY <1>1, <1>3, <1>4, OrderQueued

\* The active turn is committed.
LEMMA OrderCommitted ==
  ASSUME NEW u, NEW q \in Seq(Requests), NEW p \in Seq(Requests), NEW d, NEW m \in Nat,
         OrderState(u, q, p, d, m), u.session \in Sessions, u.phase # "down", NEW o \in Nat,
         NEW u2, u2.active = << >>, u2.session = u.session
  PROVE  OrderState(u2, Append(q, CommitTurn(u.session, o, u.active)), p, d, m)
<1>1. u.active \in Seq(0..m) /\ u.active \in Seq(Nat)
  BY DEF OrderState
<1>2. PICK w : w = CommitTurn(u.session, o, u.active)
  OBVIOUS
<1>3. /\ w \in Requests /\ w.op = "CommitTurn" /\ w.entries = u.active
      /\ \A s : Of(w, s) <=> s = u.session
  BY <1>1, <1>2, CommitIs DEF CommitTurn, Requests
<1>4. ASSUME NEW s \in Sessions, NEW c \in Views(m), Arranged(c), Follows(u, s, c)
      PROVE  \E x : Moves(w, s, c, x, m) /\ Follows(u2, s, x)
  <2>1. CASE s # u.session
    BY <1>3, <1>4, <2>1 DEF Moves, Effect, Follows
  <2>2. CASE s = u.session
    <3>1. PICK x : x = [turns |-> c.turns \o u.active, live |-> << >>]
      OBVIOUS
    <3>2. x \in Views(m) /\ x.turns = c.turns \o u.active /\ x.live = << >>
      <4>1. << >> \in Seq(0..m) /\ c.turns \in Seq(0..m)
        BY DEF Views
      <4>2. \A S : \A k, h \in Seq(S) : k \o h \in Seq(S)
        OBVIOUS
      <4>3. c.turns \o u.active \in Seq(0..m)
        BY <1>1, <4>1, <4>2, Zenon
      <4> QED
        BY <3>1, <4>1, <4>3 DEF Views
    <3>3. /\ c.turns \in Seq(Nat) /\ c.live \in Seq(Nat)
          /\ c.turns \o u.active \in Seq(Nat)
          /\ Range(c.turns \o u.active) = Range(c.turns) \cup Range(u.active)
      BY <1>1, ViewIs, Together
    <3>4. InOrder(c.turns \o u.active) /\ Range(c.live) \subseteq Range(u.active)
      BY <1>4, <2>2 DEF Follows
    <3>5. InOrder((c.turns \o u.active) \o c.live)
      <4>1. Range(c.live) \subseteq Range(c.turns \o u.active)
        BY <3>3, <3>4
      <4> QED
        BY <3>3, <3>4, <4>1, OrderRepeat
    <3>6. (c.turns \o u.active) \o << >> = c.turns \o u.active
      BY <3>3
    <3>7. Arranged(x)
      BY <3>2, <3>4, <3>6 DEF Arranged
    <3>8. Range(<< >>) = {}
      BY DEF Range
    <3>9. Effect(w, s, c, x)
      BY <1>3, <2>2, <3>2, <3>5 DEF Effect
    <3>10. Follows(u2, s, x)
      BY <3>2, <3>4, <3>6, <3>8 DEF Follows
    <3> QED
      BY <3>2, <3>7, <3>9, <3>10 DEF Moves
  <2> QED
    BY <2>1, <2>2
<1>5. u2.active \in Seq(0..m)
  OBVIOUS
<1> QED
  BY <1>2, <1>3, <1>4, <1>5, OrderQueued

\* A new entry at the end of what is in order.
LEMMA NextShown ==
  ASSUME NEW m \in Nat, NEW c \in Views(m), NEW a \in Seq(0..m), NEW l \in Seq(0..m),
         InOrder(c.turns \o l)
  PROVE  /\ InOrder(c.turns \o Append(l, m + 1))
         /\ Append(l, m + 1) \in Seq(0..(m + 1))
         /\ Append(a, m + 1) \in Seq(0..(m + 1))
         /\ Range(l) \subseteq Range(Append(l, m + 1))
         /\ m + 1 \in Range(Append(l, m + 1))
<1>1. /\ c.turns \in Seq(Nat) /\ c.turns \in Seq(0..m) /\ l \in Seq(Nat) /\ m + 1 \in Nat
  <2>1. l \in Seq(Nat) /\ m + 1 \in Nat
    OBVIOUS
  <2> QED
    BY <2>1, ViewIs
<1>2. PICK t \in Seq(0..m) : t = c.turns \o l
  <2>1. \A S : \A k, h \in Seq(S) : k \o h \in Seq(S)
    OBVIOUS
  <2> QED
    BY <1>1, <2>1, Zenon
<1>3. t \in Seq(Nat) /\ \A i \in DOMAIN t : t[i] < m + 1
  <2>1. \A i \in DOMAIN t : t[i] \in 0..m
    OBVIOUS
  <2> QED
    BY <2>1
<1>4. InOrder(Append(t, m + 1))
  BY <1>1, <1>2, <1>3, OrderNext
<1>5. c.turns \o Append(l, m + 1) = Append(t, m + 1)
  <2>1. l \o <<m + 1>> = Append(l, m + 1) /\ t \o <<m + 1>> = Append(t, m + 1)
    BY <1>1, <1>3
  <2>2. <<m + 1>> \in Seq(Nat)
    BY <1>1
  <2>3. (c.turns \o l) \o <<m + 1>> = c.turns \o (l \o <<m + 1>>)
    BY ONLY <1>1, <2>2, Together, Zenon
  <2> QED
    BY ONLY <1>2, <2>1, <2>3, Zenon
<1>6. \A h \in Seq(0..m) : Append(h, m + 1) \in Seq(0..(m + 1))
  <2> SUFFICES ASSUME NEW h \in Seq(0..m) PROVE Append(h, m + 1) \in Seq(0..(m + 1))
    OBVIOUS
  <2>1. h \in Seq(0..(m + 1)) /\ m + 1 \in 0..(m + 1)
    OBVIOUS
  <2> QED
    BY <2>1
<1>7. Range(l) \subseteq Range(Append(l, m + 1)) /\ m + 1 \in Range(Append(l, m + 1))
  <2>1. PICK h : h = Append(l, m + 1)
    OBVIOUS
  <2>2. /\ \A i \in DOMAIN l : i \in DOMAIN h /\ h[i] = l[i]
        /\ Len(l) + 1 \in DOMAIN h /\ h[Len(l) + 1] = m + 1
    BY <1>1, <2>1
  <2> QED
    BY <2>1, <2>2 DEF Range
<1> QED
  BY <1>4, <1>5, <1>6, <1>7

\* An entry is only shown.
LEMMA OrderOnlyShown ==
  ASSUME NEW u, NEW q \in Seq(Requests), NEW p \in Seq(Requests), NEW d, NEW m \in Nat,
         OrderState(u, q, p, d, m), u.phase # "down",
         NEW u2, u2.active = Append(u.active, m + 1), u2.session = u.session
  PROVE  OrderState(u2, q, p, d, m + 1)
<1>1. u.active \in Seq(0..m)
  BY DEF OrderState
<1>2. ASSUME NEW s \in Sessions, NEW c \in Views(m), Arranged(c), Follows(u, s, c)
      PROVE  Follows(u2, s, c)
  <2>1. SUFFICES ASSUME s = u.session
                 PROVE  /\ InOrder(c.turns \o Append(u.active, m + 1))
                        /\ Range(c.live) \subseteq Range(Append(u.active, m + 1))
    BY DEF Follows
  <2>2. InOrder(c.turns \o u.active) /\ Range(c.live) \subseteq Range(u.active)
    BY <1>2, <2>1 DEF Follows
  <2> QED
    BY <1>1, <2>2, NextShown
<1>3. u2.active \in Seq(0..(m + 1))
  <2>1. \A h \in Seq(0..m) : Append(h, m + 1) \in Seq(0..(m + 1))
    <3> SUFFICES ASSUME NEW h \in Seq(0..m) PROVE Append(h, m + 1) \in Seq(0..(m + 1))
      OBVIOUS
    <3>1. h \in Seq(0..(m + 1)) /\ m + 1 \in 0..(m + 1)
      OBVIOUS
    <3> QED
      BY <3>1
  <2> QED
    BY <1>1, <2>1
<1> QED
  BY <1>2, <1>3, OrderShown

\* An entry is shown and recorded.
LEMMA OrderRecorded ==
  ASSUME NEW u, NEW q \in Seq(Requests), NEW p \in Seq(Requests), NEW d, NEW m \in Nat,
         OrderState(u, q, p, d, m), u.phase # "down", u.session \in Sessions,
         NEW u2, u2.active = Append(u.active, m + 1), u2.session = u.session
  PROVE  OrderState(u2, Append(q, AppendLive(u.session, <<m + 1>>)), p, d, m + 1)
<1>1. u.active \in Seq(0..m)
  BY DEF OrderState
<1>2. PICK w : w = AppendLive(u.session, <<m + 1>>)
  OBVIOUS
<1>3. /\ w \in Requests /\ w.op = "AppendLive" /\ w.entries = <<m + 1>>
      /\ \A s : Of(w, s) <=> s = u.session
  <2>1. <<m + 1>> \in Seq(Nat)
    OBVIOUS
  <2>2. w.op = "AppendLive"
    BY <1>2 DEF AppendLive
  <2>3. PICK es \in Seq(Nat) : es = <<m + 1>>
    BY <2>1
  <2>4. w \in Writes /\ w.entries = es /\ \A s : Of(w, s) <=> s = u.session
    <3>1. w = AppendLive(u.session, es)
      BY <1>2, <2>3
    <3> QED
      BY <3>1 DEF AppendLive, Writes, Of, IsWrite
  <2> QED
    BY <2>2, <2>3, <2>4 DEF Requests
<1>4. ASSUME NEW s \in Sessions, NEW c \in Views(m), Arranged(c), Follows(u, s, c)
      PROVE  \E x : Moves(w, s, c, x, m + 1) /\ Follows(u2, s, x)
  <2>1. CASE s # u.session
    <3>1. c \in Views(m + 1)
      BY ViewIs
    <3> QED
      BY <1>3, <1>4, <2>1, <3>1 DEF Moves, Effect, Follows
  <2>2. CASE s = u.session
    <3>1. c.live \in Seq(0..m) /\ c.turns \in Seq(0..(m + 1)) /\ c.live \in Seq(Nat)
      BY ViewIs DEF Views
    <3>2. PICK l : l = Append(c.live, m + 1)
      OBVIOUS
    <3>3. /\ InOrder(c.turns \o l) /\ l \in Seq(0..(m + 1))
          /\ \A e \in Range(l) : e \in Range(c.live) \/ e = m + 1
      <4>1. InOrder(c.turns \o c.live)
        BY <1>4 DEF Arranged
      <4>2. InOrder(c.turns \o l) /\ l \in Seq(0..(m + 1))
        BY <3>1, <3>2, <4>1, NextShown
      <4>3. ASSUME NEW i \in DOMAIN l PROVE l[i] \in Range(c.live) \/ l[i] = m + 1
        <5>1. (i \in DOMAIN c.live /\ l[i] = c.live[i]) \/ l[i] = m + 1
          BY <3>1, <3>2
        <5> QED
          BY <5>1 DEF Range
      <4> QED
        BY <4>2, <4>3 DEF Range
    <3>4. InOrder(c.turns \o u.active) /\ Range(c.live) \subseteq Range(u.active)
      BY <1>4, <2>2 DEF Follows
    <3>5. /\ InOrder(c.turns \o Append(u.active, m + 1))
          /\ Range(u.active) \subseteq Range(Append(u.active, m + 1))
          /\ m + 1 \in Range(Append(u.active, m + 1))
      BY <1>1, <3>4, NextShown
    <3>6. PICK x : x = [turns |-> c.turns, live |-> l]
      OBVIOUS
    <3>7. x \in Views(m + 1) /\ x.turns = c.turns /\ x.live = l
      BY <3>1, <3>3, <3>6 DEF Views
    <3>8. c.live \o <<m + 1>> = l
      BY <3>1, <3>2
    <3>9. Effect(w, s, c, x) /\ Arranged(x)
      BY <1>3, <2>2, <3>3, <3>7, <3>8 DEF Effect, Arranged
    <3>10. Follows(u2, s, x)
      BY <3>3, <3>4, <3>5, <3>7 DEF Follows
    <3> QED
      BY <3>7, <3>9, <3>10 DEF Moves
  <2> QED
    BY <2>1, <2>2
<1>5. u2.active \in Seq(0..(m + 1))
  <2>1. \A h \in Seq(0..m) : Append(h, m + 1) \in Seq(0..(m + 1))
    <3> SUFFICES ASSUME NEW h \in Seq(0..m) PROVE Append(h, m + 1) \in Seq(0..(m + 1))
      OBVIOUS
    <3>1. h \in Seq(0..(m + 1)) /\ m + 1 \in 0..(m + 1)
      OBVIOUS
    <3> QED
      BY <3>1
  <2> QED
    BY <1>1, <2>1
<1> QED
  BY <1>2, <1>3, <1>4, <1>5, OrderQueued

\* The last entry is replaced, and the live log rewritten.
LEMMA OrderReplaced ==
  ASSUME NEW u, NEW q \in Seq(Requests), NEW p \in Seq(Requests), NEW d, NEW m \in Nat,
         OrderState(u, q, p, d, m), u.phase # "down", u.session \in Sessions,
         u.active # << >>, NEW t, t = Append(Front(u.active), m + 1),
         NEW u2, u2.active = t, u2.session = u.session
  PROVE  OrderState(u2, Append(q, ReplaceLive(u.session, t)), p, d, m + 1)
<1>1. u.active \in Seq(0..m)
  BY DEF OrderState
<1>2. PICK f \in Seq(0..m), e \in 0..m : f = Front(u.active) /\ u.active = Append(f, e)
  <2>1. PICK S : S = 0..m
    OBVIOUS
  <2>2. u.active \in Seq(S)
    BY <1>1, <2>1
  <2>3. Len(u.active) \in Nat /\ Len(u.active) >= 1 /\ Len(u.active) \in DOMAIN u.active
    BY <2>2
  <2>4. Front(u.active) \in Seq(S) /\ Last(u.active) \in S
    BY <2>2, <2>3 DEF Front, Last
  <2>5. u.active = Append(Front(u.active), Last(u.active))
    BY <2>2, <2>3 DEF Front, Last
  <2> QED
    BY <2>1, <2>4, <2>5
<1>3. t \in Seq(0..(m + 1)) /\ t \in Seq(Nat)
  <2>1. f \in Seq(0..(m + 1)) /\ m + 1 \in 0..(m + 1)
    OBVIOUS
  <2>2. t \in Seq(0..(m + 1))
    BY <1>2, <2>1
  <2> QED
    BY <2>2
<1>4. PICK w : w = ReplaceLive(u.session, t)
  OBVIOUS
<1>5. /\ w \in Requests /\ w.op = "ReplaceLive" /\ w.entries = t
      /\ \A s : Of(w, s) <=> s = u.session
  BY <1>3, <1>4 DEF Requests, ReplaceLive, Writes, Of, IsWrite
<1>6. ASSUME NEW s \in Sessions, NEW c \in Views(m), Arranged(c), Follows(u, s, c)
      PROVE  \E x : Moves(w, s, c, x, m + 1) /\ Follows(u2, s, x)
  <2>1. CASE s # u.session
    <3>1. c \in Views(m + 1)
      BY ViewIs
    <3> QED
      BY <1>5, <1>6, <2>1, <3>1 DEF Moves, Effect, Follows
  <2>2. CASE s = u.session
    <3>1. c.turns \in Seq(Nat) /\ c.turns \in Seq(0..(m + 1)) /\ f \in Seq(Nat) /\ e \in Nat
      BY ViewIs DEF Views
    <3>2. InOrder(c.turns \o u.active)
      BY <1>6, <2>2 DEF Follows
    <3>3. PICK a \in Seq(Nat) : a = c.turns \o f
      BY <3>1, Together
    <3>4. c.turns \o u.active = a \o <<e>>
      <4>1. u.active = f \o <<e>> /\ <<e>> \in Seq(Nat)
        <5>1. f \o <<e>> = Append(f, e) /\ <<e>> \in Seq(Nat)
          BY <3>1, QueuedIs
        <5> QED
          BY <1>2, <5>1
      <4>2. (c.turns \o f) \o <<e>> = c.turns \o (f \o <<e>>)
        BY ONLY <3>1, <4>1, Together, Zenon
      <4> QED
        BY ONLY <3>3, <4>1, <4>2, Zenon
    <3>5. InOrder(a)
      <4>1. <<e>> \in Seq(Nat)
        BY <3>1
      <4> QED
        BY <3>2, <3>4, <4>1, OrderPrefix
    <3>6. InOrder(c.turns \o t)
      BY <1>2, <3>3, <3>5, NextShown
    <3>7. PICK x : x = [turns |-> c.turns, live |-> t]
      OBVIOUS
    <3>8. x \in Views(m + 1) /\ x.turns = c.turns /\ x.live = t
      BY <1>3, <3>1, <3>7 DEF Views
    <3>9. Effect(w, s, c, x) /\ Arranged(x) /\ Follows(u2, s, x)
      BY <1>5, <2>2, <3>6, <3>8 DEF Effect, Arranged, Follows
    <3> QED
      BY <3>8, <3>9 DEF Moves
  <2> QED
    BY <2>1, <2>2
<1> QED
  BY <1>3, <1>4, <1>5, <1>6, OrderQueued

\* A thread nobody writes becomes the current one.
LEMMA OrderAdopted ==
  ASSUME NEW u, NEW q \in Seq(Requests), NEW p \in Seq(Requests), NEW d, NEW m \in Nat,
         OrderState(u, q, p, d, m), NEW t \in Sessions, ~SomeOf(q, t), ~SomeOf(p, t),
         NEW u2, u2.active = d[t].live, u2.session = t
  PROVE  OrderState(u2, q, p, d, m)
<1>1. PICK a, b, c : /\ Begins(d[t], p, t, a)
                     /\ Leads(a, p, b, t, m) /\ Leads(b, q, c, t, m)
  BY Zenon DEF OrderState, ThreadOrder
<1>2. a = b /\ b = c
  BY <1>1, LeadsElse
<1>3. c \in Views(m) /\ Arranged(c)
  BY <1>1, LeadsAre
<1>4. d[t].live = c.live
  BY <1>1, <1>2 DEF Begins
<1>5. c.live \in Seq(0..m)
  BY <1>3 DEF Views
<1>6. Follows(u2, t, c)
  BY <1>3, <1>4 DEF Follows, Arranged
<1>7. ASSUME NEW s \in Sessions PROVE ThreadOrder(u2, q, p, d, m, s)
  <2>1. CASE s = t
    BY <1>1, <1>6, <2>1, Zenon DEF ThreadOrder
  <2>2. CASE s # t
    <3>1. \A v : Follows(u2, s, v)
      BY <2>2 DEF Follows
    <3> QED
      BY <3>1, Zenon DEF OrderState, ThreadOrder
  <2> QED
    BY <2>1, <2>2
<1>8. u2.active \in Seq(0..m)
  BY <1>4, <1>5
<1> QED
  BY <1>7, <1>8, Zenon DEF OrderState

-----------------------------------------------------------------------------
(* The steps of the worker, for the order.                                 *)

\* A queue is its front and its last; its first stays when more follows.
LEMMA EndsAre ==
  ASSUME NEW S, NEW z \in Seq(S)
  PROVE  /\ z # << >> => /\ Front(z) \in Seq(S) /\ Last(z) \in S
                         /\ z = Append(Front(z), Last(z))
                         /\ Head(z) = z[1] /\ Head(z) \in S /\ Tail(z) \in Seq(S)
         /\ \A e \in S : /\ Append(z, e) # << >>
                         /\ Append(z, e)[1] = IF z = << >> THEN e ELSE z[1]
<1>1. ASSUME z # << >>
      PROVE  /\ Front(z) \in Seq(S) /\ Last(z) \in S /\ z = Append(Front(z), Last(z))
             /\ Head(z) = z[1] /\ Head(z) \in S /\ Tail(z) \in Seq(S)
  <2>1. Len(z) \in Nat /\ Len(z) >= 1 /\ Len(z) \in DOMAIN z
    BY <1>1
  <2>2. Front(z) \in Seq(S) /\ Last(z) \in S
    BY <2>1 DEF Front, Last
  <2>3. z = Append(Front(z), Last(z))
    BY <2>1 DEF Front, Last
  <2> QED
    BY <1>1, <2>2, <2>3
<1>2. ASSUME NEW e \in S
      PROVE  /\ Append(z, e) # << >>
             /\ Append(z, e)[1] = IF z = << >> THEN e ELSE z[1]
  <2>1. Len(z) \in Nat /\ (z = << >> <=> Len(z) = 0)
    OBVIOUS
  <2>2. /\ Len(Append(z, e)) = Len(z) + 1
        /\ \A i \in 1..(Len(z) + 1) : Append(z, e)[i] = IF i <= Len(z) THEN z[i] ELSE e
    OBVIOUS
  <2>3. 1 \in 1..(Len(z) + 1) /\ (1 <= Len(z) <=> z # << >>)
    BY <2>1
  <2> QED
    BY <2>1, <2>2, <2>3
<1> QED
  BY <1>1, <1>2

\* Where a thread begins depends on its files and on the first write.
LEMMA BeginsSame ==
  ASSUME NEW s, NEW f, NEW p, NEW v, Begins(f, p, s, v), NEW h, NEW p2,
         h.turns = f.turns, h.live = f.live, Retried(h, p2, s) <=> Retried(f, p, s),
         Retried(f, p, s) => p2[1] = p[1]
  PROVE  Begins(h, p2, s, v)
<1>1. TurnEntries(h) = TurnEntries(f)
  BY DEF TurnEntries, NextOrdinal, TurnAt
<1>2. CASE Retried(f, p, s)
  BY <1>1, <1>2 DEF Begins
<1>3. CASE ~Retried(f, p, s)
  BY <1>1, <1>3 DEF Begins
<1> QED
  BY <1>2, <1>3

\* Two appends that were joined do what they did one after the other.
LEMMA MergeMoves ==
  ASSUME NEW l \in Requests, NEW w \in Requests, CanMerge(l, w), NEW s, NEW m \in Nat,
         NEW v \in Views(m), NEW x, NEW y, Moves(l, s, v, x, m), Moves(w, s, x, y, m)
  PROVE  Moves(Merge(l, w), s, v, y, m) /\ ~Commits(l, s) /\ ~Commits(Merge(l, w), s)
<1>1. /\ l.op = w.op /\ l.session = w.session /\ w.op \in {"Runtime", "AppendLive"}
      /\ y \in Views(m) /\ Arranged(y) /\ Effect(l, s, v, x) /\ Effect(w, s, x, y)
  BY DEF CanMerge, Moves
<1>2. CASE w.op = "Runtime"
  <2>1. x = v /\ Merge(l, w) = w
    BY <1>1, <1>2 DEF Effect, Merge
  <2> QED
    BY <1>1, <1>2, <2>1 DEF Commits
<1>3. CASE w.op = "AppendLive"
  <2>1. PICK j : j = Merge(l, w)
    OBVIOUS
  <2>2. /\ j.op = "AppendLive" /\ j.session = w.session
        /\ j.entries = l.entries \o w.entries
    BY <1>3, <2>1 DEF Merge, AppendLive
  <2>3. /\ Of(j, s) <=> s = w.session
        /\ Of(w, s) <=> s = w.session
        /\ Of(l, s) <=> s = w.session
    BY <1>1, <1>3, <2>2 DEF Of, IsWrite
  <2>4. Effect(j, s, v, y)
    <3>1. CASE s # w.session
      BY <1>1, <2>3, <3>1 DEF Effect
    <3>2. CASE s = w.session
      <4>1. /\ x.turns = v.turns /\ x.live = v.live \o l.entries
            /\ y.turns = x.turns /\ y.live = x.live \o w.entries
        BY <1>1, <1>3, <2>3, <3>2 DEF Effect
      <4>2. v.live \in Seq(Nat) /\ l.entries \in Seq(Nat) /\ w.entries \in Seq(Nat)
        BY <1>1, <1>3, ViewIs, WriteIs, BarrierIs DEF Requests, IsWrite
      <4>3. y.live = v.live \o (l.entries \o w.entries)
        <5>1. (v.live \o l.entries) \o w.entries = v.live \o (l.entries \o w.entries)
          BY ONLY <4>2, Together, Zenon
        <5> QED
          BY <4>1, <5>1
      <4> QED
        BY <2>2, <2>3, <3>2, <4>1, <4>3 DEF Effect
    <3> QED
      BY <3>1, <3>2
  <2> QED
    BY <1>1, <1>3, <2>1, <2>2, <2>4 DEF Moves, Commits
<1> QED
  BY <1>1, <1>2, <1>3

\* A write goes from the channel to the pending ones (recv_timeout).
LEMMA OrderTaken ==
  ASSUME NEW u, NEW q \in Seq(Requests), NEW p \in Seq(Requests), NEW d, NEW m \in Nat,
         OrderState(u, q, p, d, m), OrdinalInv(u, q, p, d), d \in [Sessions -> Files],
         q # << >>, NEW w, w = Head(q), NEW t, t = Tail(q), NEW p2,
         \/ p2 = Append(p, w)
         \/ p # << >> /\ CanMerge(Last(p), w) /\ p2 = Append(Front(p), Merge(Last(p), w)),
         p2 \in Seq(Requests)
  PROVE  OrderState(u, t, p2, d, m)
<1> SUFFICES ASSUME NEW s \in Sessions PROVE ThreadOrder(u, t, p2, d, m, s)
  BY Zenon DEF OrderState
<1>1. PICK a, b, c : /\ Begins(d[s], p, s, a)
                     /\ Leads(a, p, b, s, m) /\ Leads(b, q, c, s, m)
                     /\ Follows(u, s, c)
  BY Zenon DEF OrderState, ThreadOrder
<1>2. w \in Requests /\ t \in Seq(Requests) /\ w = q[1] /\ 1 \in DOMAIN q
  BY EndsAre
<1>3. PICK y : Moves(w, s, b, y, m) /\ Leads(y, t, c, s, m)
  <2>1. Onward(b, w, t, c, s, m)
    BY <1>1, LeadsFrom
  <2> QED
    BY <2>1 DEF Onward
<1>4. a \in Views(m) /\ b \in Views(m)
  BY <1>1, LeadsAre
<1>5. Leads(a, p2, y, s, m) /\ Begins(d[s], p2, s, a)
  <2>1. CASE p2 = Append(p, w)
    <3>1. Leads(a, p2, y, s, m)
      BY <1>1, <1>2, <1>3, <2>1, LeadsOn
    <3>2. p2 # << >> /\ p2[1] = IF p = << >> THEN w ELSE p[1]
      BY <1>2, <2>1, EndsAre
    <3>3. CASE p # << >>
      <4>1. Retried(d[s], p2, s) <=> Retried(d[s], p, s)
        BY <3>2, <3>3 DEF Retried
      <4> QED
        BY <1>1, <3>1, <3>2, <3>3, <4>1, BeginsSame
    <3>4. CASE p = << >>
      <4>1. ~Retried(d[s], p, s)
        BY <3>4 DEF Retried
      <4>2. ASSUME Retried(d[s], p2, s) PROVE FALSE
        <5>1. Commits(w, s) /\ w.ordinal \in DOMAIN d[s].turns
          BY <3>2, <3>4, <4>2 DEF Retried
        <5>2. w.ordinal < w.ordinal
          BY <1>2, <5>1 DEF OrdinalInv, Above
        <5>3. w.ordinal \in Nat
          <6>1. d[s].turns \in TurnLogs
            BY DEF Files
          <6> QED
            BY <5>1, <6>1 DEF TurnLogs
        <5> QED
          BY <5>2, <5>3
      <4> QED
        BY <1>1, <3>1, <4>1, <4>2, BeginsSame
    <3> QED
      BY <3>3, <3>4
  <2>2. CASE p # << >> /\ CanMerge(Last(p), w) /\ p2 = Append(Front(p), Merge(Last(p), w))
    <3>1. PICK f \in Seq(Requests), l \in Requests :
            f = Front(p) /\ l = Last(p) /\ p = Append(f, l)
      BY <2>2, EndsAre
    <3>2. PICK x : Leads(a, f, x, s, m) /\ Moves(l, s, x, b, m)
      BY <1>1, <3>1, LeadsOn
    <3>3. x \in Views(m)
      BY <3>2, LeadsAre
    <3>4. PICK j : j = Merge(l, w)
      OBVIOUS
    <3>5. Moves(j, s, x, y, m) /\ ~Commits(l, s) /\ ~Commits(j, s)
      BY <1>2, <1>3, <2>2, <3>1, <3>2, <3>3, <3>4, MergeMoves
    <3>6. j \in Requests /\ p2 = Append(f, j)
      <4>1. l.op = w.op /\ w.op \in {"Runtime", "AppendLive"}
        BY <2>2, <3>1 DEF CanMerge
      <4>2. CASE w.op = "Runtime"
        BY <1>2, <2>2, <3>1, <3>4, <4>2 DEF Merge
      <4>3. CASE w.op = "AppendLive"
        <5>1. l.entries \in Seq(Nat) /\ w.entries \in Seq(Nat) /\ w.session \in Sessions
          BY <1>2, <4>1, <4>3, WriteIs, BarrierIs DEF Requests, IsWrite
        <5>2. PICK es \in Seq(Nat) : es = l.entries \o w.entries
          BY <5>1, Together
        <5>3. j = AppendLive(w.session, es)
          BY <3>4, <4>3, <5>2 DEF Merge
        <5> QED
          BY <2>2, <3>1, <3>4, <5>1, <5>3, LiveIs DEF Requests
      <4> QED
        BY <4>1, <4>2, <4>3
    <3>7. Leads(a, p2, y, s, m)
      BY <3>2, <3>5, <3>6, LeadsOn
    <3>8. /\ p[1] = IF f = << >> THEN l ELSE f[1]
          /\ p2[1] = IF f = << >> THEN j ELSE f[1]
          /\ p2 # << >>
      <4>1. \A e \in Requests : /\ Append(f, e) # << >>
                                /\ Append(f, e)[1] = IF f = << >> THEN e ELSE f[1]
        BY ONLY f \in Seq(Requests), EndsAre
      <4> QED
        BY <3>1, <3>6, <4>1
    <3>9. /\ Retried(d[s], p2, s) <=> Retried(d[s], p, s)
          /\ Retried(d[s], p, s) => p2[1] = p[1]
      BY <2>2, <3>5, <3>8 DEF Retried
    <3> QED
      BY <1>1, <3>7, <3>9, BeginsSame
  <2> QED
    BY <2>1, <2>2
<1> QED
  BY <1>1, <1>3, <1>5, Zenon DEF ThreadOrder

\* A request that is no write leaves the channel (recv_timeout).
LEMMA OrderBarrier ==
  ASSUME NEW u, NEW q \in Seq(Requests), NEW p \in Seq(Requests), NEW d, NEW m \in Nat,
         OrderState(u, q, p, d, m), q # << >>, NEW w, w = Head(q), ~IsWrite(w), NEW t, t = Tail(q)
  PROVE  OrderState(u, t, p, d, m)
<1> SUFFICES ASSUME NEW s \in Sessions PROVE ThreadOrder(u, t, p, d, m, s)
  BY Zenon DEF OrderState
<1>1. PICK a, b, c : /\ Begins(d[s], p, s, a)
                     /\ Leads(a, p, b, s, m) /\ Leads(b, q, c, s, m)
                     /\ Follows(u, s, c)
  BY Zenon DEF OrderState, ThreadOrder
<1>2. PICK y : Moves(w, s, b, y, m) /\ Leads(y, t, c, s, m)
  <2>1. Onward(b, w, t, c, s, m)
    BY <1>1, LeadsFrom
  <2> QED
    BY <2>1 DEF Onward
<1>3. y = b
  BY <1>2 DEF Moves, Effect, Of
<1> QED
  BY <1>1, <1>2, <1>3, Zenon DEF ThreadOrder

\* The turns and the live log a completed write leaves.
Written(w, f, x) ==
  /\ w.op = "Runtime" => x.turns = f.turns /\ x.live = f.live
  /\ w.op = "AppendLive" => x.turns = f.turns /\ x.live = f.live \o w.entries
  /\ w.op = "ReplaceLive" => x.turns = f.turns /\ x.live = w.entries
  /\ w.op = "ClearLive" => x.turns = f.turns /\ x.live = << >>
  /\ w.op = "CommitTurn" =>
       x.turns = AddedTurn(f, w.ordinal, w.entries) /\ x.live = << >>

\* WriteOperation::execute.
LEMMA ExecuteTo ==
  ASSUME NEW w \in Writes, NEW f \in Files, NEW indexed \in BOOLEAN,
         NEW x, x = Execute(w, f, indexed)
  PROVE  Written(w, f, x)
<1>1. DOMAIN f = {"exists", "turns", "index", "live", "checkpoint"}
  BY DEF Files
<1>2. CASE w.op = "Runtime"
  <2>1. x = PutParts(f, Len(Parts), w.version)
    BY <1>2, Zenon DEF Execute
  <2>2. Len(Parts) \in Nat /\ w.version \in Nat
    BY <1>2, WriteIs DEF Parts
  <2>3. PICK k \in Nat, v \in Nat : x = PutParts(f, k, v)
    BY <2>1, <2>2
  <2>4. x.live = f.live /\ x.turns = f.turns
    BY ONLY <2>3, k \in Nat, v \in Nat, f \in Files, PartsPutIs
  <2> QED
    BY <1>2, <2>4 DEF Written
<1>3. CASE w.op = "AppendLive"
  <2>1. x = [f EXCEPT !.live = f.live \o w.entries]
    BY <1>3 DEF Execute
  <2> QED
    BY <1>1, <1>3, <2>1 DEF Written
<1>4. CASE w.op = "ReplaceLive"
  <2>1. x = [f EXCEPT !.live = w.entries]
    BY <1>4 DEF Execute
  <2> QED
    BY <1>1, <1>4, <2>1 DEF Written
<1>5. CASE w.op = "ClearLive"
  <2>1. x = [f EXCEPT !.live = << >>]
    BY <1>5 DEF Execute
  <2> QED
    BY <1>1, <1>5, <2>1 DEF Written
<1>6. CASE w.op = "CommitTurn"
  <2>1. PICK turns : turns = AddedTurn(f, w.ordinal, w.entries)
    OBVIOUS
  <2>2. PICK y : y = PutTurn(f, w.ordinal, w.entries)
    OBVIOUS
  <2>3. y = [f EXCEPT !.turns = turns]
    BY <2>1, <2>2 DEF PutTurn, AddedTurn
  <2>4. DOMAIN y = DOMAIN f /\ y.turns = turns
    BY <1>1, <2>3
  <2>5. PICK z : z = IndexTurn(y, w.ordinal, indexed)
    OBVIOUS
  <2>6. DOMAIN z = DOMAIN f /\ z.turns = turns
    BY <1>1, <2>4, <2>5 DEF IndexTurn
  <2>7. x = [z EXCEPT !.live = << >>]
    BY <1>6, <2>2, <2>5 DEF Execute
  <2>8. x.turns = turns /\ x.live = << >>
    BY <1>1, <2>6, <2>7
  <2> QED
    BY <1>6, <2>1, <2>8 DEF Written
<1> QED
  BY <1>2, <1>3, <1>4, <1>5, <1>6, WriteIs

\* A sequence is its first entries and the others.
LEMMA CutIs ==
  ASSUME NEW es \in Seq(Nat), NEW k \in 0..Len(es)
  PROVE  /\ SubSeq(es, 1, k) \in Seq(Nat) /\ SubSeq(es, k + 1, Len(es)) \in Seq(Nat)
         /\ es = SubSeq(es, 1, k) \o SubSeq(es, k + 1, Len(es))
<1>1. PICK n \in Nat : n = Len(es)
  OBVIOUS
<1>2. PICK a, b : a = SubSeq(es, 1, k) /\ b = SubSeq(es, k + 1, n)
  OBVIOUS
<1>3. /\ a \in Seq(Nat) /\ b \in Seq(Nat) /\ Len(a) = k /\ Len(b) = n - k
      /\ \A i \in 1..k : a[i] = es[i]
      /\ \A i \in 1..(n - k) : b[i] = es[k + i]
  <2>1. a \in Seq(Nat) /\ Len(a) = k /\ \A i \in 1..k : a[i] = es[i]
    BY <1>1, <1>2
  <2>2. b \in Seq(Nat) /\ Len(b) = n - k
    BY <1>1, <1>2
  <2>3. ASSUME NEW i \in 1..(n - k) PROVE b[i] = es[k + i]
    BY <1>1, <1>2
  <2> QED
    BY <2>1, <2>2, <2>3
<1>4. PICK c : c = a \o b
  OBVIOUS
<1>5. /\ c \in Seq(Nat) /\ Len(c) = n
      /\ \A i \in 1..n : c[i] = IF i <= k THEN a[i] ELSE b[i - k]
  <2>1. /\ c \in Seq(Nat) /\ Len(c) = Len(a) + Len(b)
        /\ \A i \in 1..Len(c) : c[i] = IF i <= Len(a) THEN a[i] ELSE b[i - Len(a)]
    <3>1. a \in Seq(Nat) /\ b \in Seq(Nat)
      BY <1>3
    <3> QED
      BY ONLY <1>4, <3>1, PlacesIn
  <2>2. k + (n - k) = n
    BY <1>1
  <2> QED
    BY <1>3, <2>1, <2>2
<1>6. \A i \in 1..n : c[i] = es[i]
  <2> SUFFICES ASSUME NEW i \in 1..n PROVE c[i] = es[i]
    OBVIOUS
  <2>1. CASE i <= k
    <3>1. i \in 1..k
      BY <2>1
    <3> QED
      BY <1>3, <1>5, <2>1, <3>1
  <2>2. CASE ~(i <= k)
    <3>1. i - k \in 1..(n - k) /\ k + (i - k) = i
      BY <1>1, <2>2
    <3>2. b[i - k] = es[k + (i - k)]
      BY <1>3, <3>1
    <3>3. c[i] = b[i - k]
      BY <1>5, <2>2
    <3> QED
      BY <3>1, <3>2, <3>3
  <2> QED
    BY <2>1, <2>2
<1>7. c = es
  <2>1. es = [i \in 1..n |-> es[i]] /\ c = [i \in 1..n |-> c[i]]
    BY <1>1, <1>5
  <2> QED
    BY <1>6, <2>1
<1> QED
  BY <1>1, <1>2, <1>3, <1>4, <1>7

\* The turns and the live log a failed write may leave.
LEMMA PartialTo ==
  ASSUME NEW w \in Writes, NEW f \in Files, NEW x \in PartialWrites(w, f)
  PROVE  \/ x.turns = f.turns /\ x.live = f.live
         \/ /\ w.op = "AppendLive" /\ x.turns = f.turns
            /\ \E a, b \in Seq(Nat) : w.entries = a \o b /\ x.live = f.live \o a
         \/ /\ w.op = "CommitTurn" /\ x.live = f.live
            /\ x.turns = AddedTurn(f, w.ordinal, w.entries)
<1>1. DOMAIN f = {"exists", "turns", "index", "live", "checkpoint"}
  BY DEF Files
<1>2. CASE w.op = "Runtime"
  <2>1. x \in {PutParts(f, n, w.version) : n \in 0..(Len(Parts) - 1)}
    BY <1>2, Zenon DEF PartialWrites
  <2>2. PICK k \in 0..(Len(Parts) - 1) : x = PutParts(f, k, w.version)
    BY <2>1
  <2>3. k \in Nat /\ w.version \in Nat
    BY <1>2, <2>2, WriteIs DEF Parts
  <2>4. x.live = f.live /\ x.turns = f.turns
    BY <2>2, <2>3, PartsPutIs
  <2> QED
    BY <2>4
<1>3. CASE w.op = "AppendLive"
  <2>1. w.entries \in Seq(Nat)
    BY <1>3, WriteIs
  <2>2. x \in {[f EXCEPT !.live = f.live \o SubSeq(w.entries, 1, n)] : n \in 0..Len(w.entries)}
    BY <1>3 DEF PartialWrites
  <2>3. PICK k \in 0..Len(w.entries) : x = [f EXCEPT !.live = f.live \o SubSeq(w.entries, 1, k)]
    BY <2>2
  <2>4. PICK a \in Seq(Nat), b \in Seq(Nat) : a = SubSeq(w.entries, 1, k) /\ w.entries = a \o b
    BY <2>1, CutIs
  <2>5. x.live = f.live \o a /\ x.turns = f.turns
    BY <1>1, <2>3, <2>4
  <2> QED
    BY <1>3, <2>4, <2>5
<1>4. CASE w.op = "CommitTurn"
  <2>1. PICK turns : turns = AddedTurn(f, w.ordinal, w.entries)
    OBVIOUS
  <2>2. PICK y : y = PutTurn(f, w.ordinal, w.entries)
    OBVIOUS
  <2>3. y = [f EXCEPT !.turns = turns]
    BY <2>1, <2>2 DEF PutTurn, AddedTurn
  <2>4. DOMAIN y = DOMAIN f /\ y.turns = turns /\ y.live = f.live
    BY <1>1, <2>3
  <2>5. x \in {f} \cup {IndexTurn(y, w.ordinal, b) : b \in BOOLEAN}
    BY <1>4, <2>2 DEF PartialWrites
  <2>6. x = f \/ x = y \/ x = [y EXCEPT !.index = y.index \cup {w.ordinal}]
    BY <2>5 DEF IndexTurn
  <2>7. \/ x.turns = f.turns /\ x.live = f.live
        \/ x.turns = turns /\ x.live = f.live
    BY <1>1, <2>4, <2>6
  <2> QED
    BY <1>4, <2>1, <2>7
<1>5. CASE w.op \in {"ReplaceLive", "ClearLive"}
  <2>1. x = f
    BY <1>5 DEF PartialWrites
  <2> QED
    BY <2>1
<1> QED
  BY <1>2, <1>3, <1>4, <1>5, WriteIs

\* A turn is put into the log: the one that is tried again, or one beyond all.
Added(f, o, es, h) ==
  /\ DOMAIN h.turns = DOMAIN f.turns \cup {o}
  /\ TurnEntries(h) = IF o \in DOMAIN f.turns THEN TurnEntries(f)
                      ELSE TurnEntries(f) \o es

\* append_turn_record, within the order of ordinals.
LEMMA TurnAdded ==
  ASSUME NEW f, f.turns \in TurnLogs, NEW o \in Nat, NEW es \in Seq(Nat), NEW h,
         h.turns = AddedTurn(f, o, es),
         \A i \in DOMAIN f.turns : i < o \/ (i = o /\ f.turns[i] = es)
  PROVE  Added(f, o, es, h)
<1>1. /\ DOMAIN f.turns \in SUBSET Nat /\ f.turns = [i \in DOMAIN f.turns |-> f.turns[i]]
      /\ h.turns = [i \in DOMAIN f.turns \cup {o} |-> IF i = o THEN es ELSE f.turns[i]]
      /\ DOMAIN h.turns = DOMAIN f.turns \cup {o}
  BY DEF TurnLogs, AddedTurn
<1>2. CASE o \in DOMAIN f.turns
  <2>1. f.turns[o] = es
    BY <1>2
  <2>2. h.turns = [i \in DOMAIN f.turns |-> f.turns[i]]
    BY <1>1, <1>2, <2>1
  <2>3. h.turns = f.turns
    BY <1>1, <2>2
  <2>4. TurnEntries(h) = TurnEntries(f)
    BY <2>3 DEF TurnEntries, NextOrdinal, TurnAt
  <2> QED
    BY <1>1, <1>2, <2>3, <2>4 DEF Added
<1>3. CASE o \notin DOMAIN f.turns
  <2>1. \A i \in DOMAIN f.turns : i < o
    BY <1>3
  <2>2. h.turns \in TurnLogs
    <3>1. PICK S : S \in SUBSET Nat /\ IsFiniteSet(S) /\ f.turns \in [S -> Seq(Nat)]
      BY DEF TurnLogs
    <3>2. h.turns \in [S \cup {o} -> Seq(Nat)]
      BY <1>1, <3>1
    <3>3. IsFiniteSet(S \cup {o}) /\ S \cup {o} \in SUBSET Nat
      BY <3>1, FS_AddElement
    <3> QED
      BY <3>2, <3>3 DEF TurnLogs
  <2>3. TurnEntries(h) = TurnEntries(f) \o es
    <3>1. /\ f.turns \in TurnLogs /\ o \in Nat /\ es \in Seq(Nat)
          /\ h.turns = AddedTurn(f, o, es)
      OBVIOUS
    <3> QED
      BY ONLY <2>1, <2>2, <3>1, TurnStored, Zenon
  <2> QED
    BY <1>1, <1>3, <2>3 DEF Added
<1> QED
  BY <1>2, <1>3

\* What the first pending write may find stored (OrdinalInv).
Finds(f, w, t, s) ==
  /\ Commits(w, s) => Above(t, s, w.ordinal)
  /\ \A o \in DOMAIN f.turns :
       /\ Above(t, s, o)
       /\ Commits(w, s) => o < w.ordinal \/ (o = w.ordinal /\ f.turns[o] = w.entries)

\* The first pending write finds that.
LEMMA FirstFinds ==
  ASSUME NEW u, NEW q, NEW p \in Seq(Requests), NEW d, OrdinalInv(u, q, p, d), p # << >>,
         NEW w, w = Head(p), NEW t, t = Tail(p), NEW s \in Sessions
  PROVE  w = p[1] /\ t \in Seq(Requests) /\ Finds(d[s], w, t, s)
<1>1. /\ Ordered(p, s)
      /\ \A o \in DOMAIN d[s].turns : Beyond(p, s, o, d[s].turns[o])
  BY DEF OrdinalInv
<1>2. /\ Ordered(p, s) => (Commits(w, s) => Above(t, s, w.ordinal))
      /\ \A o, es : Beyond(p, s, o, es) =>
           /\ Above(t, s, o)
           /\ Commits(w, s) => o < w.ordinal \/ (w.ordinal = o /\ w.entries = es)
  BY TailIs
<1>3. w = p[1] /\ t \in Seq(Requests)
  BY EndsAre
<1>4. Finds(d[s], w, t, s)
  BY <1>1, <1>2 DEF Finds
<1> QED
  BY <1>3, <1>4

\* A commit beyond what is stored is not tried again.
LEMMA NotRetried ==
  ASSUME NEW f, DOMAIN f.turns \subseteq Nat, NEW t \in Seq(Requests), NEW s,
         \A o \in DOMAIN f.turns : Above(t, s, o)
  PROVE  ~Retried(f, t, s)
<1> SUFFICES ASSUME Retried(f, t, s) PROVE FALSE
  OBVIOUS
<1>1. t # << >> /\ Commits(t[1], s) /\ t[1].ordinal \in DOMAIN f.turns /\ 1 \in DOMAIN t
  <2>1. t # << >> /\ Commits(t[1], s) /\ t[1].ordinal \in DOMAIN f.turns
    BY DEF Retried
  <2> QED
    BY <2>1
<1>2. PICK k \in Nat : k = t[1].ordinal
  BY <1>1
<1>3. k < k
  BY <1>1, <1>2 DEF Above
<1> QED
  BY ONLY <1>3, k \in Nat

\* The first pending write is done, and is pending no more (flush_pending).
LEMMA OrderStored ==
  ASSUME NEW u, NEW q \in Seq(Requests), NEW p \in Seq(Writes), NEW d, NEW m \in Nat,
         OrderState(u, q, p, d, m), OrdinalInv(u, q, p, d), d \in [Sessions -> Files],
         p # << >>, NEW w, w = Head(p), NEW t, t = Tail(p), NEW indexed \in BOOLEAN,
         NEW x, x = Execute(w, d[w.session], indexed),
         NEW d2, d2 = [d EXCEPT ![w.session] = x]
  PROVE  OrderState(u, q, t, d2, m)
<1> SUFFICES ASSUME NEW s \in Sessions PROVE ThreadOrder(u, q, t, d2, m, s)
  BY Zenon DEF OrderState
<1>1. PICK a, b, c : /\ Begins(d[s], p, s, a)
                     /\ Leads(a, p, b, s, m) /\ Leads(b, q, c, s, m)
                     /\ Follows(u, s, c)
  BY Zenon DEF OrderState, ThreadOrder
<1>2. /\ p \in Seq(Requests) /\ w \in Writes /\ w.session \in Sessions
      /\ d[w.session] \in Files /\ d[s] \in Files
  <2>1. p \in Seq(Requests)
    BY DEF Requests
  <2>2. w \in Writes
    BY EndsAre
  <2> QED
    BY <2>1, <2>2, WriteIs
<1>3. PICK y : Moves(w, s, a, y, m) /\ Leads(y, t, b, s, m)
  <2>1. Onward(a, w, t, b, s, m)
    BY <1>1, <1>2, LeadsFrom
  <2> QED
    BY <2>1 DEF Onward
<1>0. w = p[1] /\ t \in Seq(Requests) /\ Finds(d[s], w, t, s)
  BY <1>2, FirstFinds
<1>4. /\ w = p[1] /\ t \in Seq(Requests)
      /\ Commits(w, s) => Above(t, s, w.ordinal)
      /\ \A o \in DOMAIN d[s].turns :
           /\ Above(t, s, o)
           /\ Commits(w, s) => o < w.ordinal \/ (o = w.ordinal /\ d[s].turns[o] = w.entries)
  BY <1>0 DEF Finds
<1>5. d[s].turns \in TurnLogs /\ DOMAIN d[s].turns \subseteq Nat
  BY <1>2 DEF Files, TurnLogs
<1>6. Begins(d2[s], t, s, y)
  <2>1. Effect(w, s, a, y)
    BY <1>3 DEF Moves
  <2>2. CASE w.session # s
    <3>1. ~Of(w, s) /\ ~Commits(w, s) /\ d2[s] = d[s]
      BY <2>2 DEF Of, Commits
    <3>2. y = a
      BY <2>1, <3>1 DEF Effect
    <3>3. ~Retried(d[s], p, s) /\ ~Retried(d2[s], t, s)
      <4>1. ~Retried(d[s], p, s)
        BY <1>4, <3>1 DEF Retried
      <4> QED
        BY <1>4, <1>5, <3>1, <4>1, NotRetried
    <3> QED
      BY <1>1, <3>1, <3>2, <3>3, BeginsSame
  <2>3. CASE w.session = s
    <3>1. /\ d2[s] = x /\ Of(w, s)
          /\ w.op \in {"Runtime", "AppendLive", "ReplaceLive", "CommitTurn", "ClearLive"}
      BY <1>2, <2>3, WriteIs DEF Of
    <3>0. /\ w.op = "Runtime" => x.turns = d[s].turns /\ x.live = d[s].live
          /\ w.op = "AppendLive" => x.turns = d[s].turns /\ x.live = d[s].live \o w.entries
          /\ w.op = "ReplaceLive" => x.turns = d[s].turns /\ x.live = w.entries
          /\ w.op = "ClearLive" => x.turns = d[s].turns /\ x.live = << >>
          /\ w.op = "CommitTurn" =>
               x.turns = AddedTurn(d[s], w.ordinal, w.entries) /\ x.live = << >>
      <4>1. PICK f \in Files : f = d[s]
        BY <1>2
      <4>2. x = Execute(w, f, indexed)
        BY <2>3, <4>1
      <4>3. w \in Writes /\ indexed \in BOOLEAN
        BY <1>2
      <4>4. Written(w, f, x)
        BY ONLY f \in Files, <4>2, <4>3, ExecuteTo
      <4> QED
        BY <4>1, <4>4 DEF Written
    <3>2. CASE w.op # "CommitTurn"
      <4>1. ~Commits(w, s)
        BY <3>2 DEF Commits
      <4>2. x.turns = d[s].turns
        BY <3>0, <3>1, <3>2
      <4>3. ~Retried(d[s], p, s) /\ ~Retried(x, t, s)
        <5>1. ~Retried(d[s], p, s)
          BY <1>4, <4>1 DEF Retried
        <5> QED
          BY <1>4, <1>5, <4>2, <5>1, NotRetried
      <4>4. TurnEntries(x) = TurnEntries(d[s])
        BY <4>2 DEF TurnEntries, NextOrdinal, TurnAt
      <4>5. d[s].live = a.live /\ TurnEntries(d[s]) = a.turns
        BY <1>1, <4>3 DEF Begins
      <4>6. x.live = y.live /\ y.turns = a.turns
        BY <2>1, <3>0, <3>1, <3>2, <4>5 DEF Effect
      <4> QED
        BY <3>1, <4>3, <4>4, <4>5, <4>6 DEF Begins
    <3>3. CASE w.op = "CommitTurn"
      <4>1. Commits(w, s) /\ w.ordinal \in Nat /\ w.entries \in Seq(Nat)
        BY <1>2, <2>3, <3>3, WriteIs DEF Commits
      <4>2. x.turns = AddedTurn(d[s], w.ordinal, w.entries) /\ x.live = << >>
        BY <3>0, <3>3
      <4>3. /\ DOMAIN x.turns = DOMAIN d[s].turns \cup {w.ordinal}
            /\ TurnEntries(x) = IF w.ordinal \in DOMAIN d[s].turns THEN TurnEntries(d[s])
                                ELSE TurnEntries(d[s]) \o w.entries
        <5>1. PICK f, o, es : f = d[s] /\ o = w.ordinal /\ es = w.entries
          OBVIOUS
        <5>2. /\ f.turns \in TurnLogs /\ o \in Nat /\ es \in Seq(Nat)
              /\ x.turns = AddedTurn(f, o, es)
          BY <1>5, <4>1, <4>2, <5>1
        <5>3. \A i \in DOMAIN f.turns : i < o \/ (i = o /\ f.turns[i] = es)
          BY <1>4, <4>1, <5>1
        <5>4. Added(f, o, es, x)
          BY ONLY <5>2, <5>3, TurnAdded
        <5> QED
          BY ONLY <5>1, <5>4 DEF Added
      <4>4. Retried(d[s], p, s) <=> w.ordinal \in DOMAIN d[s].turns
        BY <1>4, <4>1 DEF Retried
      <4>5. TurnEntries(x) = a.turns \o w.entries
        BY <1>1, <1>4, <4>3, <4>4 DEF Begins
      <4>6. y.turns = a.turns \o w.entries /\ y.live = << >>
        BY <2>1, <3>1, <3>3 DEF Effect
      <4>7. ~Retried(x, t, s)
        <5>1. \A o \in DOMAIN x.turns : Above(t, s, o)
          BY <1>4, <4>1, <4>3
        <5>2. DOMAIN x.turns \subseteq Nat
          BY <1>5, <4>1, <4>3
        <5> QED
          BY <1>4, <5>1, <5>2, NotRetried
      <4> QED
        BY <3>1, <4>2, <4>5, <4>6, <4>7 DEF Begins
    <3> QED
      BY <3>2, <3>3
  <2> QED
    BY <2>2, <2>3
<1> QED
  BY <1>1, <1>3, <1>6, Zenon DEF ThreadOrder

-----------------------------------------------------------------------------
\* Some lines of an append are written, and the append is tried again: the
\* first view has them, the second one twice.
LEMMA LinesTwice ==
  ASSUME NEW m \in Nat, NEW w \in Requests, w.op = "AppendLive", NEW s, Of(w, s),
         NEW a \in Views(m), NEW y, Moves(w, s, a, y, m),
         NEW a1 \in Seq(Nat), NEW b1 \in Seq(Nat), w.entries = a1 \o b1
  PROVE  \E a2, y2 : /\ a2 \in Views(m) /\ Arranged(a2)
                     /\ a2.turns = a.turns /\ a2.live = a.live \o a1
                     /\ Moves(w, s, a2, y2, m) /\ Again(y, y2)
<1>1. /\ a.turns \in Seq(Nat) /\ a.live \in Seq(Nat)
      /\ a.turns \in Seq(0..m) /\ a.live \in Seq(0..m)
  BY ViewIs
<1>2. /\ y \in Views(m) /\ Arranged(y) /\ y.turns = a.turns /\ y.live = a.live \o w.entries
  BY DEF Moves, Effect
<1>3. y.live \in Seq(0..m) /\ y.live \in Seq(Nat)
  BY <1>2, ViewIs
<1>4. w.entries \in Seq(Nat)
  BY Together
<1>5. a1 \in Seq(0..m) /\ w.entries \in Seq(0..m)
  <2>1. w.entries \in Seq(0..m)
    BY <1>1, <1>2, <1>3, <1>4, PartsIn
  <2> QED
    BY <2>1, PartsIn
<1>6. PICK k \in Seq(0..m), l \in Seq(0..m) : k = a.live \o a1 /\ l = k \o w.entries
  <2>1. \A S : \A e, h \in Seq(S) : e \o h \in Seq(S)
    OBVIOUS
  <2>2. PICK k \in Seq(0..m) : k = a.live \o a1
    BY <1>1, <1>5, <2>1, Zenon
  <2>3. PICK l \in Seq(0..m) : l = k \o w.entries
    BY <1>5, <2>1, Zenon
  <2> QED
    BY <2>2, <2>3
<1>7. PICK a2 \in Views(m), y2 \in Views(m) :
        /\ a2.turns = a.turns /\ a2.live = k /\ y2.turns = a.turns /\ y2.live = l
  <2>1. PICK a2, y2 : /\ a2 = [turns |-> a.turns, live |-> k]
                      /\ y2 = [turns |-> a.turns, live |-> l]
    OBVIOUS
  <2>2. a2 \in Views(m) /\ y2 \in Views(m)
    BY <1>1, <2>1 DEF Views
  <2>3. a2.turns = a.turns /\ a2.live = k /\ y2.turns = a.turns /\ y2.live = l
    BY <2>1
  <2> QED
    BY <2>2, <2>3
<1>8. k \in Seq(Nat) /\ a.live \o (a1 \o b1) = k \o b1
  <2>1. k \in Seq(Nat)
    BY <1>1, <1>6, Together
  <2>2. (a.live \o a1) \o b1 = a.live \o (a1 \o b1)
    BY ONLY <1>1, a1 \in Seq(Nat), b1 \in Seq(Nat), Together, Zenon
  <2> QED
    BY <1>6, <2>1, <2>2
<1>9. Arranged(a2)
  <2>1. InOrder(a.turns \o (k \o b1))
    BY <1>2, <1>8 DEF Arranged
  <2>2. (a.turns \o k) \o b1 = a.turns \o (k \o b1)
    BY ONLY <1>1, <1>8, b1 \in Seq(Nat), Together, Zenon
  <2>3. a.turns \o k \in Seq(Nat)
    BY <1>1, <1>8, Together
  <2>4. InOrder(a.turns \o k)
    <3>1. InOrder((a.turns \o k) \o b1)
      BY <2>1, <2>2
    <3> QED
      BY ONLY <2>3, <3>1, b1 \in Seq(Nat), OrderPrefix
  <2> QED
    BY <1>7, <2>4 DEF Arranged
<1>10. Again(y, y2)
  <2>1. /\ y.live = (a.live \o a1) \o b1
        /\ y2.live = (a.live \o a1) \o (a1 \o b1)
    BY <1>2, <1>6, <1>7, <1>8
  <2>2. y2.turns = y.turns /\ a.live \in Seq(Nat)
    BY <1>1, <1>2, <1>7
  <2> QED
    BY ONLY <2>1, <2>2, a1 \in Seq(Nat), b1 \in Seq(Nat), Zenon DEF Again
<1>11. Arranged(y2)
  <2>1. InOrder(a.turns \o y.live) => InOrder(a.turns \o y2.live)
    BY ONLY <1>1, <1>3, <1>10, AgainIs
  <2> QED
    BY <1>2, <1>7, <2>1 DEF Arranged
<1>12. Effect(w, s, a2, y2)
  BY <1>6, <1>7 DEF Effect
<1> QED
  BY <1>6, <1>7, <1>9, <1>10, <1>11, <1>12 DEF Moves

\* The first pending write fails, may leave a part of itself, and stays pending
\* (flush_pending).
LEMMA OrderTried ==
  ASSUME NEW u, NEW q \in Seq(Requests), NEW p \in Seq(Writes), NEW d, NEW m \in Nat,
         OrderState(u, q, p, d, m), OrdinalInv(u, q, p, d), d \in [Sessions -> Files],
         p # << >>, NEW w, w = Head(p), NEW x \in PartialWrites(w, d[w.session]),
         NEW d2, d2 = [d EXCEPT ![w.session] = x]
  PROVE  OrderState(u, q, p, d2, m)
<1> SUFFICES ASSUME NEW s \in Sessions PROVE ThreadOrder(u, q, p, d2, m, s)
  BY Zenon DEF OrderState
<1>1. PICK a, b, c : /\ Begins(d[s], p, s, a)
                     /\ Leads(a, p, b, s, m) /\ Leads(b, q, c, s, m)
                     /\ Follows(u, s, c)
  BY Zenon DEF OrderState, ThreadOrder
<1>2. /\ p \in Seq(Requests) /\ w \in Writes /\ w \in Requests /\ w.session \in Sessions
      /\ d[w.session] \in Files /\ d[s] \in Files
  <2>1. p \in Seq(Requests)
    BY DEF Requests
  <2>2. w \in Writes
    BY EndsAre
  <2> QED
    BY <2>1, <2>2, WriteIs DEF Requests
<1>3. CASE w.session # s
  <2>1. d2[s] = d[s]
    BY <1>3
  <2> QED
    BY <1>1, <2>1, Zenon DEF ThreadOrder
<1>4. CASE w.session = s
  <2>1. d2[s] = x
    BY <1>2, <1>4
  <2>2. PICK f \in Files : f = d[s]
    BY <1>2
  <2>3. PICK t : t = Tail(p)
    OBVIOUS
  <2>4. w = p[1] /\ t \in Seq(Requests) /\ Finds(f, w, t, s)
    BY <1>2, <2>2, <2>3, FirstFinds
  <2>5. \/ x.turns = f.turns /\ x.live = f.live
        \/ /\ w.op = "AppendLive" /\ x.turns = f.turns
           /\ \E a1, b1 \in Seq(Nat) : w.entries = a1 \o b1 /\ x.live = f.live \o a1
        \/ /\ w.op = "CommitTurn" /\ x.live = f.live
           /\ x.turns = AddedTurn(f, w.ordinal, w.entries)
    <3>1. x \in PartialWrites(w, f)
      BY <1>4, <2>2
    <3> QED
      BY <1>2, <2>2, <3>1, PartialTo
  <2>6. CASE x.turns = f.turns /\ x.live = f.live
    <3>1. Retried(x, p, s) <=> Retried(f, p, s)
      BY <2>6 DEF Retried
    <3>2. Begins(x, p, s, a)
      BY <1>1, <2>2, <2>6, <3>1, BeginsSame
    <3> QED
      BY <1>1, <2>1, <3>2, Zenon DEF ThreadOrder
  <2>7. CASE /\ w.op = "CommitTurn" /\ x.live = f.live
             /\ x.turns = AddedTurn(f, w.ordinal, w.entries)
    <3>1. PICK o, es : o = w.ordinal /\ es = w.entries
      OBVIOUS
    <3>2. /\ f.turns \in TurnLogs /\ o \in Nat /\ es \in Seq(Nat) /\ Commits(w, s)
          /\ x.turns = AddedTurn(f, o, es)
      BY <1>2, <1>4, <2>7, <3>1, WriteIs DEF Files, Commits
    <3>3. \A i \in DOMAIN f.turns : i < o \/ (i = o /\ f.turns[i] = es)
      BY <2>4, <3>1, <3>2 DEF Finds
    <3>4. Added(f, o, es, x)
      BY ONLY <3>2, <3>3, TurnAdded
    <3>5. /\ Retried(x, p, s)
          /\ Retried(f, p, s) <=> o \in DOMAIN f.turns
      BY <2>4, <3>1, <3>2, <3>4 DEF Retried, Added
    <3>6. TurnEntries(x) = a.turns \o es
      BY <1>1, <2>2, <2>4, <3>1, <3>4, <3>5 DEF Begins, Added
    <3>7. Begins(x, p, s, a)
      BY <1>1, <2>2, <2>4, <2>7, <3>1, <3>5, <3>6 DEF Begins
    <3> QED
      BY <1>1, <2>1, <3>7, Zenon DEF ThreadOrder
  <2>8. ASSUME w.op = "AppendLive", x.turns = f.turns,
               NEW a1 \in Seq(Nat), NEW b1 \in Seq(Nat),
               w.entries = a1 \o b1, x.live = f.live \o a1
        PROVE  ThreadOrder(u, q, p, d2, m, s)
    <3>1. PICK y : Moves(w, s, a, y, m) /\ Leads(y, t, b, s, m)
      <4>1. Onward(a, w, t, b, s, m)
        BY <1>1, <1>2, <2>3, LeadsFrom
      <4> QED
        BY <4>1 DEF Onward
    <3>2. a \in Views(m) /\ Of(w, s)
      <4>1. a \in Views(m)
        BY <1>1, <1>2, LeadsAre
      <4> QED
        BY <1>4, <2>8, <4>1 DEF Of, IsWrite
    <3>3. PICK a2, y2 : /\ a2 \in Views(m) /\ Arranged(a2)
                        /\ a2.turns = a.turns /\ a2.live = a.live \o a1
                        /\ Moves(w, s, a2, y2, m) /\ Again(y, y2)
      BY <1>2, <2>8, <3>1, <3>2, LinesTwice
    <3>4. y2 \in Views(m) /\ Arranged(y2)
      BY <3>3 DEF Moves
    <3>5. PICK e : Leads(y2, t, e, s, m) /\ Again(b, e)
      BY <2>4, <3>1, <3>3, <3>4, AgainLeads
    <3>6. e \in Views(m) /\ Arranged(e)
      BY <2>4, <3>5, LeadsAre
    <3>7. PICK g : Leads(e, q, g, s, m) /\ Again(c, g)
      BY <1>1, <3>5, <3>6, AgainLeads
    <3>8. Leads(a2, p, e, s, m)
      <4>1. Onward(a2, w, t, e, s, m)
        BY <3>3, <3>5 DEF Onward
      <4> QED
        BY <1>2, <2>3, <3>3, <4>1, LeadsFrom
    <3>9. Follows(u, s, g)
      <4>1. SUFFICES ASSUME s = u.session, u.phase # "down"
                     PROVE  InOrder(g.turns \o u.active) /\ Range(g.live) \subseteq Range(u.active)
        BY DEF Follows
      <4>2. InOrder(c.turns \o u.active) /\ Range(c.live) \subseteq Range(u.active)
        BY <1>1, <4>1 DEF Follows
      <4>3. c.live \in Seq(Nat)
        <5>1. c \in Views(m)
          BY <1>1, LeadsAre
        <5> QED
          BY <5>1, ViewIs
      <4>4. g.turns = c.turns
        BY <3>7 DEF Again
      <4>5. Range(g.live) \subseteq Range(c.live)
        <5>1. << >> \in Seq(Nat)
          OBVIOUS
        <5> QED
          BY <3>7, <4>3, <5>1, AgainIs
      <4> QED
        BY <4>2, <4>4, <4>5
    <3>10. Begins(x, p, s, a2)
      <4>1. ~Retried(f, p, s) /\ ~Retried(x, p, s)
        BY <2>4, <2>8 DEF Retried, Commits
      <4>2. TurnEntries(x) = TurnEntries(f)
        BY <2>8 DEF TurnEntries, NextOrdinal, TurnAt
      <4>3. f.live = a.live /\ TurnEntries(f) = a.turns
        BY <1>1, <2>2, <4>1 DEF Begins
      <4> QED
        BY <2>8, <3>3, <4>1, <4>2, <4>3 DEF Begins
    <3> QED
      BY <2>1, <3>7, <3>8, <3>9, <3>10, Zenon DEF ThreadOrder
  <2> QED
    BY <2>5, <2>6, <2>7, <2>8
<1> QED
  BY <1>3, <1>4

\* Files change, but neither turns nor live logs do.
LEMMA OrderFiles ==
  ASSUME NEW u, NEW q, NEW p, NEW d, NEW m, OrderState(u, q, p, d, m), NEW d2,
         \A s \in Sessions : d2[s].turns = d[s].turns /\ d2[s].live = d[s].live
  PROVE  OrderState(u, q, p, d2, m)
<1> SUFFICES ASSUME NEW s \in Sessions PROVE ThreadOrder(u, q, p, d2, m, s)
  BY Zenon DEF OrderState
<1>1. PICK a, b, c : /\ Begins(d[s], p, s, a)
                     /\ Leads(a, p, b, s, m) /\ Leads(b, q, c, s, m)
                     /\ Follows(u, s, c)
  BY Zenon DEF OrderState, ThreadOrder
<1>2. d2[s].turns = d[s].turns /\ d2[s].live = d[s].live
  OBVIOUS
<1>3. Retried(d2[s], p, s) <=> Retried(d[s], p, s)
  BY <1>2 DEF Retried
<1>4. Begins(d2[s], p, s, a)
  BY <1>1, <1>2, <1>3, BeginsSame
<1> QED
  BY <1>1, <1>4, Zenon DEF ThreadOrder

\* What is stored is in order.
LEMMA StoredInOrder ==
  ASSUME NEW u, NEW q \in Seq(Requests), NEW p \in Seq(Requests), NEW d, NEW m \in Nat,
         OrderState(u, q, p, d, m), NEW s \in Sessions
  PROVE  /\ InOrder(Transcript(d[s]))
         /\ TurnEntries(d[s]) \in Seq(0..m) /\ d[s].live \in Seq(0..m)
<1>1. PICK a, b : Begins(d[s], p, s, a) /\ Leads(a, p, b, s, m)
  BY Zenon DEF OrderState, ThreadOrder
<1>2. a \in Views(m) /\ Arranged(a) /\ d[s].live = a.live /\ a.live \in Seq(0..m)
  <2>1. a \in Views(m) /\ Arranged(a) /\ d[s].live = a.live
    BY <1>1, LeadsAre DEF Begins
  <2> QED
    BY <2>1 DEF Views
<1>3. CASE ~Retried(d[s], p, s)
  <2>1. TurnEntries(d[s]) = a.turns /\ a.turns \in Seq(0..m)
    BY <1>1, <1>2, <1>3 DEF Begins, Views
  <2> QED
    BY <1>2, <2>1 DEF Transcript, Arranged
<1>4. CASE Retried(d[s], p, s)
  <2>1. p # << >> /\ Commits(p[1], s)
    BY <1>4 DEF Retried
  <2>2. PICK w, t : w = Head(p) /\ t = Tail(p) /\ w = p[1]
    BY <2>1, EndsAre
  <2>3. PICK y : Moves(w, s, a, y, m)
    <3>1. Onward(a, w, t, b, s, m)
      BY <1>1, <2>1, <2>2, LeadsFrom
    <3> QED
      BY <3>1 DEF Onward
  <2>4. /\ y \in Views(m) /\ y.turns = a.turns \o w.entries
        /\ InOrder((a.turns \o w.entries) \o a.live)
    BY <2>1, <2>2, <2>3 DEF Moves, Effect, Commits, Of, IsWrite
  <2>5. TurnEntries(d[s]) = a.turns \o w.entries /\ y.turns \in Seq(0..m)
    BY <1>1, <1>4, <2>2, <2>4 DEF Begins, Views
  <2> QED
    BY <1>2, <2>4, <2>5 DEF Transcript
<1> QED
  BY <1>3, <1>4

\* The process is killed: what is stored remains.
LEMMA OrderCrashed ==
  ASSUME NEW u, NEW q \in Seq(Requests), NEW p \in Seq(Requests), NEW d, NEW m \in Nat,
         OrderState(u, q, p, d, m), NEW u2, u2.active = << >>, u2.phase = "down"
  PROVE  OrderState(u2, << >>, << >>, d, m)
<1>1. ASSUME NEW s \in Sessions PROVE ThreadOrder(u2, << >>, << >>, d, m, s)
  <2>1. /\ InOrder(Transcript(d[s]))
        /\ TurnEntries(d[s]) \in Seq(0..m) /\ d[s].live \in Seq(0..m)
    BY <1>1, StoredInOrder
  <2>2. PICK v : v = [turns |-> TurnEntries(d[s]), live |-> d[s].live]
    OBVIOUS
  <2>3. v.turns = TurnEntries(d[s]) /\ v.live = d[s].live
    BY <2>2
  <2>4. v \in Views(m) /\ Arranged(v)
    <3>1. v \in Views(m)
      BY <2>1, <2>2 DEF Views
    <3> QED
      BY <2>1, <2>3, <3>1 DEF Arranged, Transcript
  <2>5. Leads(v, << >>, v, s, m)
    BY <2>4, LeadsNone
  <2>6. Begins(d[s], << >>, s, v)
    BY <2>3 DEF Begins, Retried
  <2>7. Follows(u2, s, v)
    BY DEF Follows
  <2> QED
    BY <2>5, <2>6, <2>7, Zenon DEF ThreadOrder
<1>2. u2.active \in Seq(0..m)
  OBVIOUS
<1> QED
  BY <1>1, <1>2, Zenon DEF OrderState

-----------------------------------------------------------------------------
(* The actions, for the order.                                             *)

\* The state, as the lemmas on the order take it.
LEMMA OrderIs ==
  ASSUME StorageInv, OrderInv
  PROVE  /\ OrderState(ui, channel, worker.pending, disk, shown)
         /\ OrdinalInv(ui, channel, worker.pending, disk)
         /\ ui \in Interfaces /\ ui.session \in Sessions
         /\ channel \in Seq(Requests) /\ worker \in Workers
         /\ worker.pending \in Seq(Writes) /\ worker.pending \in Seq(Requests)
         /\ disk \in [Sessions -> Files] /\ shown \in Nat /\ requests \in Nat
<1>1. worker.pending \in Seq(Writes)
  BY DEF StorageInv, StorageState, TypesInv
<1>2. worker.pending \in Seq(Requests)
  BY <1>1 DEF Requests
<1> QED
  BY <1>1, <1>2, StateIs DEF OrderInv, StorageState, TypesInv

\* Nothing the order is about has changed.
LEMMA OrderStays ==
  ASSUME OrderInv, UNCHANGED <<channel, disk, shown>>, worker'.pending = worker.pending,
         ui'.active = ui.active, ui'.session = ui.session,
         ui.phase = "down" => ui'.phase = "down"
  PROVE  OrderInv'
<1>1. \A s, v : Follows(ui, s, v) => Follows(ui', s, v)
  BY DEF Follows
<1> QED
  BY <1>1, Zenon DEF OrderInv, OrderState, ThreadOrder

\* An entry is shown and recorded in the live log.
LEMMA OrderGrows ==
  ASSUME NEW u \in Interfaces, NEW q \in Seq(Requests), NEW p \in Seq(Requests), NEW d,
         NEW m \in Nat, OrderState(u, q, p, d, m), u.phase # "down"
  PROVE  OrderState([u EXCEPT !.active = Append(@, m + 1)],
                    q \o <<AppendLive(u.session, <<m + 1>>)>>, p, d, m + 1)
<1>1. u.session \in Sessions
  BY DEF Interfaces
<1>2. PICK w : w = AppendLive(u.session, <<m + 1>>)
  OBVIOUS
<1>3. q \o <<w>> = Append(q, w)
  <2>1. <<m + 1>> \in Seq(Nat)
    OBVIOUS
  <2>2. w \in Requests
    <3>1. PICK es \in Seq(Nat) : es = <<m + 1>>
      BY <2>1
    <3>2. AppendLive(u.session, es) \in Writes
      BY <1>1, LiveIs
    <3> QED
      BY <1>2, <3>1, <3>2 DEF Requests
  <2> QED
    BY <2>2, QueuedIs
<1>4. PICK u2 : u2 = [u EXCEPT !.active = Append(@, m + 1)]
  OBVIOUS
<1>5. u2.active = Append(u.active, m + 1) /\ u2.session = u.session
  BY <1>4 DEF Interfaces
<1>6. OrderState(u2, Append(q, AppendLive(u.session, <<m + 1>>)), p, d, m + 1)
  BY <1>1, <1>5, OrderRecorded
<1> QED
  BY ONLY <1>2, <1>3, <1>4, <1>6

\* commit_active_turn.
LEMMA OrderCommits ==
  ASSUME StorageInv, OrderInv, ui.phase = "running", NEW q, q = channel \o CommitWrites
  PROVE  /\ OrderState(Committed, q, worker.pending, disk, shown)
         /\ Committed \in Interfaces /\ Committed.session = ui.session
         /\ Committed.phase = "running" /\ Committed.active = << >>
         /\ q \in Seq(Requests)
<1>1. /\ StorageState(Committed, receivers, q, worker.pending, worker.doing, disk, owed, saved,
                      requests, shown)
      /\ Committed \in Interfaces /\ Committed.session = ui.session
      /\ Committed.phase = "running" /\ Committed.active = << >>
  BY CommittedKeeps
<1>2. q \in Seq(Requests)
  BY <1>1 DEF StorageState, TypesInv, Requests
<1>3. CASE ui.active = << >>
  <2>1. Committed = ui /\ q = channel
    <3>1. Committed = ui /\ CommitWrites = << >>
      BY <1>3 DEF Committed, CommitWrites
    <3>2. channel \o << >> = channel
      BY OrderIs
    <3> QED
      BY <3>1, <3>2
  <2> QED
    BY <1>1, <1>2, <2>1, OrderIs
<1>4. CASE ui.active # << >>
  <2>1. PICK o \in Nat : o = Ordinal
    BY OrderIs DEF Ordinal, Interfaces
  <2>2. PICK w : w = CommitTurn(ui.session, o, ui.active)
    OBVIOUS
  <2>3. CommitWrites = <<w>>
    BY <1>4, <2>1, <2>2 DEF CommitWrites
  <2>4. w \in Requests /\ channel \in Seq(Requests)
    <3>1. ui.session \in Sessions /\ ui.active \in Seq(Nat) /\ channel \in Seq(Requests)
      BY StateIs
    <3> QED
      BY <2>2, <3>1, CommitIs DEF Requests
  <2>5. q = Append(channel, w)
    BY <2>3, <2>4, QueuedIs
  <2>6. /\ OrderState(ui, channel, worker.pending, disk, shown)
        /\ ui.session \in Sessions /\ ui.phase # "down"
        /\ worker.pending \in Seq(Requests) /\ shown \in Nat
    BY OrderIs
  <2>7. PICK u : u = Committed
    OBVIOUS
  <2>8. OrderState(u, Append(channel, CommitTurn(ui.session, o, ui.active)), worker.pending,
                   disk, shown)
    BY <1>1, <2>4, <2>6, <2>7, OrderCommitted
  <2> QED
    BY <1>1, <1>2, <2>2, <2>5, <2>7, <2>8
<1> QED
  BY <1>3, <1>4

\* push_entry, push_notice and push_user.
LEMMA PushEntryOrders ==
  ASSUME StorageInv, OrderInv, NEW user \in BOOLEAN, PushEntry(user)
  PROVE  OrderInv'
<1>1. /\ ui.phase = "running"
      /\ ui' = Showing(IF user THEN Committed ELSE ui)
      /\ channel' = channel \o (IF user THEN CommitWrites ELSE << >>)
                      \o LiveWrite(ui.session)
      /\ shown' = shown + 1
      /\ UNCHANGED <<worker, disk>>
  BY DEF PushEntry, Running, Entry
<1>2. PICK u \in Interfaces, q \in Seq(Requests) :
        /\ u = (IF user THEN Committed ELSE ui)
        /\ q = channel \o (IF user THEN CommitWrites ELSE << >>)
        /\ OrderState(u, q, worker.pending, disk, shown)
        /\ u.phase = "running" /\ u.session = ui.session
  <2>1. CASE user
    BY <1>1, <2>1, OrderCommits
  <2>2. CASE ~user
    <3>1. channel \o << >> = channel
      BY OrderIs
    <3> QED
      BY <1>1, <2>2, <3>1, OrderIs
  <2> QED
    BY <2>1, <2>2
<1>3. OrderState([u EXCEPT !.active = Append(@, shown + 1)],
                 q \o <<AppendLive(u.session, <<shown + 1>>)>>, worker.pending, disk, shown + 1)
  BY <1>2, OrderGrows, OrderIs
<1>4. /\ ui' = [u EXCEPT !.active = Append(@, shown + 1)]
      /\ channel' = q \o <<AppendLive(u.session, <<shown + 1>>)>>
  BY <1>1, <1>2, Zenon DEF Showing, LiveWrite, Entry
<1> QED
  BY <1>1, <1>3, <1>4 DEF OrderInv

\* finalize_agent_stream.
LEMMA ReplaceEntryOrders ==
  ASSUME StorageInv, OrderInv, ReplaceEntry
  PROVE  OrderInv'
<1>1. PICK t :
        /\ t = Append(Front(ui.active), shown + 1)
        /\ ui.phase = "running" /\ ui.active # << >>
        /\ ui' = [ui EXCEPT !.active = t]
        /\ channel' = Append(channel, ReplaceLive(ui.session, t))
        /\ shown' = shown + 1
        /\ UNCHANGED <<worker, disk>>
  BY Zenon DEF ReplaceEntry, Running, Entry
<1>2. ui'.active = t /\ ui'.session = ui.session
  BY <1>1, OrderIs DEF Interfaces
<1>3. OrderState(ui', Append(channel, ReplaceLive(ui.session, t)), worker.pending, disk, shown + 1)
  BY <1>1, <1>2, OrderIs, OrderReplaced
<1> QED
  BY <1>1, <1>3 DEF OrderInv

\* A checkpoint is on its way.
LEMMA OrderCheckpointed ==
  ASSUME NEW u, NEW q \in Seq(Requests), NEW p \in Seq(Requests), NEW d, NEW m \in Nat,
         OrderState(u, q, p, d, m), NEW s \in Sessions, NEW v \in Nat
  PROVE  /\ OrderState(u, q \o <<Runtime(s, v)>>, p, d, m)
         /\ q \o <<Runtime(s, v)>> \in Seq(Requests)
<1>1. PICK w \in Requests : w = Runtime(s, v) /\ w.op = "Runtime"
  <2>1. Runtime(s, v) \in Writes
    BY RuntimeIs
  <2>2. Runtime(s, v).op = "Runtime"
    BY DEF Runtime
  <2> QED
    BY <2>1, <2>2 DEF Requests
<1>2. q \o <<w>> = Append(q, w) /\ Append(q, w) \in Seq(Requests)
  BY QueuedIs
<1>3. OrderState(u, Append(q, w), p, d, m)
  BY <1>1, OrderAsked
<1> QED
  BY <1>1, <1>2, <1>3

\* persist_runtime_state.
LEMMA PersistOrders ==
  ASSUME StorageInv, OrderInv, PersistRuntimeState
  PROVE  OrderInv'
<1>1. /\ channel' = channel \o CheckpointWrites
      /\ UNCHANGED <<ui, worker, disk, shown>>
  BY DEF PersistRuntimeState, counters
<1>2. CASE receivers.restore # NoReceipt
  <2>1. channel \o << >> = channel
    BY OrderIs
  <2> QED
    BY <1>1, <1>2, <2>1, OrderIs DEF OrderInv, CheckpointWrites
<1>3. CASE receivers.restore = NoReceipt
  <2>1. PICK v \in Nat : v = saved[ui.session] + 1
    <3>1. saved \in [Sessions -> Nat] /\ ui.session \in Sessions
      BY StateIs DEF TypesInv
    <3>2. saved[ui.session] + 1 \in Nat
      BY <3>1
    <3> QED
      BY <3>2
  <2>2. channel' = channel \o <<Runtime(ui.session, v)>>
    BY <1>1, <1>3, <2>1 DEF CheckpointWrites
  <2> QED
    BY <1>1, <2>2, OrderIs, OrderCheckpointed DEF OrderInv
<1> QED
  BY <1>2, <1>3

\* reset_transcript.
LEMMA ResetOrders ==
  ASSUME StorageInv, OrderInv, ResetTranscript
  PROVE  OrderInv'
<1>1. /\ ui.phase = "running"
      /\ ui' = Showing([Committed EXCEPT !.committed = 0])
      /\ channel' = channel \o CommitWrites \o <<ClearLive(ui.session)>> \o LiveWrite(ui.session)
      /\ shown' = shown + 1
      /\ UNCHANGED <<worker, disk>>
  BY DEF ResetTranscript, Running, Entry
<1>2. PICK c \in Interfaces, q \in Seq(Requests) :
        /\ c = Committed /\ q = channel \o CommitWrites
        /\ OrderState(c, q, worker.pending, disk, shown)
        /\ c.session = ui.session /\ c.phase = "running"
  BY <1>1, OrderCommits
<1>3. PICK u : u = [c EXCEPT !.committed = 0]
  OBVIOUS
<1>4. u \in Interfaces /\ u.session = c.session /\ u.phase = c.phase /\ u.active = c.active
  BY <1>3 DEF Interfaces
<1>5. c.session \in Sessions
  BY <1>2, OrderIs
<1>6. OrderState(u, Append(q, ClearLive(c.session)), worker.pending, disk, shown)
  BY <1>2, <1>4, <1>5, OrderIs, OrderCleared
<1>7. /\ q \o <<ClearLive(c.session)>> = Append(q, ClearLive(c.session))
      /\ Append(q, ClearLive(c.session)) \in Seq(Requests)
  <2>1. ClearLive(c.session) \in Requests
    BY <1>5, ClearIs DEF Requests
  <2> QED
    BY <2>1, QueuedIs
<1>8. OrderState([u EXCEPT !.active = Append(@, shown + 1)],
                 Append(q, ClearLive(c.session)) \o <<AppendLive(u.session, <<shown + 1>>)>>,
                 worker.pending, disk, shown + 1)
  BY <1>2, <1>4, <1>6, <1>7, OrderIs, OrderGrows
<1>9. /\ ui' = [u EXCEPT !.active = Append(@, shown + 1)]
      /\ channel' = Append(q, ClearLive(c.session)) \o <<AppendLive(u.session, <<shown + 1>>)>>
  BY <1>1, <1>2, <1>3, <1>4, <1>7, Zenon DEF Showing, LiveWrite, Entry
<1> QED
  BY <1>1, <1>8, <1>9 DEF OrderInv

\* request_restore and start_new.
LEMMA AskOrders ==
  ASSUME StorageInv, OrderInv, NEW r \in Requests, ~IsWrite(r), NEW receipt, Ask(r, receipt)
  PROVE  OrderInv'
<1>1. /\ ui.phase = "running" /\ receivers.restore = NoReceipt
      /\ ui' = Showing(Committed)
      /\ channel' = channel \o CommitWrites \o CheckpointWrites \o <<r>> \o LiveWrite(ui.session)
      /\ shown' = shown + 1
      /\ UNCHANGED <<worker, disk>>
  BY DEF Ask, Running, Busy, Entry
<1>2. PICK c \in Interfaces, q0 \in Seq(Requests) :
        /\ c = Committed /\ q0 = channel \o CommitWrites
        /\ OrderState(c, q0, worker.pending, disk, shown)
        /\ c.session = ui.session /\ c.phase = "running"
  BY <1>1, OrderCommits
<1>3. PICK v \in Nat : v = saved[ui.session] + 1
  <2>1. saved \in [Sessions -> Nat] /\ ui.session \in Sessions
    BY StateIs DEF TypesInv
  <2>2. saved[ui.session] + 1 \in Nat
    BY <2>1
  <2> QED
    BY <2>2
<1>4. PICK q \in Seq(Requests) :
        /\ q = q0 \o <<Runtime(ui.session, v)>>
        /\ OrderState(c, q, worker.pending, disk, shown)
  BY <1>2, OrderIs, OrderCheckpointed
<1>5. OrderState(c, Append(q, r), worker.pending, disk, shown)
  BY <1>4, OrderIs, OrderAsked
<1>6. q \o <<r>> = Append(q, r) /\ Append(q, r) \in Seq(Requests)
  BY QueuedIs
<1>7. OrderState([c EXCEPT !.active = Append(@, shown + 1)],
                 Append(q, r) \o <<AppendLive(c.session, <<shown + 1>>)>>,
                 worker.pending, disk, shown + 1)
  BY <1>2, <1>5, <1>6, OrderIs, OrderGrows
<1>8. /\ ui' = [c EXCEPT !.active = Append(@, shown + 1)]
      /\ channel' = Append(q, r) \o <<AppendLive(c.session, <<shown + 1>>)>>
  <2>1. CheckpointWrites = <<Runtime(ui.session, v)>>
    BY <1>1, <1>3 DEF CheckpointWrites
  <2> QED
    BY <1>1, <1>2, <1>4, <1>6, <2>1, Zenon DEF Showing, LiveWrite, Entry
<1> QED
  BY <1>1, <1>7, <1>8 DEF OrderInv

\* request_restore.
LEMMA RequestRestoreOrders ==
  ASSUME StorageInv, OrderInv, NEW s \in Sessions, RequestRestore(s)
  PROVE  OrderInv'
<1>1. PICK r, receipt : r = Read(requests + 1, s) /\ Ask(r, receipt)
  BY DEF RequestRestore, NewId
<1>2. r \in Requests /\ ~IsWrite(r)
  BY <1>1, OrderIs DEF Read, Requests, Barriers, IsWrite
<1> QED
  BY <1>1, <1>2, AskOrders

\* start_new.
LEMMA StartNewOrders ==
  ASSUME StorageInv, OrderInv, NEW s \in Sessions, StartNew(s)
  PROVE  OrderInv'
<1>1. PICK r, receipt : r = Command(requests + 1, s) /\ Ask(r, receipt)
  BY DEF StartNew, NewId
<1>2. r \in Requests /\ ~IsWrite(r)
  BY <1>1, OrderIs DEF Command, Requests, Barriers, IsWrite
<1> QED
  BY <1>1, <1>2, AskOrders

\* The interface goes on in a thread.
LEMMA ContinueOrders ==
  ASSUME StorageInv, OrderInv, NEW u, u.session \in Sessions, u.phase = "running",
         OrderState(u, channel, worker.pending, disk, shown), NEW dropped, Continue(u, dropped),
         ui'.active = Append(u.active, shown + 1), ui'.session = u.session
  PROVE  OrderInv'
<1>1. /\ channel' = channel \o <<AppendLive(u.session, <<shown + 1>>)>>
      /\ shown' = shown + 1
      /\ UNCHANGED <<worker, disk>>
  BY Zenon DEF Continue, LiveWrite, Entry
<1>2. channel' = Append(channel, AppendLive(u.session, <<shown + 1>>))
  <2>1. PICK es \in Seq(Nat) : es = <<shown + 1>>
    <3>1. <<shown + 1>> \in Seq(Nat)
      BY OrderIs
    <3> QED
      BY <3>1
  <2>2. AppendLive(u.session, es) \in Requests
    BY LiveIs DEF Requests
  <2>3. channel \in Seq(Requests)
    BY OrderIs
  <2> QED
    BY <1>1, <2>1, <2>2, <2>3, QueuedIs
<1>3. OrderState(ui', Append(channel, AppendLive(u.session, <<shown + 1>>)), worker.pending,
                 disk, shown + 1)
  BY OrderIs, OrderRecorded
<1> QED
  BY <1>1, <1>2, <1>3 DEF OrderInv

\* finish_restore.
LEMMA FinishRestoreOrders ==
  ASSUME StorageInv, OrderInv, FinishRestore
  PROVE  OrderInv'
<1>1. PICK r, k, n, rs :
        /\ r = receivers.restore /\ r.reply \in {"ok", "failed"}
        /\ Continue(IF r.reply = "ok"
                    THEN [session |-> r.session, active |-> r.files.live, committed |-> k,
                          ordinal |-> n, phase |-> "running"]
                    ELSE ui, rs)
  BY Zenon DEF FinishRestore
<1>2. ui.phase = "running"
  BY <1>1 DEF Continue, Running
<1>3. CASE r.reply = "failed"
  <2>1. Continue(ui, rs)
    BY <1>1, <1>3
  <2>2. ui' = [ui EXCEPT !.active = Append(@, shown + 1)]
    BY <2>1, Zenon DEF Continue, Showing, Entry
  <2>3. ui'.active = Append(ui.active, shown + 1) /\ ui'.session = ui.session
    BY <2>2, OrderIs DEF Interfaces
  <2>4. ui.session \in Sessions /\ OrderState(ui, channel, worker.pending, disk, shown)
    BY OrderIs
  <2> QED
    BY ONLY StorageInv, OrderInv, <1>2, <2>1, <2>3, <2>4, ContinueOrders
<1>4. CASE r.reply = "ok"
  <2>1. PICK u : u = [session |-> r.session, active |-> r.files.live, committed |-> k,
                      ordinal |-> n, phase |-> "running"]
    OBVIOUS
  <2>2. Continue(u, rs)
    BY <1>1, <1>4, <2>1
  <2>3. ui' = [u EXCEPT !.active = Append(@, shown + 1)]
    BY <2>2, Zenon DEF Continue, Showing, Entry
  <2>4. /\ ui'.active = Append(u.active, shown + 1) /\ ui'.session = u.session
        /\ u.session = r.session /\ u.active = r.files.live /\ u.phase = "running"
    BY <2>1, <2>3
  <2>5. r.id > 0
    BY <1>1, ReceiversAre
  <2>6. PICK t \in Sessions : /\ t = r.session /\ ~SomeOf(channel, t)
                              /\ ~SomeOf(worker.pending, t) /\ r.files.live = disk[t].live
    BY <1>1, <1>4, <2>5, StateIs DEF RestoreInv
  <2>7. OrderState(u, channel, worker.pending, disk, shown)
    <3>1. u.active = disk[t].live /\ u.session = t
      BY <2>4, <2>6
    <3> QED
      BY <2>6, <3>1, OrderIs, OrderAdopted
  <2> QED
    BY ONLY StorageInv, OrderInv, <2>2, <2>4, <2>6, <2>7, t \in Sessions, ContinueOrders
<1> QED
  BY <1>1, <1>3, <1>4

\* finish (pending_command).
LEMMA FinishNewOrders ==
  ASSUME StorageInv, OrderInv, FinishNew
  PROVE  OrderInv'
<1>1. PICK r, rs :
        /\ r = receivers.command /\ r.reply \in {"ok", "failed"}
        /\ Continue(IF r.reply = "ok"
                    THEN [session |-> r.session, active |-> << >>, committed |-> 0,
                          ordinal |-> 0, phase |-> "running"]
                    ELSE ui, rs)
  BY Zenon DEF FinishNew
<1>2. ui.phase = "running"
  BY <1>1 DEF Continue, Running
<1>3. CASE r.reply = "failed"
  <2>1. Continue(ui, rs)
    BY <1>1, <1>3
  <2>2. ui' = [ui EXCEPT !.active = Append(@, shown + 1)]
    BY <2>1, Zenon DEF Continue, Showing, Entry
  <2>3. ui'.active = Append(ui.active, shown + 1) /\ ui'.session = ui.session
    BY <2>2, OrderIs DEF Interfaces
  <2>4. ui.session \in Sessions /\ OrderState(ui, channel, worker.pending, disk, shown)
    BY OrderIs
  <2> QED
    BY ONLY StorageInv, OrderInv, <1>2, <2>1, <2>3, <2>4, ContinueOrders
<1>4. CASE r.reply = "ok"
  <2>1. PICK u : u = [session |-> r.session, active |-> << >>, committed |-> 0,
                      ordinal |-> 0, phase |-> "running"]
    OBVIOUS
  <2>2. Continue(u, rs)
    BY <1>1, <1>4, <2>1
  <2>3. ui' = [u EXCEPT !.active = Append(@, shown + 1)]
    BY <2>2, Zenon DEF Continue, Showing, Entry
  <2>4. /\ ui'.active = Append(u.active, shown + 1) /\ ui'.session = u.session
        /\ u.session = r.session /\ u.active = << >> /\ u.phase = "running"
    BY <2>1, <2>3
  <2>5. r.id > 0
    BY <1>1, ReceiversAre
  <2>6. PICK t \in Sessions : /\ t = r.session /\ ~SomeOf(channel, t)
                              /\ ~SomeOf(worker.pending, t) /\ disk[t].live = << >>
    BY <1>1, <2>5, StateIs DEF CommandInv
  <2>7. OrderState(u, channel, worker.pending, disk, shown)
    <3>1. u.active = disk[t].live /\ u.session = t
      BY <2>4, <2>6
    <3> QED
      BY <2>6, <3>1, OrderIs, OrderAdopted
  <2> QED
    BY ONLY StorageInv, OrderInv, <2>2, <2>4, <2>6, <2>7, t \in Sessions, ContinueOrders
<1> QED
  BY <1>1, <1>3, <1>4

\* The commands that leave.
LEMMA LeaveOrders ==
  ASSUME StorageInv, OrderInv, NEW phase \in {"saving", "flushing"}, Leave(phase)
  PROVE  OrderInv'
<1>1. /\ ui.phase = "running"
      /\ ui' = [(IF phase = "saving" THEN [Committed EXCEPT !.active = Append(@, shown + 1)]
                 ELSE Committed) EXCEPT !.phase = phase]
      /\ shown' = IF phase = "saving" THEN shown + 1 ELSE shown
      /\ channel' = channel \o CommitWrites
                      \o <<Runtime(ui.session, saved[ui.session] + 1),
                           Read(requests + 1, NoSession)>>
      /\ UNCHANGED <<worker, disk>>
  BY Zenon DEF Leave, Running, Showing, Entry, NewId
<1>2. PICK c \in Interfaces, q0 \in Seq(Requests) :
        /\ c = Committed /\ q0 = channel \o CommitWrites
        /\ OrderState(c, q0, worker.pending, disk, shown)
        /\ c.session = ui.session /\ c.phase = "running"
  BY <1>1, OrderCommits
<1>3. PICK v \in Nat : v = saved[ui.session] + 1
  <2>1. saved \in [Sessions -> Nat] /\ ui.session \in Sessions
    BY StateIs DEF TypesInv
  <2>2. saved[ui.session] + 1 \in Nat
    BY <2>1
  <2> QED
    BY <2>2
<1>4. PICK q \in Seq(Requests), r \in Requests :
        /\ r = Runtime(ui.session, v) /\ q = q0 \o <<r>>
        /\ OrderState(c, q, worker.pending, disk, shown)
  <2>1. Runtime(ui.session, v) \in Requests
    <3>1. ui.session \in Sessions
      BY OrderIs
    <3>2. Runtime(ui.session, v) \in Writes
      BY <3>1, RuntimeIs
    <3> QED
      BY <3>2 DEF Requests
  <2> QED
    BY <1>2, <2>1, OrderIs, OrderCheckpointed
<1>5. PICK w \in Requests : w = Read(requests + 1, NoSession) /\ ~IsWrite(w)
  <2>1. requests + 1 \in Nat \ {0}
    BY OrderIs
  <2>2. Read(requests + 1, NoSession) \in Barriers
    BY <2>1 DEF Read, Barriers
  <2>3. ~IsWrite(Read(requests + 1, NoSession))
    BY DEF Read, IsWrite
  <2> QED
    BY <2>2, <2>3 DEF Requests
<1>6. channel' = Append(q, w)
  <2>1. q0 \o <<r, w>> = Append(q0 \o <<r>>, w)
    <3>1. \A a \in Seq(Requests) : \A x, y \in Requests :
            a \o <<x, y>> = Append(a \o <<x>>, y)
      OBVIOUS
    <3> QED
      BY <1>2, <1>4, <1>5, <3>1, Zenon
  <2>2. r = Runtime(ui.session, saved[ui.session] + 1) /\ w = Read(requests + 1, NoSession)
    BY <1>3, <1>4, <1>5, Zenon
  <2>3. channel' = q0 \o <<r, w>>
    BY <1>1, <1>2, <2>2, Zenon
  <2> QED
    BY <1>4, <2>1, <2>3, Zenon
<1>7. PICK u : u = [c EXCEPT !.phase = phase]
  OBVIOUS
<1>8. u.active = c.active /\ u.session = c.session /\ u.phase = phase
  BY <1>7 DEF Interfaces
<1>9. OrderState(u, Append(q, w), worker.pending, disk, shown)
  BY <1>2, <1>4, <1>5, <1>8, OrderIs, OrderAsked
<1>10. CASE phase = "saving"
  <2>1. ui'.active = Append(u.active, shown + 1) /\ ui'.session = u.session
    BY <1>1, <1>2, <1>8, <1>10 DEF Interfaces
  <2>2. Append(q, w) \in Seq(Requests) /\ u.phase # "down"
    BY <1>8
  <2>3. OrderState(ui', Append(q, w), worker.pending, disk, shown + 1)
    BY <1>9, <2>1, <2>2, OrderIs, OrderOnlyShown
  <2> QED
    BY <1>1, <1>6, <1>10, <2>3 DEF OrderInv
<1>11. CASE phase = "flushing"
  <2>1. ui' = u /\ shown' = shown
    BY <1>1, <1>2, <1>7, <1>11
  <2> QED
    BY <1>1, <1>6, <1>9, <2>1 DEF OrderInv
<1> QED
  BY <1>10, <1>11

\* Esc while the session is saved.
LEMMA StayOrders ==
  ASSUME StorageInv, OrderInv, StayInstead
  PROVE  OrderInv'
<1>1. PICK u : u = [ui EXCEPT !.phase = "running"]
  OBVIOUS
<1>2. /\ ui.phase = "saving"
      /\ ui' = [u EXCEPT !.active = Append(@, shown + 1)]
      /\ channel' = channel \o <<AppendLive(ui.session, <<shown + 1>>)>>
      /\ shown' = shown + 1
      /\ UNCHANGED <<worker, disk>>
  BY <1>1, Zenon DEF StayInstead, Showing, LiveWrite, Entry
<1>3. /\ u \in Interfaces /\ u.session = ui.session /\ u.active = ui.active
      /\ u.phase = "running"
  BY <1>1, StateIs DEF Interfaces
<1>4. OrderState(u, channel, worker.pending, disk, shown)
  <2>1. \A s, c : Follows(ui, s, c) => Follows(u, s, c)
    BY <1>2, <1>3 DEF Follows
  <2> QED
    BY <1>3, <2>1, OrderIs, Zenon DEF OrderState, ThreadOrder
<1>5. OrderState([u EXCEPT !.active = Append(@, shown + 1)],
                 channel \o <<AppendLive(u.session, <<shown + 1>>)>>, worker.pending, disk,
                 shown + 1)
  BY <1>3, <1>4, OrderIs, OrderGrows
<1> QED
  BY <1>2, <1>3, <1>5 DEF OrderInv

\* The answers on the way out.
LEMMA ExitAnsweredOrders ==
  ASSUME StorageInv, OrderInv, NEW closed \in BOOLEAN, ExitAnswered(closed)
  PROVE  OrderInv'
<1>0. PICK next : next = AfterAnswer(receivers.exit.reply = "ok", closed)
  OBVIOUS
<1>1. /\ receivers.exit.reply \in {"ok", "failed"}
      /\ ui' = [(IF next = "running" THEN [ui EXCEPT !.active = Append(@, shown + 1)]
                 ELSE ui) EXCEPT !.phase = next]
      /\ shown' = IF next = "running" THEN shown + 1 ELSE shown
      /\ next = "flushing" => channel' = Append(channel, Read(requests + 1, NoSession))
      /\ next = "stopping" => channel' = Append(channel, StopWorker(requests + 1))
      /\ next \notin {"flushing", "stopping"} => channel' = channel
      /\ UNCHANGED <<worker, disk>>
  <2>1. next = "flushing" => channel' = Append(channel, Read(requests + 1, NoSession))
    BY <1>0, Zenon DEF ExitAnswered, NewId
  <2>2. next = "stopping" => channel' = Append(channel, StopWorker(requests + 1))
    BY <1>0, Zenon DEF ExitAnswered, NewId
  <2>3. next \notin {"flushing", "stopping"} => channel' = channel
    BY <1>0, Zenon DEF ExitAnswered, NewId
  <2>4. /\ receivers.exit.reply \in {"ok", "failed"}
        /\ ui' = [(IF next = "running" THEN [ui EXCEPT !.active = Append(@, shown + 1)]
                   ELSE ui) EXCEPT !.phase = next]
        /\ shown' = IF next = "running" THEN shown + 1 ELSE shown
        /\ UNCHANGED <<worker, disk>>
    BY <1>0, Zenon DEF ExitAnswered, Showing, Entry
  <2> QED
    BY <2>1, <2>2, <2>3, <2>4
<1>2. ui.phase # "down" /\ ui \in Interfaces
  <2>1. receivers.exit.id > 0
    BY <1>1, ReceiversAre
  <2> QED
    BY <2>1, StateIs, ReceiversAre DEF ExitInv
<1>3. CASE next = "running"
  <2>1. ui'.active = Append(ui.active, shown + 1) /\ ui'.session = ui.session
    BY <1>1, <1>2, <1>3 DEF Interfaces
  <2>2. channel' = channel /\ shown' = shown + 1
    BY <1>1, <1>3
  <2>3. OrderState(ui', channel, worker.pending, disk, shown + 1)
    BY <1>2, <2>1, OrderIs, OrderOnlyShown
  <2> QED
    BY <1>1, <2>2, <2>3 DEF OrderInv
<1>4. CASE next # "running"
  <2>1. ui'.active = ui.active /\ ui'.session = ui.session /\ shown' = shown
    BY <1>1, <1>2, <1>4 DEF Interfaces
  <2>2. CASE next \in {"flushing", "stopping"}
    <3>1. PICK w \in Requests : ~IsWrite(w) /\ channel' = Append(channel, w)
      <4>1. /\ Read(requests + 1, NoSession) \in Requests
            /\ StopWorker(requests + 1) \in Requests
            /\ ~IsWrite(Read(requests + 1, NoSession))
            /\ ~IsWrite(StopWorker(requests + 1))
        BY OrderIs DEF Read, StopWorker, Requests, Barriers, IsWrite
      <4>2. next = "flushing" => channel' = Append(channel, Read(requests + 1, NoSession))
        BY <1>1
      <4>3. next = "stopping" => channel' = Append(channel, StopWorker(requests + 1))
        BY <1>1
      <4> QED
        BY <2>2, <4>1, <4>2, <4>3
    <3>2. OrderState(ui', Append(channel, w), worker.pending, disk, shown)
      BY <1>2, <2>1, <3>1, OrderIs, OrderAsked
    <3> QED
      BY <1>1, <2>1, <3>1, <3>2 DEF OrderInv
  <2>3. CASE next \notin {"flushing", "stopping"}
    <3>1. channel' = channel
      BY <1>1, <2>3
    <3> QED
      BY <1>1, <1>2, <2>1, <3>1, OrderStays
  <2> QED
    BY <2>2, <2>3
<1> QED
  BY <1>3, <1>4

\* A restore that is dropped.
LEMMA CancelOrders ==
  ASSUME StorageInv, OrderInv, CancelRestore
  PROVE  OrderInv'
BY OrderStays DEF CancelRestore, counters

\* recv_timeout: a write.
LEMMA TakeWriteOrders ==
  ASSUME StorageInv, OrderInv, TakeWrite
  PROVE  OrderInv'
<1>1. PICK w, t, p2 :
        /\ w = Head(channel) /\ t = Tail(channel)
        /\ channel # << >> /\ IsWrite(w) /\ worker.doing = Resting
        /\ \/ p2 = Append(worker.pending, w)
           \/ /\ worker.pending # << >> /\ CanMerge(Last(worker.pending), w)
              /\ p2 = Append(Front(worker.pending), Merge(Last(worker.pending), w))
        /\ worker' = [worker EXCEPT !.canMerge = TRUE, !.pending = p2]
        /\ channel' = t
        /\ UNCHANGED <<ui, disk, shown>>
  BY DEF TakeWrite, counters
<1>2. worker.doing \notin Barriers
  BY <1>1, BarrierIs DEF Resting
<1>3. StorageState(ui, receivers, channel, worker.pending, worker.doing, disk, owed, saved,
                   requests, shown)
  BY StateIs
<1>4. StorageState(ui, receivers, t, p2, worker.doing, disk, owed, saved, requests, shown)
  BY ONLY <1>1, <1>2, <1>3, WriteTaken
<1>5. p2 \in Seq(Writes)
  BY <1>4 DEF StorageState, TypesInv
<1>6. p2 \in Seq(Requests)
  BY <1>5 DEF Requests
<1>7. worker'.pending = p2
  BY <1>1, OrderIs DEF Workers
<1>8. /\ OrderState(ui, channel, worker.pending, disk, shown)
      /\ OrdinalInv(ui, channel, worker.pending, disk)
      /\ channel \in Seq(Requests) /\ worker.pending \in Seq(Requests)
      /\ disk \in [Sessions -> Files] /\ shown \in Nat
  BY OrderIs
<1>9. OrderState(ui, t, p2, disk, shown)
  BY ONLY <1>1, <1>6, <1>8, OrderTaken
<1> QED
  BY <1>1, <1>7, <1>9 DEF OrderInv

\* recv_timeout: a barrier.
LEMMA TakeBarrierOrders ==
  ASSUME StorageInv, OrderInv, TakeBarrier
  PROVE  OrderInv'
<1>1. PICK w, t :
        /\ w = Head(channel) /\ t = Tail(channel)
        /\ channel # << >> /\ ~IsWrite(w)
        /\ worker' = [worker EXCEPT !.canMerge = FALSE, !.doing = w]
        /\ channel' = t
        /\ UNCHANGED <<ui, disk, shown>>
  BY DEF TakeBarrier, counters
<1>2. /\ OrderState(ui, channel, worker.pending, disk, shown)
      /\ channel \in Seq(Requests) /\ worker.pending \in Seq(Requests) /\ shown \in Nat
  BY OrderIs
<1>3. OrderState(ui, t, worker.pending, disk, shown)
  BY ONLY <1>1, <1>2, OrderBarrier
<1>4. worker'.pending = worker.pending
  BY <1>1, OrderIs DEF Workers
<1> QED
  BY <1>1, <1>3, <1>4 DEF OrderInv

\* The timer, or every sender gone.
LEMMA StartFlushOrders ==
  ASSUME StorageInv, OrderInv, StartFlush
  PROVE  OrderInv'
<1>1. PICK g : /\ worker' = [worker EXCEPT !.doing = g]
               /\ UNCHANGED <<ui, channel, disk, shown>>
  BY DEF StartFlush, counters
<1>2. worker'.pending = worker.pending
  BY <1>1, OrderIs DEF Workers
<1> QED
  BY <1>1, <1>2, OrderStays

\* flush_pending: the first write is done.
LEMMA StoreWriteOrders ==
  ASSUME StorageInv, OrderInv, NEW indexed \in BOOLEAN, StoreWrite(indexed)
  PROVE  OrderInv'
<1>1. PICK w, p2, x :
        /\ worker.pending # << >> /\ w = Head(worker.pending) /\ p2 = Tail(worker.pending)
        /\ x = Execute(w, disk[w.session], indexed)
        /\ disk' = [disk EXCEPT ![w.session] = x]
        /\ worker' = [worker EXCEPT !.pending = p2, !.error = FALSE]
        /\ UNCHANGED <<ui, channel, shown>>
  BY Zenon DEF StoreWrite
<1>2. /\ OrderState(ui, channel, worker.pending, disk, shown)
      /\ OrdinalInv(ui, channel, worker.pending, disk)
      /\ channel \in Seq(Requests) /\ worker.pending \in Seq(Writes)
      /\ disk \in [Sessions -> Files] /\ shown \in Nat
  BY OrderIs
<1>3. indexed \in BOOLEAN
  OBVIOUS
<1>4. OrderState(ui, channel, p2, disk', shown)
  BY ONLY <1>1, <1>2, <1>3, OrderStored
<1>5. worker'.pending = p2
  BY <1>1, OrderIs DEF Workers
<1> QED
  BY <1>1, <1>4, <1>5 DEF OrderInv

\* flush_pending: the first write fails.
LEMMA StoreFailsOrders ==
  ASSUME StorageInv, OrderInv, StoreFails
  PROVE  OrderInv'
<1> DEFINE r == worker.doing
<1>1. /\ worker.pending # << >>
      /\ \E f \in PartialWrites(Head(worker.pending), disk[Head(worker.pending).session]) :
            disk' = [disk EXCEPT ![Head(worker.pending).session] = f]
      /\ worker' = [worker EXCEPT !.doing = Resting, !.alive = r # Dropped, !.error = TRUE]
      /\ UNCHANGED <<ui, channel, shown>>
  BY Zenon DEF StoreFails
<1>2. PICK w : w = Head(worker.pending)
  OBVIOUS
<1>3. PICK x \in PartialWrites(w, disk[w.session]) : disk' = [disk EXCEPT ![w.session] = x]
  BY <1>1, <1>2
<1>4. /\ OrderState(ui, channel, worker.pending, disk, shown)
      /\ OrdinalInv(ui, channel, worker.pending, disk)
      /\ channel \in Seq(Requests) /\ worker.pending \in Seq(Writes)
      /\ disk \in [Sessions -> Files] /\ shown \in Nat
  BY OrderIs
<1>5. worker.pending # << >>
  BY <1>1
<1>6. OrderState(ui, channel, worker.pending, disk', shown)
  BY ONLY <1>2, <1>3, x \in PartialWrites(w, disk[w.session]), <1>4, <1>5, OrderTried
<1>7. worker'.pending = worker.pending
  BY <1>1, OrderIs DEF Workers
<1> QED
  BY <1>1, <1>6, <1>7 DEF OrderInv

\* Everything is written: the closure runs.
LEMMA FlushDoneOrders ==
  ASSUME StorageInv, OrderInv, NEW fault \in BOOLEAN, FlushDone(fault)
  PROVE  OrderInv'
<1> DEFINE r == worker.doing
<1>1. /\ worker' = [worker EXCEPT !.doing = Resting,
                                  !.alive = r # Dropped /\ r.op # "Shutdown"]
      /\ \/ disk' = [disk EXCEPT ![r.session].exists = TRUE]
         \/ disk' = disk
      /\ UNCHANGED <<ui, channel, shown>>
  BY Zenon DEF FlushDone
<1>2. \A s \in Sessions : disk'[s].turns = disk[s].turns /\ disk'[s].live = disk[s].live
  <2>1. CASE disk' = disk
    BY <2>1
  <2>2. CASE disk' = [disk EXCEPT ![r.session].exists = TRUE]
    BY <2>2, OrderIs DEF Files
  <2> QED
    BY <1>1, <2>1, <2>2
<1>3. OrderState(ui, channel, worker.pending, disk', shown)
  BY <1>2, OrderIs, OrderFiles
<1>4. worker'.pending = worker.pending
  BY <1>1, OrderIs DEF Workers
<1> QED
  BY <1>1, <1>3, <1>4 DEF OrderInv

\* The process is killed.
LEMMA CrashOrders ==
  ASSUME StorageInv, OrderInv, Crash
  PROVE  OrderInv'
<1>1. /\ ui' = [ui EXCEPT !.phase = "down", !.active = << >>]
      /\ channel' = << >> /\ worker' = [NewWorker EXCEPT !.alive = FALSE]
      /\ disk' = disk /\ shown' = shown
  BY DEF Crash, counters
<1>2. ui'.active = << >> /\ ui'.phase = "down"
  BY <1>1, OrderIs DEF Interfaces
<1>3. OrderState(ui', << >>, << >>, disk, shown)
  BY <1>2, OrderIs, OrderCrashed
<1> QED
  BY <1>1, <1>3, NewWorkerIs DEF OrderInv

\* A process starts in a thread of its own.
LEMMA StartOrders ==
  ASSUME StorageInv, OrderInv, NEW s \in Sessions, Start(s)
  PROVE  OrderInv'
<1>1. /\ ui.phase \in {"down", "exited"} /\ disk[s] = NoFiles
      /\ ui' = [session |-> s, active |-> << >>, committed |-> 0, ordinal |-> 0,
                phase |-> "running"]
      /\ worker' = NewWorker
      /\ UNCHANGED <<channel, disk, shown>>
  BY DEF Start, Unused
<1>2. channel = << >> /\ worker.pending = << >>
  BY <1>1, StateIs DEF ExitInv
<1>3. ui'.active = disk[s].live /\ ui'.session = s
  BY <1>1, NoFilesIs
<1>4. /\ OrderState(ui, channel, worker.pending, disk, shown) /\ shown \in Nat
      /\ channel \in Seq(Requests) /\ worker.pending \in Seq(Requests)
      /\ ~SomeOf(channel, s) /\ ~SomeOf(worker.pending, s)
  BY <1>2, OrderIs, NoneIs
<1>5. OrderState(ui', channel, worker.pending, disk, shown)
  BY <1>3, <1>4, OrderAdopted
<1> QED
  BY <1>1, <1>2, <1>5, NewWorkerIs DEF OrderInv

\* The first process.
LEMMA OrderStarts ==
  ASSUME StorageInit
  PROVE  OrderInv
<1>1. PICK s \in Sessions : ui = [session |-> s, active |-> << >>, committed |-> 0,
                                  ordinal |-> 0, phase |-> "running"]
  BY DEF StorageInit
<1>2. /\ channel = << >> /\ worker = NewWorker /\ disk = [t \in Sessions |-> NoFiles]
      /\ shown = 0 /\ ui.active = << >>
  BY <1>1 DEF StorageInit
<1>3. ASSUME NEW t \in Sessions PROVE ThreadOrder(ui, << >>, << >>, disk, 0, t)
  <2>1. /\ disk[t].turns = << >> /\ disk[t].live = << >> /\ disk[t].turns \in TurnLogs
    BY <1>2, NoFilesIs DEF Files
  <2>2. TurnEntries(disk[t]) = << >>
    BY <2>1, TurnsGrow
  <2>3. PICK v : v = [turns |-> << >>, live |-> << >>]
    OBVIOUS
  <2>4. v.turns = << >> /\ v.live = << >>
    BY <2>3
  <2>5. v \in Views(0) /\ Arranged(v)
    <3>1. << >> \in Seq(0..0)
      OBVIOUS
    <3>2. v \in Views(0)
      BY <2>3, <3>1 DEF Views
    <3> QED
      BY <2>4, <3>2, OrderNone DEF Arranged
  <2>6. Leads(v, << >>, v, t, 0)
    BY <2>5, LeadsNone
  <2>7. Begins(disk[t], << >>, t, v)
    BY <2>1, <2>2, <2>4 DEF Begins, Retried
  <2>8. Follows(ui, t, v)
    <3>1. Range(v.live) \subseteq Range(ui.active)
      BY <1>2, <2>4
    <3> QED
      BY <1>2, <2>4, <3>1, OrderNone DEF Follows
  <2> QED
    BY <2>6, <2>7, <2>8, Zenon DEF ThreadOrder
<1>4. << >> \in Seq(0..0)
  OBVIOUS
<1> QED
  BY <1>2, <1>3, <1>4, NewWorkerIs DEF OrderInv, OrderState

\* Every step keeps the order.
LEMMA OrderSteps ==
  ASSUME StorageInv, OrderInv, [StorageNext]_storageVars
  PROVE  OrderInv'
<1>1. ASSUME UiNext PROVE OrderInv'
  BY <1>1, PushEntryOrders, ReplaceEntryOrders, PersistOrders, ResetOrders,
     RequestRestoreOrders, StartNewOrders, FinishRestoreOrders, FinishNewOrders, CancelOrders,
     LeaveOrders, StayOrders, ExitAnsweredOrders, Zenon DEF UiNext
<1>2. ASSUME WorkerNext PROVE OrderInv'
  BY <1>2, TakeWriteOrders, TakeBarrierOrders, StartFlushOrders, StoreWriteOrders,
     StoreFailsOrders, FlushDoneOrders, Zenon DEF WorkerNext
<1>3. ASSUME UNCHANGED storageVars PROVE OrderInv'
  BY <1>3 DEF storageVars, OrderInv
<1> QED
  BY <1>1, <1>2, <1>3, CrashOrders, StartOrders, Zenon DEF StorageNext

-----------------------------------------------------------------------------
(* The theorems.                                                           *)

\* Every step of the interface, the worker and the process keeps it.
LEMMA StorageSteps ==
  ASSUME StorageInv, [StorageNext]_storageVars
  PROVE  StorageInv'
<1>1. ASSUME UiNext PROVE StorageInv'
  BY <1>1, PushEntryKeeps, ReplaceEntryKeeps, PersistKeeps, ResetKeeps, RequestRestoreKeeps,
     StartNewKeeps, FinishRestoreKeeps, FinishNewKeeps, CancelKeeps, LeaveKeeps, StayKeeps,
     ExitAnsweredKeeps, Zenon DEF UiNext
<1>2. ASSUME WorkerNext PROVE StorageInv'
  BY <1>2, TakeWriteKeeps, TakeBarrierKeeps, StartFlushKeeps, StoreWriteKeeps,
     StoreFailsKeeps, FlushDoneKeeps, Zenon DEF WorkerNext
<1>3. ASSUME UNCHANGED storageVars PROVE StorageInv'
  BY <1>3 DEF storageVars, StorageInv
<1> QED
  BY <1>1, <1>2, <1>3, CrashKeeps, StartKeeps, Zenon DEF StorageNext

\* The storage stays consistent through writes, retries, restores, crashes
\* and restarts (tui/state/persistence.rs, thread_io/worker.rs).
THEOREM StorageInvariant == StorageSpec => []StorageInv
BY StorageStarts, StorageSteps, PTL DEF StorageSpec

\* No entry that was accepted is ever without a copy in the files or in a
\* write the worker holds (flush_pending, record_entry).
THEOREM EntriesAreKept == StorageSpec => []NothingLost
<1>1. ASSUME StorageInv PROVE NothingLost
  <2>1. SUFFICES ASSUME NEW s \in Sessions, NEW e \in owed[s]
                 PROVE  e \in Recoverable(s) \cup Unwritten(s)
    BY DEF NothingLost
  <2>2. /\ disk \in [Sessions -> Files]
        /\ \/ Stored(disk, s, e) \/ e \in Range(disk[s].live)
           \/ InWrite(worker.pending, s, e) \/ InWrite(channel, s, e)
    BY <1>1, <2>1 DEF StorageInv, StorageState, TypesInv, KeptInv
  <2>3. CASE Stored(disk, s, e) \/ e \in Range(disk[s].live)
    BY <2>2, <2>3, RecoverableIs
  <2>4. CASE InWrite(worker.pending, s, e) \/ InWrite(channel, s, e)
    <3>1. PICK w \in Range(worker.pending) \cup Range(channel) : Holds(w, s, e)
      BY <2>4 DEF InWrite, Range
    <3>2. IsWrite(w) /\ w.session = s /\ e \in EntriesOf(w)
      BY <3>1 DEF Holds, Of
    <3> QED
      BY <3>1, <3>2 DEF Unwritten
  <2> QED
    BY <2>2, <2>3, <2>4
<1> QED
  BY <1>1, StorageInvariant, PTL

\* After a clean exit the turns hold everything that was shown, and the last
\* checkpoint is whole (shutdown_storage).
THEOREM ExitIsClean == StorageSpec => []CleanExit
<1>1. ASSUME StorageInv PROVE CleanExit
  <2>1. SUFFICES ASSUME ui.phase = "exited"
                 PROVE  /\ worker.pending = << >> /\ channel = << >>
                        /\ owed[ui.session] \subseteq
                             UNION {Range(disk[ui.session].turns[o]) :
                                      o \in DOMAIN disk[ui.session].turns}
                        /\ \A p \in Range(Parts) :
                             disk[ui.session].checkpoint[p] = saved[ui.session]
    BY DEF CleanExit
  <2>2. /\ ActiveInv(ui, channel, worker.pending, disk, owed)
        /\ CheckpointInv(ui, channel, worker.pending, disk, saved)
        /\ ExitInv(ui, receivers, channel, worker.pending, worker.doing)
    BY <1>1 DEF StorageInv, StorageState
  <2>3. worker.pending = << >> /\ channel = << >>
    BY <2>1, <2>2 DEF ExitInv
  <2>4. /\ ~SomeSave(channel, ui.session) /\ ~SomeSave(worker.pending, ui.session)
        /\ \A e : ~InTurn(channel, ui.session, e) /\ ~InTurn(worker.pending, ui.session, e)
    BY <2>3, NoneIs
  <2>5. \A p \in Range(Parts) : disk[ui.session].checkpoint[p] = saved[ui.session]
    BY <2>1, <2>2, <2>4 DEF CheckpointInv, Leaving
  <2>6. \A e \in owed[ui.session] : Stored(disk, ui.session, e)
    BY <2>1, <2>2, <2>4 DEF ActiveInv, Turned, Leaving
  <2> QED
    BY <2>3, <2>5, <2>6 DEF Stored
<1> QED
  BY <1>1, StorageInvariant, PTL

\* Once the writes of the current thread are done, its live log is what was
\* recorded of the active turn (record_entry, commit_active_turn).
THEOREM LiveLogFollows == StorageSpec => []LiveFollowsActive
<1>1. ASSUME StorageInv PROVE LiveFollowsActive
  <2> DEFINE s == ui.session
             all == worker.pending \o channel
  <2>1. SUFFICES ASSUME ui.phase = "running",
                        ~\E i \in DOMAIN all : IsWrite(all[i]) /\ all[i].session = s
                 PROVE  Range(disk[s].live) = Range(ui.active) \cap owed[s]
    BY DEF LiveFollowsActive
  <2>2. /\ worker.pending \in Seq(Requests) /\ channel \in Seq(Requests)
        /\ s \in Sessions /\ disk \in [Sessions -> Files]
        /\ LiveInv(ui, channel, worker.pending, disk, owed)
        /\ ui.active \in Seq(Nat) /\ Range(disk[s].live) \subseteq Nat
    <3>1. /\ worker.pending \in Seq(Writes) /\ channel \in Seq(Requests)
          /\ s \in Sessions /\ disk \in [Sessions -> Files] /\ ui.active \in Seq(Nat)
          /\ LiveInv(ui, channel, worker.pending, disk, owed)
      BY <1>1, StateIs DEF TypesInv, StorageState
    <3>2. disk[s].live \in Seq(Nat)
      BY <3>1 DEF Files
    <3>3. worker.pending \in Seq(Requests)
      BY <3>1 DEF Requests
    <3> QED
      BY <3>1, <3>2, <3>3 DEF Range
  <2>3. /\ \A i \in DOMAIN worker.pending : i \in DOMAIN all /\ all[i] = worker.pending[i]
        /\ \A i \in DOMAIN channel : /\ Len(worker.pending) + i \in DOMAIN all
                                     /\ all[Len(worker.pending) + i] = channel[i]
    <3>1. ASSUME NEW a \in Seq(Requests), NEW b \in Seq(Requests)
          PROVE  /\ \A i \in DOMAIN a : i \in DOMAIN (a \o b) /\ (a \o b)[i] = a[i]
                 /\ \A i \in DOMAIN b : /\ Len(a) + i \in DOMAIN (a \o b)
                                       /\ (a \o b)[Len(a) + i] = b[i]
      <4>1. /\ Len(a) \in Nat /\ Len(b) \in Nat
            /\ DOMAIN a = 1..Len(a) /\ DOMAIN b = 1..Len(b)
            /\ DOMAIN (a \o b) = 1..(Len(a) + Len(b))
        OBVIOUS
      <4>2. \A i \in DOMAIN a : i \in 1..(Len(a) + Len(b)) /\ (a \o b)[i] = a[i]
        BY <4>1
      <4>3. ASSUME NEW i \in DOMAIN b
            PROVE  /\ Len(a) + i \in 1..(Len(a) + Len(b))
                   /\ (a \o b)[Len(a) + i] = b[i]
        <5>1. /\ Len(a) + i \in 1..(Len(a) + Len(b)) /\ ~(Len(a) + i <= Len(a))
              /\ Len(a) + i - Len(a) = i
          BY <4>1
        <5> QED
          BY <5>1
      <4> QED
        BY <4>1, <4>2, <4>3
    <3> QED
      BY <2>2, <3>1
  <2> HIDE DEF all
  <2>4. /\ \A i \in DOMAIN worker.pending : ~Of(worker.pending[i], s)
        /\ \A i \in DOMAIN channel : ~Of(channel[i], s)
    BY <2>1, <2>3 DEF Of
  <2>5. \A w : ~Of(w, s) => ~Cuts(w, s) /\ \A e : ~Adds(w, s, e)
    BY DEF Of, IsWrite, Cuts, Adds
  <2>6. \A e : FinallyLive(channel, worker.pending, disk, s, e) <=> e \in Range(disk[s].live)
    BY <2>4, <2>5 DEF FinallyLive, LiveAfter
  <2>7. \A e \in Nat : e \in Range(disk[s].live) <=> e \in Range(ui.active) /\ e \in owed[s]
    BY <2>1, <2>2, <2>6 DEF LiveInv
  <2>8. Range(ui.active) \subseteq Nat
    BY <2>2 DEF Range
  <2> QED
    BY <2>2, <2>7, <2>8
<1> QED
  BY <1>1, StorageInvariant, PTL

\* In every state the files, the worker's queue, the channel and the active
\* turn continue one another in the order the entries were shown
\* (flush_pending, WriteOperation::merge, commit_active_turn).
THEOREM OrderInvariant == StorageSpec => []OrderInv
<1>1. StorageInit => OrderInv
  BY OrderStarts
<1>2. StorageInv /\ OrderInv /\ [StorageNext]_storageVars => OrderInv'
  BY OrderSteps
<1> QED
  BY <1>1, <1>2, StorageInvariant, PTL DEF StorageSpec

\* What a restore would show is in the order it was shown, whatever was
\* merged, retried, written in part or cut off by a crash (flush_pending,
\* load_turn_items).
THEOREM TranscriptsInOrder == StorageSpec => []TranscriptInOrder
<1>1. ASSUME StorageInv, OrderInv PROVE TranscriptInOrder
  BY <1>1, OrderIs, StoredInOrder DEF TranscriptInOrder
<1> QED
  BY <1>1, StorageInvariant, OrderInvariant, PTL

\* A restore shows the conversation: in order, and with the live log of what
\* was recorded of the active turn (finish_restore, record_entry).
THEOREM RestoresAreFaithful == StorageSpec => []RestoreFaithful
<1>1. TranscriptInOrder /\ LiveFollowsActive => RestoreFaithful
  BY DEF RestoreFaithful
<1> QED
  BY <1>1, TranscriptsInOrder, LiveLogFollows, PTL
=============================================================================
