--------------------------- MODULE DataPlaneProofs ----------------------------
(***************************************************************************)
(* Theorems about the data plane, for any number of remotes, addresses and *)
(* connections: its type, who may wait for the lock of the session map     *)
(* while holding it, and that a flood sees one map.                        *)
(***************************************************************************)
EXTENDS DataPlane, TLAPS

-----------------------------------------------------------------------------
(* The queue of the lock *)

LEMMA WaiterType ==
  ASSUME TypeOK, NEW i \in 1 .. Len(queue)
  PROVE  queue[i].task \in Tasks
<1> DEFINE W == [task: Tasks, mode: Modes]
<1> HIDE DEF W
<1>1. queue \in Seq(W)
  BY DEF TypeOK, W
<1>2. queue[i] \in W
  BY <1>1
<1> QED
  BY <1>2 DEF W

LEMMA AskQueue ==
  ASSUME TypeOK, NEW t \in Tasks, NEW mode \in Modes, Ask(t, mode)
  PROVE  /\ queue' \in Seq([task: Tasks, mode: Modes])
         /\ Len(queue') = Len(queue) + 1
         /\ \A i \in 1 .. Len(queue) : queue'[i] = queue[i]
         /\ queue'[Len(queue) + 1] = [task |-> t, mode |-> mode]
         /\ \A u \in Tasks : Waiting(u)' <=> Waiting(u) \/ u = t
<1> DEFINE w == [task |-> t, mode |-> mode]
<1>1. w \in [task: Tasks, mode: Modes] /\ w.task = t
  OBVIOUS
<1>2. queue \in Seq([task: Tasks, mode: Modes]) /\ queue' = Append(queue, w)
  BY DEF TypeOK, Ask
<1> HIDE DEF w
<1>3. /\ queue' \in Seq([task: Tasks, mode: Modes])
      /\ Len(queue') = Len(queue) + 1 /\ Len(queue) \in Nat
      /\ \A i \in 1 .. Len(queue) : queue'[i] = queue[i]
      /\ queue'[Len(queue) + 1] = w
  BY <1>1, <1>2
<1>4. ASSUME NEW u \in Tasks PROVE Waiting(u)' <=> Waiting(u) \/ u = t
  <2>1. ASSUME Waiting(u)' PROVE Waiting(u) \/ u = t
    BY <1>1, <1>3, <2>1 DEF Waiting
  <2>2. ASSUME Waiting(u) PROVE Waiting(u)'
    BY <1>3, <2>2 DEF Waiting
  <2>3. ASSUME u = t PROVE Waiting(u)'
    BY <1>1, <1>3, <2>3 DEF Waiting
  <2> QED
    BY <2>1, <2>2, <2>3
<1> QED
  BY <1>3, <1>4 DEF w

\* Nobody is in the queue twice.
Once == \A i, j \in 1 .. Len(queue) : queue[i].task = queue[j].task => i = j

LEMMA GrantQueue ==
  ASSUME TypeOK, Once, queue # <<>>, queue' = Tail(queue)
  PROVE  /\ queue' \in Seq([task: Tasks, mode: Modes])
         /\ Len(queue) \in Nat \ {0} /\ Len(queue') = Len(queue) - 1
         /\ \A i \in 1 .. Len(queue') : queue'[i] = queue[i + 1]
         /\ Head(queue) = queue[1] /\ Head(queue) \in [task: Tasks, mode: Modes]
         /\ Waiting(Head(queue).task)
         /\ \A u \in Tasks : Waiting(u)' <=> Waiting(u) /\ u # Head(queue).task
<1>1. queue \in Seq([task: Tasks, mode: Modes])
  BY DEF TypeOK
<1>2. /\ queue' \in Seq([task: Tasks, mode: Modes])
      /\ Len(queue) \in Nat \ {0} /\ Len(queue') = Len(queue) - 1
      /\ \A i \in 1 .. Len(queue') : queue'[i] = queue[i + 1]
      /\ Head(queue) = queue[1] /\ Head(queue) \in [task: Tasks, mode: Modes]
  <2> DEFINE W == [task: Tasks, mode: Modes]
  <2> HIDE DEF W
  <2>1. queue \in Seq(W) /\ queue # <<>>
    BY <1>1 DEF W
  <2>2. Tail(queue) \in Seq(W) /\ Len(queue) \in Nat \ {0} /\ Len(Tail(queue)) = Len(queue) - 1
    BY <2>1
  <2>3. \A i \in 1 .. Len(Tail(queue)) : Tail(queue)[i] = queue[i + 1]
    BY <2>1
  <2>4. Head(queue) = queue[1] /\ queue[1] \in W
    BY <2>1, <2>2
  <2> QED
    BY <2>2, <2>3, <2>4 DEF W
<1>3. Waiting(Head(queue).task)
  BY <1>2 DEF Waiting
<1>4. ASSUME NEW u \in Tasks PROVE Waiting(u)' <=> Waiting(u) /\ u # Head(queue).task
  <2>1. ASSUME Waiting(u)' PROVE Waiting(u) /\ u # Head(queue).task
    <3>1. PICK i \in 1 .. Len(queue') : queue'[i].task = u
      BY <2>1 DEF Waiting
    <3>2. i + 1 \in 1 .. Len(queue) /\ i + 1 # 1 /\ queue[i + 1].task = u /\ 1 \in 1 .. Len(queue)
      BY <1>2, <3>1
    <3> QED
      BY <1>2, <3>2 DEF Once, Waiting
  <2>2. ASSUME Waiting(u), u # Head(queue).task PROVE Waiting(u)'
    <3>1. PICK i \in 1 .. Len(queue) : queue[i].task = u
      BY <2>2 DEF Waiting
    <3>2. i - 1 \in 1 .. Len(queue') /\ queue'[i - 1] = queue[i]
      BY <1>2, <2>2, <3>1
    <3> QED
      BY <3>1, <3>2 DEF Waiting
  <2> QED
    BY <2>1, <2>2
<1> QED
  BY <1>2, <1>3, <1>4

-----------------------------------------------------------------------------
(* Who holds the lock *)

AskedAt(mode) == IF mode = "read" THEN {"check", "unicast", "flood", "send", "lost"} ELSE {"insert", "remove"}

\* The guards a task holds follow from where it is and whether it waits.
Guards(t) ==
  IF stage[t] = "next" THEN 1
  ELSE IF stage[t] = "send" THEN IF Waiting(t) THEN 1 ELSE 2
  ELSE IF stage[t] \in {"check", "unicast", "flood", "lost"} /\ ~Waiting(t) THEN 1
  ELSE 0

Writes(t) == stage[t] \in {"insert", "remove"} /\ ~Waiting(t)

StageOf(t) ==
  CASE t \in Conns  -> {"new", "check", "insert", "live", "remove", "gone"}
    [] t = Outbound -> {"idle", "unicast", "flood", "next", "send"}
    [] t = Loop     -> {"idle", "lost"}

(* Whoever waits is at the stage where it asked, once; each task holds the *)
(* guards its stage implies; and a writer excludes the readers.            *)
LockInv ==
  /\ Once
  /\ \A i \in 1 .. Len(queue) : stage[queue[i].task] \in AskedAt(queue[i].mode)
  /\ \A t \in Tasks : held[t] = Guards(t)
  /\ \A t \in Tasks : writer = t <=> Writes(t)
  /\ writer # Absent => \A t \in Tasks : held[t] = 0
  /\ \A t \in Tasks : stage[t] \in StageOf(t)

LEMMA TaskNames == /\ Outbound \in Tasks /\ Loop \in Tasks /\ Conns \subseteq Tasks
                   /\ Outbound # Loop /\ Outbound \notin Conns /\ Loop \notin Conns
                   /\ \A t \in Tasks : t # Absent
BY DataPlaneAssumption DEF Tasks

LEMMA LockInit == Init => TypeOK /\ LockInv
<1> SUFFICES ASSUME Init PROVE TypeOK /\ LockInv
  OBVIOUS
<1>1. queue = <<>> /\ Len(queue) = 0
  BY DEF Init
<1>2. \A t \in Tasks : ~Waiting(t)
  BY <1>1 DEF Waiting
<1>3. \A t \in Tasks : stage[t] = IF t \in Conns THEN "new" ELSE "idle"
  BY DEF Init
<1>4. TypeOK
  BY <1>1 DEF Init, TypeOK, Stages
<1>5. \A t \in Tasks : held[t] = Guards(t) /\ ~Writes(t) /\ writer # t
  BY <1>2, <1>3, TaskNames DEF Init, Guards, Writes
<1>6. \A t \in Tasks : stage[t] \in StageOf(t)
  BY <1>3, TaskNames DEF StageOf, Tasks
<1> QED
  BY <1>1, <1>4, <1>5, <1>6 DEF LockInv, Once, Init

LEMMA GrantLock ==
  ASSUME TypeOK, LockInv, Grant
  PROVE  TypeOK' /\ LockInv'
<1> DEFINE w == Head(queue)
<1>1. /\ queue # <<>> /\ writer = Absent /\ queue' = Tail(queue)
      /\ UNCHANGED <<peers, learned, lost, stage, event, todo>>
  BY DEF Grant
<1>2. /\ queue' \in Seq([task: Tasks, mode: Modes])
      /\ Len(queue) \in Nat \ {0} /\ Len(queue') = Len(queue) - 1
      /\ \A i \in 1 .. Len(queue') : queue'[i] = queue[i + 1]
      /\ w = queue[1] /\ w \in [task: Tasks, mode: Modes]
      /\ Waiting(w.task)
      /\ \A u \in Tasks : Waiting(u)' <=> Waiting(u) /\ u # w.task
  BY <1>1, GrantQueue DEF LockInv
<1>3. PICK t \in Tasks : t = w.task
  BY <1>2
<1>4. stage[t] \in AskedAt(w.mode) /\ w.mode \in Modes
  BY <1>2, <1>3 DEF LockInv
<1>5. Once'
  <2>1. ASSUME NEW i \in 1 .. Len(queue'), NEW j \in 1 .. Len(queue'), queue'[i].task = queue'[j].task
        PROVE  i = j
    <3>1. i + 1 \in 1 .. Len(queue) /\ j + 1 \in 1 .. Len(queue) /\ queue[i + 1].task = queue[j + 1].task
      BY <1>2, <2>1
    <3>2. i + 1 = j + 1
      BY <3>1 DEF LockInv, Once
    <3> QED
      BY <1>2, <3>2
  <2> QED
    BY <2>1 DEF Once
<1>6. \A i \in 1 .. Len(queue') : stage'[queue'[i].task] \in AskedAt(queue'[i].mode)
  BY <1>1, <1>2 DEF LockInv
<1>7. \A u \in Tasks : u # t => (Waiting(u)' <=> Waiting(u))
  BY <1>2, <1>3
<1>8. Waiting(t) /\ ~Waiting(t)'
  BY <1>2, <1>3
<1>9. \A u \in Tasks : u # t => Guards(u)' = Guards(u) /\ (Writes(u)' <=> Writes(u))
  BY <1>1, <1>7 DEF Guards, Writes
<1>10. CASE w.mode = "read"
  <2>1. held' = [held EXCEPT ![t] = @ + 1] /\ writer' = writer
    BY <1>3, <1>10 DEF Grant
  <2>2. stage[t] \in {"check", "unicast", "flood", "send", "lost"}
    BY <1>4, <1>10 DEF AskedAt
  <2>3. held[t] = Guards(t) /\ held \in [Tasks -> Nat]
    BY DEF LockInv, TypeOK
  <2>4. held'[t] = Guards(t)' /\ ~Writes(t)' /\ ~Writes(t)
    BY <1>1, <1>8, <2>1, <2>2, <2>3 DEF Guards, Writes
  <2>5. \A u \in Tasks : held'[u] = Guards(u)'
    BY <1>9, <2>1, <2>3, <2>4 DEF LockInv
  <2>6. \A u \in Tasks : writer' = u <=> Writes(u)'
    BY <1>9, <2>1, <2>4 DEF LockInv
  <2>7. TypeOK'
    BY <1>1, <1>2, <2>1 DEF TypeOK
  <2> QED
    BY <1>1, <1>5, <1>6, <2>1, <2>5, <2>6, <2>7 DEF LockInv, StageOf
<1>11. CASE w.mode = "write"
  <2>1. held' = held /\ writer' = t /\ \A u \in Tasks : held[u] = 0
    BY <1>3, <1>11 DEF Grant
  <2>2. stage[t] \in {"insert", "remove"}
    BY <1>4, <1>11 DEF AskedAt
  <2>3. held'[t] = Guards(t)' /\ Writes(t)'
    BY <1>1, <1>8, <2>1, <2>2 DEF Guards, Writes
  <2>4. \A u \in Tasks : held'[u] = Guards(u)'
    BY <1>9, <2>1, <2>3 DEF LockInv
  <2>5. \A u \in Tasks : writer' = u <=> Writes(u)'
    BY <1>1, <1>9, <2>1, <2>3, TaskNames DEF LockInv
  <2>6. TypeOK'
    BY <1>1, <1>2, <2>1 DEF TypeOK
  <2> QED
    BY <1>1, <1>5, <1>6, <2>1, <2>4, <2>5, <2>6 DEF LockInv, StageOf
<1> QED
  BY <1>4, <1>10, <1>11 DEF Modes

\* Of the lock's state, what a step of t from one stage to another must change.
Moves(t) ==
  /\ \A u \in Tasks : u # t => stage'[u] = stage[u] /\ held'[u] = held[u]
  /\ held'[t] = Guards(t)' /\ held'[t] <= held[t]
  /\ writer' = (IF writer = t THEN Absent ELSE writer)
  /\ stage'[t] \in StageOf(t)

LEMMA MovesLock ==
  ASSUME TypeOK, LockInv, NEW t \in Tasks, ~Waiting(t), Moves(t),
         \/ queue' = queue /\ stage'[t] \notin {"insert", "remove"}
         \/ \E mode \in Modes : Ask(t, mode) /\ stage'[t] \in AskedAt(mode)
  PROVE  LockInv'
<1>1. /\ Once' /\ \A i \in 1 .. Len(queue') : stage'[queue'[i].task] \in AskedAt(queue'[i].mode)
      /\ \A u \in Tasks : u # t => (Waiting(u)' <=> Waiting(u))
      /\ ~Writes(t)'
  <2>0. queue \in Seq([task: Tasks, mode: Modes]) /\ Len(queue) \in Nat
    BY DEF TypeOK
  <2>1. ASSUME NEW i \in 1 .. Len(queue) PROVE queue[i].task \in Tasks /\ queue[i].task # t
    BY WaiterType DEF Waiting
  <2>2. CASE queue' = queue /\ stage'[t] \notin {"insert", "remove"}
    BY <2>1, <2>2 DEF LockInv, Once, Moves, Waiting, Writes
  <2>3. ASSUME NEW mode \in Modes, Ask(t, mode), stage'[t] \in AskedAt(mode)
        PROVE  /\ Once' /\ \A i \in 1 .. Len(queue') : stage'[queue'[i].task] \in AskedAt(queue'[i].mode)
               /\ \A u \in Tasks : u # t => (Waiting(u)' <=> Waiting(u))
               /\ ~Writes(t)'
    <3>1. /\ Len(queue') = Len(queue) + 1
          /\ \A i \in 1 .. Len(queue) : queue'[i] = queue[i]
          /\ queue'[Len(queue) + 1] = [task |-> t, mode |-> mode]
          /\ \A u \in Tasks : Waiting(u)' <=> Waiting(u) \/ u = t
      BY <2>3, AskQueue
    <3>2. \A i \in 1 .. Len(queue') :
            \/ i \in 1 .. Len(queue) /\ queue'[i] = queue[i]
            \/ i = Len(queue) + 1 /\ queue'[i].task = t /\ queue'[i].mode = mode
      BY <2>0, <3>1
    <3>3. Once'
      BY <2>1, <3>2 DEF LockInv, Once
    <3>4. \A i \in 1 .. Len(queue') : stage'[queue'[i].task] \in AskedAt(queue'[i].mode)
      BY <2>1, <2>3, <3>2 DEF LockInv, Moves
    <3> QED
      BY <3>1, <3>3, <3>4 DEF Writes
  <2> QED
    BY <2>2, <2>3
<1>2. \A u \in Tasks : u # t => Guards(u)' = Guards(u) /\ (Writes(u)' <=> Writes(u))
  BY <1>1 DEF Moves, Guards, Writes
<1>3. \A u \in Tasks : held'[u] = Guards(u)'
  BY <1>2 DEF LockInv, Moves
<1>4. \A u \in Tasks : writer' = u <=> Writes(u)'
  BY <1>1, <1>2, TaskNames DEF LockInv, Moves
<1>5. ASSUME writer' # Absent PROVE \A u \in Tasks : held'[u] = 0
  <2>1. \A u \in Tasks : held[u] = 0
    BY <1>5 DEF Moves, LockInv
  <2>2. held'[t] \in Nat /\ held'[t] <= 0
    BY <2>1 DEF Moves, Guards
  <2> QED
    BY <2>1, <2>2 DEF Moves
<1>6. \A u \in Tasks : stage'[u] \in StageOf(u)'
  BY DEF LockInv, Moves, StageOf
<1> QED
  BY <1>1, <1>3, <1>4, <1>5, <1>6 DEF LockInv

-----------------------------------------------------------------------------
(* The steps of the tasks *)

\* What a task has is granted: it waits no more, and its stage says what it holds.
LEMMA Granted ==
  ASSUME LockInv, NEW t \in Tasks
  PROVE  /\ held[t] = Guards(t)
         /\ stage[t] \in StageOf(t)
         /\ stage[t] \notin {"check", "unicast", "flood", "send", "lost", "insert", "remove"} => ~Waiting(t)
         /\ writer = t <=> Writes(t)
<1>1. ASSUME Waiting(t)
      PROVE  stage[t] \in {"check", "unicast", "flood", "send", "lost", "insert", "remove"}
  BY <1>1 DEF LockInv, Waiting, AskedAt
<1> QED
  BY <1>1 DEF LockInv

\* A step of t that changes its stage to `at` and what it holds by so much, and asks for nothing.
LEMMA ReleaseLock ==
  ASSUME TypeOK, LockInv, NEW t \in Tasks, NEW at \in StageOf(t), ~Waiting(t), GoesTo(t, at), queue' = queue,
         at \notin {"insert", "remove"},
         \A u \in Tasks : u # t => held'[u] = held[u],
         held'[t] = (IF at = "next" THEN 1 ELSE 0), held'[t] <= held[t],
         writer' = (IF writer = t THEN Absent ELSE writer),
         at \notin {"check", "unicast", "flood", "send", "lost"}
  PROVE  LockInv'
<1>1. stage'[t] = at /\ \A u \in Tasks : u # t => stage'[u] = stage[u]
  BY DEF GoesTo, TypeOK
<1>2. held'[t] = Guards(t)'
  BY <1>1 DEF Guards
<1> QED
  BY <1>1, <1>2, MovesLock DEF Moves

LEMMA AskLock ==
  ASSUME TypeOK, LockInv, NEW t \in Tasks, NEW at \in StageOf(t), ~Waiting(t), GoesTo(t, at),
         NEW mode \in Modes, Ask(t, mode), at \in AskedAt(mode),
         \A u \in Tasks : u # t => held'[u] = held[u],
         held'[t] = (IF at = "send" THEN 1 ELSE 0), held'[t] <= held[t],
         writer' = (IF writer = t THEN Absent ELSE writer)
  PROVE  LockInv'
<1>1. stage'[t] = at /\ \A u \in Tasks : u # t => stage'[u] = stage[u]
  BY DEF GoesTo, TypeOK
<1>2. Waiting(t)'
  BY AskQueue
<1>3. at # "next"
  BY DEF AskedAt
<1>4. held'[t] = Guards(t)'
  BY <1>1, <1>2, <1>3 DEF Guards
<1> QED
  BY <1>1, <1>4, MovesLock DEF Moves

\* What every step keeps.
LockKept == TypeOK' /\ LockInv'

LEMMA DropsReadMoves ==
  ASSUME TypeOK, NEW t \in Tasks, DropsRead(t)
  PROVE  held'[t] = held[t] - 1 /\ \A u \in Tasks : u # t => held'[u] = held[u]
BY DEF DropsRead, TypeOK

LEMMA AskType ==
  ASSUME TypeOK, NEW t \in Tasks, NEW mode \in Modes, Ask(t, mode)
  PROVE  queue' \in Seq([task: Tasks, mode: Modes])
BY AskQueue

LEMMA GoesToType ==
  ASSUME TypeOK, NEW t, NEW at \in Stages, GoesTo(t, at)
  PROVE  stage' \in [Tasks -> Stages]
BY DEF GoesTo, TypeOK

LEMMA ConnLock ==
  ASSUME TypeOK, LockInv, NEW c \in Conns, Handshake(c) \/ AskSlot(c) \/ TakeSlot(c) \/ Ends(c) \/ RemoveSession(c)
  PROVE  LockKept
<1>1. c \in Tasks /\ StageOf(c) = {"new", "check", "insert", "live", "remove", "gone"}
  BY TaskNames DEF StageOf
<1>2. held[c] = Guards(c) /\ (writer = c <=> Writes(c))
      /\ (stage[c] \notin {"check", "unicast", "flood", "send", "lost", "insert", "remove"} => ~Waiting(c))
  BY <1>1, Granted
<1>3. "read" \in Modes /\ "write" \in Modes /\ {"new", "check", "insert", "live", "remove", "gone"} \subseteq Stages
  BY DEF Modes, Stages
<1>4. CASE Handshake(c)
  <2>1. ~Waiting(c) /\ held[c] = 0 /\ ~Writes(c)
    BY <1>2, <1>4 DEF Handshake, Guards, Writes
  <2>2. LockInv'
    BY <1>1, <1>2, <1>3, <1>4, <2>1, AskLock DEF Handshake, AskedAt
  <2>3. TypeOK'
    BY <1>1, <1>3, <1>4, AskType, GoesToType DEF Handshake, TypeOK
  <2> QED
    BY <2>2, <2>3 DEF LockKept
<1>5. CASE AskSlot(c)
  <2>1. ~Waiting(c) /\ held[c] = 1 /\ ~Writes(c)
    BY <1>2, <1>5 DEF AskSlot, Has, Guards, Writes
  <2>2. held'[c] = 0 /\ \A u \in Tasks : u # c => held'[u] = held[u]
    BY <1>1, <1>5, <2>1, DropsReadMoves DEF AskSlot
  <2>3. LockInv'
    BY <1>1, <1>2, <1>3, <1>5, <2>1, <2>2, AskLock DEF AskSlot, AskedAt
  <2>4. held' \in [Tasks -> Nat]
    BY <1>1, <1>5, <2>1 DEF AskSlot, DropsRead, TypeOK
  <2>5. TypeOK'
    BY <1>1, <1>3, <1>5, <2>4, AskType, GoesToType DEF AskSlot, TypeOK
  <2> QED
    BY <2>3, <2>5 DEF LockKept
<1>6. CASE TakeSlot(c)
  <2>1. ~Waiting(c) /\ held[c] = 0 /\ Writes(c)
    BY <1>2, <1>6 DEF TakeSlot, Has, Guards, Writes
  <2>2. LockInv'
    BY <1>1, <1>2, <1>6, <2>1, ReleaseLock DEF TakeSlot
  <2>3. TypeOK'
    BY <1>3, <1>6, GoesToType, DataPlaneAssumption DEF TakeSlot, TypeOK
  <2> QED
    BY <2>2, <2>3 DEF LockKept
<1>7. CASE Ends(c)
  <2>1. ~Waiting(c) /\ held[c] = 0 /\ ~Writes(c)
    BY <1>2, <1>7 DEF Ends, Guards, Writes
  <2>2. LockInv'
    BY <1>1, <1>2, <1>3, <1>7, <2>1, AskLock DEF Ends, AskedAt
  <2>3. TypeOK'
    BY <1>1, <1>3, <1>7, AskType, GoesToType DEF Ends, TypeOK
  <2> QED
    BY <2>2, <2>3 DEF LockKept
<1>8. CASE RemoveSession(c)
  <2>1. ~Waiting(c) /\ held[c] = 0 /\ Writes(c)
    BY <1>2, <1>8 DEF RemoveSession, Has, Guards, Writes
  <2>2. LockInv'
    BY <1>1, <1>2, <1>8, <2>1, ReleaseLock DEF RemoveSession
  <2>3. TypeOK'
    BY <1>3, <1>8, GoesToType, DataPlaneAssumption DEF RemoveSession, TypeOK
  <2> QED
    BY <2>2, <2>3 DEF LockKept
<1> QED
  BY <1>4, <1>5, <1>6, <1>7, <1>8

LEMMA LoopLock ==
  ASSUME TypeOK, LockInv, LoopStep
  PROVE  LockKept
<1>1. Loop \in Tasks /\ StageOf(Loop) = {"idle", "lost"}
  BY TaskNames DEF StageOf
<1>2. held[Loop] = Guards(Loop) /\ (writer = Loop <=> Writes(Loop))
      /\ (stage[Loop] \notin {"check", "unicast", "flood", "send", "lost", "insert", "remove"} => ~Waiting(Loop))
  BY <1>1, Granted
<1>3. "read" \in Modes /\ "idle" \in Stages /\ "lost" \in Stages
  BY DEF Modes, Stages
<1>4. ASSUME NEW c \in Conns, Disconnected(c) PROVE LockKept
  <2>1. ~Waiting(Loop) /\ held[Loop] = 0 /\ ~Writes(Loop)
    BY <1>2, <1>4 DEF Disconnected, Guards, Writes
  <2>2. LockInv'
    BY <1>1, <1>2, <1>3, <1>4, <2>1, AskLock DEF Disconnected, AskedAt
  <2>3. TypeOK'
    BY <1>1, <1>3, <1>4, AskType, GoesToType DEF Disconnected, TypeOK
  <2> QED
    BY <2>2, <2>3 DEF LockKept
<1>5. CASE Evict
  <2>1. ~Waiting(Loop) /\ held[Loop] = 1 /\ ~Writes(Loop)
    BY <1>2, <1>5 DEF Evict, Has, Guards, Writes
  <2>2. held'[Loop] = 0 /\ \A u \in Tasks : u # Loop => held'[u] = held[u]
    BY <1>1, <1>5, <2>1, DropsReadMoves DEF Evict
  <2>3. LockInv'
    BY <1>1, <1>2, <1>5, <2>1, <2>2, ReleaseLock DEF Evict
  <2>4. held' \in [Tasks -> Nat]
    BY <1>1, <1>5, <2>1 DEF Evict, DropsRead, TypeOK
  <2>5. learned' \in [Macs -> Remotes \cup {Absent}]
    BY <1>5 DEF Evict, TypeOK
  <2>6. TypeOK'
    BY <1>1, <1>3, <1>5, <2>4, <2>5, GoesToType DEF Evict, TypeOK
  <2> QED
    BY <2>3, <2>6 DEF LockKept
<1> QED
  BY <1>4, <1>5 DEF LoopStep

\* The outbound task releases, while a connection it dialed asks for the lock.
LEMMA DialLock ==
  ASSUME TypeOK, LockInv, NEW c \in Conns, stage[Outbound] = "unicast", ~Waiting(Outbound),
         stage[c] = "new", DropsRead(Outbound), Ask(c, "read"), writer' = writer,
         stage' = [stage EXCEPT ![Outbound] = "idle", ![c] = "check"]
  PROVE  LockInv' /\ stage' \in [Tasks -> Stages] /\ held' \in [Tasks -> Nat]
<1>1. /\ Outbound \in Tasks /\ c \in Tasks /\ c # Outbound /\ "read" \in Modes
      /\ StageOf(c) = {"new", "check", "insert", "live", "remove", "gone"}
      /\ StageOf(Outbound) = {"idle", "unicast", "flood", "next", "send"}
  BY TaskNames DEF StageOf, Modes
<1>2. /\ stage'[Outbound] = "idle" /\ stage'[c] = "check"
      /\ \A u \in Tasks : u # c /\ u # Outbound => stage'[u] = stage[u]
      /\ stage' \in [Tasks -> Stages]
  BY <1>1 DEF TypeOK, Stages
<1>3. held[Outbound] = 1 /\ held[c] = 0 /\ ~Waiting(c) /\ writer # c /\ writer # Outbound
  BY <1>1, Granted DEF Guards, Writes
<1>4. /\ held'[Outbound] = 0 /\ \A u \in Tasks : u # Outbound => held'[u] = held[u]
      /\ held' \in [Tasks -> Nat]
  BY <1>1, <1>3 DEF DropsRead, TypeOK
<1>5. /\ Len(queue) \in Nat /\ Len(queue') = Len(queue) + 1
      /\ \A i \in 1 .. Len(queue) : queue'[i] = queue[i]
      /\ queue'[Len(queue) + 1] = [task |-> c, mode |-> "read"]
      /\ \A u \in Tasks : Waiting(u)' <=> Waiting(u) \/ u = c
  <2>1. Len(queue) \in Nat
    BY DEF TypeOK
  <2> QED
    BY <1>1, <2>1, AskQueue
<1>6. \A i \in 1 .. Len(queue) : queue[i].task \in Tasks /\ queue[i].task # c /\ queue[i].task # Outbound
  BY <1>3, WaiterType DEF Waiting
<1>7. \A i \in 1 .. Len(queue') :
        \/ i \in 1 .. Len(queue) /\ queue'[i] = queue[i]
        \/ i = Len(queue) + 1 /\ queue'[i].task = c /\ queue'[i].mode = "read"
  BY <1>5
<1>8. Once'
  BY <1>6, <1>7 DEF LockInv, Once
<1>9. \A i \in 1 .. Len(queue') : stage'[queue'[i].task] \in AskedAt(queue'[i].mode)
  BY <1>2, <1>6, <1>7 DEF LockInv, AskedAt
<1>10. ASSUME NEW u \in Tasks PROVE held'[u] = Guards(u)' /\ (writer' = u <=> Writes(u)')
  <2>1. CASE u = Outbound
    BY <1>1, <1>2, <1>3, <1>4, <2>1 DEF Guards, Writes
  <2>2. CASE u = c
    BY <1>1, <1>2, <1>3, <1>4, <1>5, <2>2 DEF Guards, Writes
  <2>3. CASE u # Outbound /\ u # c
    <3>1. stage'[u] = stage[u] /\ held'[u] = held[u] /\ (Waiting(u)' <=> Waiting(u))
      BY <1>2, <1>4, <1>5, <2>3
    <3> QED
      BY <3>1 DEF Guards, Writes, LockInv
  <2> QED
    BY <2>1, <2>2, <2>3
<1>11. writer' # Absent => \A u \in Tasks : held'[u] = 0
  BY <1>1, <1>3, <1>4 DEF LockInv
<1>12. \A u \in Tasks : stage'[u] \in StageOf(u)'
  BY <1>1, <1>2 DEF LockInv, StageOf
<1> QED
  BY <1>2, <1>4, <1>8, <1>9, <1>10, <1>11, <1>12 DEF LockInv

LEMMA ResolvedType == ASSUME TypeOK, NEW dst PROVE Resolved(dst) \in Remotes \cup {Absent}
BY DEF TypeOK, Resolved

LEMMA SendUnicastLock ==
  ASSUME TypeOK, LockInv, SendUnicast
  PROVE  LockKept
<1>1. Outbound \in Tasks /\ StageOf(Outbound) = {"idle", "unicast", "flood", "next", "send"} /\ "idle" \in Stages
  BY TaskNames DEF StageOf, Stages
<1>2. /\ stage[Outbound] = "unicast" /\ ~Waiting(Outbound) /\ DropsRead(Outbound) /\ todo' = {}
      /\ UNCHANGED <<peers, learned, lost, writer, event>>
  BY DEF SendUnicast, Has
<1>3. held[Outbound] = 1 /\ writer # Outbound
  BY <1>1, <1>2, Granted DEF Guards, Writes
<1>4. held'[Outbound] = 0 /\ \A u \in Tasks : u # Outbound => held'[u] = held[u]
  BY <1>1, <1>2, <1>3, DropsReadMoves
<1>5. CASE GoesTo(Outbound, "idle") /\ UNCHANGED queue
  <2>1. LockInv'
    BY <1>1, <1>2, <1>3, <1>4, <1>5, ReleaseLock
  <2>2. held' \in [Tasks -> Nat]
    BY <1>1, <1>2, <1>3 DEF DropsRead, TypeOK
  <2>3. TypeOK'
    BY <1>1, <1>2, <1>5, <2>2, GoesToType DEF TypeOK
  <2> QED
    BY <2>1, <2>3 DEF LockKept
<1>6. ASSUME NEW c \in Conns, stage[c] = "new", Ask(c, "read"),
             stage' = [stage EXCEPT ![Outbound] = "idle", ![c] = "check"]
      PROVE  LockKept
  <2>1. LockInv' /\ stage' \in [Tasks -> Stages] /\ held' \in [Tasks -> Nat]
    BY <1>2, <1>6, DialLock
  <2>2. c \in Tasks /\ "read" \in Modes
    BY TaskNames DEF Modes
  <2>3. TypeOK'
    BY <1>2, <1>6, <2>1, <2>2, AskType DEF TypeOK
  <2> QED
    BY <2>1, <2>3 DEF LockKept
<1> QED
  BY <1>5, <1>6 DEF SendUnicast

LEMMA OutboundLock ==
  ASSUME TypeOK, LockInv, OutboundStep \/ \E dst \in Macs \cup {Group} : Unicast(dst) \/ Flood(dst)
  PROVE  LockKept
<1>1. Outbound \in Tasks /\ StageOf(Outbound) = {"idle", "unicast", "flood", "next", "send"}
      /\ {"idle", "unicast", "flood", "next", "send"} \subseteq Stages /\ "read" \in Modes
  BY TaskNames DEF StageOf, Stages, Modes
<1>2. held[Outbound] = Guards(Outbound) /\ writer # Outbound
      /\ (stage[Outbound] \notin {"check", "unicast", "flood", "send", "lost", "insert", "remove"} => ~Waiting(Outbound))
  BY <1>1, Granted DEF Writes
<1>3. ASSUME NEW dst \in Macs \cup {Group}, Unicast(dst) PROVE LockKept
  <2>1. ~Waiting(Outbound) /\ held[Outbound] = 0
    BY <1>2, <1>3 DEF Unicast, Guards
  <2>2. LockInv'
    BY <1>1, <1>2, <1>3, <2>1, AskLock DEF Unicast, AskedAt
  <2>3. todo' \subseteq Remotes
    BY <1>3, ResolvedType DEF Unicast
  <2>4. TypeOK'
    BY <1>1, <1>3, <2>3, AskType, GoesToType DEF Unicast, TypeOK
  <2> QED
    BY <2>2, <2>4 DEF LockKept
<1>4. ASSUME NEW dst \in Macs \cup {Group}, Flood(dst) PROVE LockKept
  <2>1. ~Waiting(Outbound) /\ held[Outbound] = 0
    BY <1>2, <1>4 DEF Flood, Guards
  <2>2. LockInv'
    BY <1>1, <1>2, <1>4, <2>1, AskLock DEF Flood, AskedAt
  <2>3. TypeOK'
    BY <1>1, <1>4, AskType, GoesToType DEF Flood, TypeOK
  <2> QED
    BY <2>2, <2>3 DEF LockKept
<1>5. CASE BeginFlood
  <2>1. ~Waiting(Outbound) /\ held[Outbound] = 1 /\ UNCHANGED lockVars /\ GoesTo(Outbound, "next")
    BY <1>2, <1>5 DEF BeginFlood, Has, Guards
  <2>2. LockInv'
    BY <1>1, <1>2, <2>1, ReleaseLock DEF lockVars
  <2>3. TypeOK'
    BY <1>1, <1>5, GoesToType DEF BeginFlood, TypeOK, lockVars
  <2> QED
    BY <2>2, <2>3 DEF LockKept
<1>6. ASSUME NEW r \in Remotes, NextRemote(r) PROVE LockKept
  <2>1. ~Waiting(Outbound) /\ held[Outbound] = 1
    BY <1>2, <1>6 DEF NextRemote, Guards
  <2>2. LockInv'
    BY <1>1, <1>2, <1>6, <2>1, AskLock DEF NextRemote, AskedAt
  <2>3. TypeOK'
    BY <1>1, <1>6, AskType, GoesToType DEF NextRemote, TypeOK
  <2> QED
    BY <2>2, <2>3 DEF LockKept
<1>7. CASE SendFlooded
  <2>1. ~Waiting(Outbound) /\ held[Outbound] = 2
    BY <1>2, <1>7 DEF SendFlooded, Has, Guards
  <2>2. held'[Outbound] = 1 /\ \A u \in Tasks : u # Outbound => held'[u] = held[u]
    BY <1>1, <1>7, <2>1, DropsReadMoves DEF SendFlooded
  <2>3. LockInv'
    BY <1>1, <1>2, <1>7, <2>1, <2>2, ReleaseLock DEF SendFlooded
  <2>4. held' \in [Tasks -> Nat]
    BY <1>1, <1>7, <2>1 DEF SendFlooded, DropsRead, TypeOK
  <2>5. TypeOK'
    BY <1>1, <1>7, <2>4, GoesToType DEF SendFlooded, TypeOK
  <2> QED
    BY <2>3, <2>5 DEF LockKept
<1>8. CASE EndFlood
  <2>1. ~Waiting(Outbound) /\ held[Outbound] = 1
    BY <1>2, <1>8 DEF EndFlood, Guards
  <2>2. held'[Outbound] = 0 /\ \A u \in Tasks : u # Outbound => held'[u] = held[u]
    BY <1>1, <1>8 DEF EndFlood, TypeOK
  <2>3. LockInv'
    BY <1>1, <1>2, <1>8, <2>1, <2>2, ReleaseLock DEF EndFlood
  <2>4. held' \in [Tasks -> Nat]
    BY <1>1, <1>8 DEF EndFlood, TypeOK
  <2>5. TypeOK'
    BY <1>1, <1>8, <2>4, GoesToType DEF EndFlood, TypeOK
  <2> QED
    BY <2>3, <2>5 DEF LockKept
<1> QED
  BY <1>3, <1>4, <1>5, <1>6, <1>7, <1>8, SendUnicastLock DEF OutboundStep

LEMMA IdleLock ==
  ASSUME TypeOK, LockInv, UNCHANGED <<lockVars, stage>>
  PROVE  LockInv'
BY DEF LockInv, Once, Guards, Writes, Waiting, StageOf, lockVars

LEMMA LockStep ==
  ASSUME TypeOK, LockInv, [Next]_vars
  PROVE  LockKept
<1>1. CASE Grant
  BY <1>1, GrantLock DEF LockKept
<1>2. ASSUME NEW c \in Conns, SessionStep(c) \/ Handshake(c) \/ Ends(c) PROVE LockKept
  BY <1>2, ConnLock DEF SessionStep
<1>3. ASSUME NEW c \in Conns, NEW mac \in Macs, Learn(c, mac) PROVE LockKept
  <2>1. learned' \in [Macs -> Remotes \cup {Absent}]
    BY <1>3, DataPlaneAssumption DEF Learn, TypeOK
  <2> QED
    BY <1>3, <2>1, IdleLock DEF Learn, LockKept, TypeOK, lockVars
<1>4. ASSUME NEW mac \in Macs, EvictStale(mac) PROVE LockKept
  <2>1. learned' \in [Macs -> Remotes \cup {Absent}]
    BY <1>4 DEF EvictStale, TypeOK
  <2> QED
    BY <1>4, <2>1, IdleLock DEF EvictStale, LockKept, TypeOK, lockVars
<1>5. CASE UNCHANGED vars
  BY <1>5, IdleLock DEF vars, lockVars, LockKept, TypeOK
<1> QED
  BY <1>1, <1>2, <1>3, <1>4, <1>5, LoopLock, OutboundLock DEF Next, Environment

\* Spec => []TypeOK: every variable keeps its type.
THEOREM DataPlaneTypeCorrect == Spec => []TypeOK
<1>1. Init => TypeOK /\ LockInv
  BY LockInit
<1>2. TypeOK /\ LockInv /\ [Next]_vars => (TypeOK /\ LockInv)'
  BY LockStep DEF LockKept
<1> QED
  BY <1>1, <1>2, PTL DEF Spec

(* Nobody waits for the lock of the session map while holding it, but the  *)
(* outbound task between two frames of a flood (main.rs:882-889).          *)
THEOREM OnlyFloodsHoldAndWaitCorrect == Spec => []OnlyFloodsHoldAndWait
<1>1. TypeOK /\ LockInv => OnlyFloodsHoldAndWait
  <2> SUFFICES ASSUME TypeOK, LockInv, NEW t \in Tasks, Waiting(t), held[t] > 0 \/ writer = t
               PROVE  t = Outbound /\ stage[t] = "send"
    BY DEF OnlyFloodsHoldAndWait
  <2>1. held[t] = Guards(t) /\ (writer = t <=> Writes(t)) /\ stage[t] \in StageOf(t) /\ stage[t] # "next"
    BY Granted
  <2>2. stage[t] = "send"
    BY <2>1 DEF Guards, Writes
  <2> QED
    BY <2>1, <2>2 DEF StageOf, Tasks
<1>2. Init => TypeOK /\ LockInv
  BY LockInit
<1>3. TypeOK /\ LockInv /\ [Next]_vars => (TypeOK /\ LockInv)'
  BY LockStep DEF LockKept
<1> QED
  BY <1>1, <1>2, <1>3, PTL DEF Spec

-----------------------------------------------------------------------------
(* A flood sees one map *)

\* Only a task that holds the write guard changes the map, and then nobody floods.
LEMMA MapStep ==
  ASSUME TypeOK, LockInv, [Next]_vars, stage[Outbound] \in {"next", "send"}
  PROVE  peers' = peers
<1>1. Outbound \in Tasks /\ Conns \subseteq Tasks
  BY TaskNames
<1>2. held[Outbound] # 0
  BY <1>1, Granted DEF Guards
<1>3. writer = Absent
  BY <1>1, <1>2 DEF LockInv
<1>4. ASSUME NEW c \in Conns PROVE ~TakeSlot(c) /\ ~RemoveSession(c)
  <2>1. ~Writes(c)
    BY <1>1, <1>3, Granted, TaskNames
  <2> QED
    BY <2>1 DEF TakeSlot, RemoveSession, Has, Writes
<1>5. ASSUME Next PROVE peers' = peers
  <2>1. CASE Grant \/ LoopStep
    BY <2>1 DEF Grant, LoopStep, Disconnected, Evict
  <2>2. CASE OutboundStep
    BY <2>2 DEF OutboundStep, SendUnicast, BeginFlood, SendFlooded, EndFlood, NextRemote
  <2>3. CASE Environment
    BY <2>3 DEF Environment, Handshake, Ends, Learn, EvictStale, Unicast, Flood
  <2>4. ASSUME NEW c \in Conns, SessionStep(c) PROVE peers' = peers
    BY <1>4, <2>4 DEF SessionStep, AskSlot
  <2> QED
    BY <1>5, <2>1, <2>2, <2>3, <2>4 DEF Next
<1> QED
  BY <1>5 DEF vars

(* While a flood is under way no session comes or goes, so that every      *)
(* lookup of send_frame() finds the session of the loop (main.rs:882-889). *)
THEOREM FloodSeesOneMapCorrect == Spec => FloodSeesOneMap
<1>1. Init => TypeOK /\ LockInv
  BY LockInit
<1>2. TypeOK /\ LockInv /\ [Next]_vars => (TypeOK /\ LockInv)'
  BY LockStep DEF LockKept
<1>3. TypeOK /\ LockInv /\ [Next]_vars => [stage[Outbound] \in {"next", "send"} => peers' = peers]_vars
  BY MapStep
<1> QED
  BY <1>1, <1>2, <1>3, PTL DEF Spec, FloodSeesOneMap
=============================================================================
