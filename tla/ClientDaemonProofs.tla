------------------------ MODULE ClientDaemonProofs -------------------------
(***************************************************************************)
(* Theorems about the client daemon, for any number of networks, REST      *)
(* requests, addresses and configurations, however handlers overlap: its   *)
(* type, that everything it does to the network table is what NetworkStore *)
(* says, so what the table keeps, and that a controller decides over       *)
(* membership through a stale clone only.                                  *)
(***************************************************************************)
EXTENDS ClientDaemon, NetworkStoreProofs

-----------------------------------------------------------------------------
(* The interface keeps its type *)

Iface == [ips: SUBSET (Addresses \X Lens), routes: SUBSET Targets]

LEMMA AssignedType ==
  ASSUME NEW ips \in SUBSET Addresses, NEW routes \in SUBSET Targets
  PROVE  Assigned(ips, routes) \subseteq Addresses \X Lens
<1>1. \A a \in Addresses : LanLen[routes][a] \in Lens
  BY DaemonAssumption
<1> QED
  BY <1>1 DEF Assigned

LEMMA AllowedType ==
  ASSUME NEW routes \in SUBSET Targets, NEW r
  PROVE  Allowed(routes, r) \subseteq Targets
BY DEF Allowed

\* Every command on the interface keeps its type.
LEMMA CommandType ==
  ASSUME NEW i \in Iface
  PROVE  /\ \A cidrs \in SUBSET (Addresses \X Lens) : WithAddresses(i, cidrs) \in Iface
         /\ \A targets \in SUBSET Targets : WithRoutes(i, targets) \in Iface
         /\ \A ips : WithoutAddresses(i, ips) \in Iface
         /\ \A targets : WithoutRoutes(i, targets) \in Iface
BY DEF WithAddresses, WithRoutes, WithoutAddresses, WithoutRoutes, Iface

LEMMA TornDownType ==
  ASSUME NEW i \in Iface, NEW r
  PROVE  TornDown(i, r) \in Iface
BY CommandType DEF TornDown

LEMMA ReconciledType ==
  ASSUME NEW i \in Iface, NEW prev \in Network, NEW next \in Network
  PROVE  Reconciled(i, prev, next) \in Iface
<1> DEFINE newIps == {a \in next.ips : a \notin prev.ips \/ prev.status # "Ok"}
           newRoutes == {x \in next.routes : x \notin prev.routes \/ prev.status # "Ok"}
           trimmed == WithoutAddresses(i, prev.ips \ next.ips)
           addressed == WithAddresses(trimmed, Assigned(newIps, next.routes))
           unrouted == WithoutRoutes(addressed, prev.routes \ next.routes)
           grown == WithRoutes(unrouted, Allowed(newRoutes, next))
<1>1. newIps \in SUBSET Addresses /\ next.routes \in SUBSET Targets /\ newRoutes \in SUBSET Targets
  BY DEF Network
<1> HIDE DEF newIps, newRoutes
<1>2. Assigned(newIps, next.routes) \subseteq Addresses \X Lens /\ Allowed(newRoutes, next) \subseteq Targets
  BY <1>1, AssignedType, AllowedType
<1>3. grown \in Iface
  <2>1. trimmed \in Iface
    BY CommandType
  <2>2. addressed \in Iface
    BY <1>2, <2>1, CommandType
  <2>3. unrouted \in Iface
    BY <2>2, CommandType
  <2> QED
    BY <1>2, <2>3, CommandType
<1>4. TornDown(i, prev) \in Iface
  BY TornDownType
<1>5. Reconciled(i, prev, next) \in {grown, TornDown(i, prev), i}
  BY DEF Reconciled, newIps, newRoutes
<1> QED
  BY <1>3, <1>4, <1>5

-----------------------------------------------------------------------------
(* The invariant *)

\* DaemonTypeOK without the table's part.
DaemonTypes ==
  /\ config \in [Networks -> Config]
  /\ requests \subseteq Request
  /\ answers \subseteq Answered
  /\ hand \in [Tasks -> Local \cup {Absent}]
  /\ iface \in Iface
  /\ boot \in [stage: {"done", "list", "configure"}, nets: [Networks -> Network \cup {Absent}]]

\* r is the record old with some controller's verdict in it.
Verdict(old, r) ==
  \E s \in {"Ok", "AccessDenied"}, ips \in SUBSET Addresses, routes \in SUBSET Targets :
     r = [old EXCEPT !.status = s, !.ips = ips, !.routes = routes]

\* What a handler stores back is the clone it read plus a verdict; what it applies a client sent.
Held(t) ==
  hand[t] # Absent =>
    /\ hand[t].upd \in Updates \cup {Absent}
    /\ pc[t] = "got" \/ hand[t].stage = "reconcile"
         => hand[t].prev \in Network /\ hand[t].next \in Network
    /\ pc[t] = "got" => Verdict(arg[t].net, hand[t].next)

(* Why the handlers only do to the table what NetworkStore lets them do.   *)
DaemonInv == TypeOK /\ DaemonTypes /\ \A t \in Tasks : Held(t)

LEMMA TypesSplit == DaemonTypeOK <=> TypeOK /\ DaemonTypes
BY DEF DaemonTypeOK, DaemonTypes, Iface

LEMMA AnswerIsVerdict ==
  ASSUME NEW r \in Network, NEW c \in Config
  PROVE  /\ QuicApplied(r, c) \in Network /\ Verdict(r, QuicApplied(r, c))
         /\ UdpApplied(r, c) \in Network /\ Verdict(r, UdpApplied(r, c))
<1> DEFINE s == IF c.authorized THEN "Ok" ELSE "AccessDenied"
           ips == IF c.ips = {} THEN r.ips ELSE c.ips
<1>1. s \in {"Ok", "AccessDenied"} /\ s \in Status
  BY DEF Status
<1>2. c.ips \in SUBSET Addresses /\ c.routes \in SUBSET Targets
  BY DEF Config
<1>3. ips \in SUBSET Addresses /\ r.routes \in SUBSET Targets
  BY <1>2 DEF Network
<1>4. QuicApplied(r, c) = [r EXCEPT !.status = s, !.ips = c.ips, !.routes = c.routes]
  BY DEF QuicApplied
<1>5. UdpApplied(r, c) = [r EXCEPT !.status = s, !.ips = ips, !.routes = r.routes]
  BY DEF UdpApplied, Network
<1> HIDE DEF s, ips
<1>6. Verdict(r, QuicApplied(r, c)) /\ Verdict(r, UdpApplied(r, c))
  BY <1>1, <1>2, <1>3, <1>4, <1>5 DEF Verdict
<1>7. QuicApplied(r, c) \in Network /\ UdpApplied(r, c) \in Network
  BY <1>1, <1>2, <1>3, <1>4, <1>5 DEF Network
<1> QED
  BY <1>6, <1>7

\* Other tasks are where they were.
OthersStay(t) ==
  \A u \in Tasks : u # t => pc'[u] = pc[u] /\ arg'[u] = arg[u] /\ hand'[u] = hand[u]

LEMMA HeldFrame ==
  ASSUME \A u \in Tasks : Held(u), NEW t \in Tasks, OthersStay(t), Held(t)'
  PROVE  \A u \in Tasks : Held(u)'
<1> SUFFICES ASSUME NEW u \in Tasks PROVE Held(u)'
  OBVIOUS
<1>1. CASE u = t
  BY <1>1
<1>2. CASE u # t
  BY <1>2 DEF OthersStay, Held
<1> QED
  BY <1>1, <1>2

\* Tasks that drive the client are tasks of the table.
LEMMA DriverTasks == QuicTask \in Tasks /\ UdpTask \in Tasks /\ RestTasks \subseteq Tasks
BY DaemonAssumption

\* How a call on the table moves the tasks.
LEMMA StoreMoves ==
  ASSUME TypeOK, NEW t \in Tasks, NEW n \in Networks, NEW r, Store(t, n, r)
  PROVE  /\ \A u \in Tasks : u # t => pc'[u] = pc[u] /\ arg'[u] = arg[u]
         /\ pc'[t] = "open"
BY DEF Store, Goto, TypeOK

LEMMA OperationMoves ==
  ASSUME TypeOK, NEW t \in Tasks, NEW n \in Networks, Operation(t, n)
  PROVE  /\ \A u \in Tasks : u # t => pc'[u] = pc[u] /\ arg'[u] = arg[u]
         /\ ~Get(t, n) => pc'[t] # "got"
<1>1. CASE Get(t, n)
  BY <1>1 DEF Get, Goto, TypeOK
<1>2. CASE Leave(t, n)
  BY <1>2 DEF Leave, Goto, TypeOK
<1>3. ASSUME NEW r, Store(t, n, r)
      PROVE  /\ \A u \in Tasks : u # t => pc'[u] = pc[u] /\ arg'[u] = arg[u]
             /\ pc'[t] # "got"
  BY <1>3, StoreMoves
<1> QED
  BY <1>1, <1>2, <1>3 DEF Operation, Join, Disconnect, Connect, UpdateSettings

LEMMA PersistMoves ==
  ASSUME TypeOK, NEW t \in Tasks, Persist(t) \/ Delete(t)
  PROVE  /\ \A u \in Tasks : u # t => pc'[u] = pc[u] /\ arg'[u] = arg[u]
         /\ pc'[t] # "got"
BY DEF Persist, Delete, OpenTmp, Truncated, WriteTmp, HasOpen, RenameTmp, MarkConf, RemoveJson, RemoveConf,
       Return, Goto, TypeOK

\* What every step of the daemon keeps.
Kept == [Next]_storeVars /\ DaemonTypes' /\ \A u \in Tasks : Held(u)'

LEMMA EnvironmentKept ==
  ASSUME DaemonInv, Environment
  PROVE  Kept
<1>1. UNCHANGED <<storeVars, hand, iface, boot>>
  BY DEF Environment, Serve, LoseRequest, LoseAnswer, Administer
<1>2. config' \in [Networks -> Config]
  BY DaemonAssumption DEF Environment, Serve, LoseRequest, LoseAnswer, Administer, DaemonInv, DaemonTypes
<1>3. requests' \subseteq Request
  BY DEF Environment, Serve, LoseRequest, LoseAnswer, Administer, DaemonInv, DaemonTypes
<1>4. answers' \subseteq Answered
  <2>1. ASSUME NEW q \in requests, Serve(q) PROVE answers' \subseteq Answered
    <3>1. q \in Request /\ config[q.nwid] \in Config
      BY DEF DaemonInv, DaemonTypes, Request
    <3>2. [nwid |-> q.nwid, via |-> q.via, cfg |-> config[q.nwid]] \in Answered
      BY <3>1 DEF Request, Answered
    <3> QED
      BY <2>1, <3>2 DEF Serve, DaemonInv, DaemonTypes
  <2> QED
    BY <2>1 DEF Environment, LoseRequest, LoseAnswer, Administer, DaemonInv, DaemonTypes
<1>5. \A u \in Tasks : Held(u)'
  BY <1>1 DEF DaemonInv, Held, storeVars
<1> QED
  BY <1>1, <1>2, <1>3, <1>4, <1>5 DEF Kept, DaemonInv, DaemonTypes

LEMMA PollKept ==
  ASSUME DaemonInv, NEW n \in Networks, NEW via \in Transports, Poll(n, via)
  PROVE  Kept
<1>1. UNCHANGED <<storeVars, config, answers, hand, iface, boot>>
  BY DEF Poll
<1>2. requests' \subseteq Request
  BY DaemonAssumption DEF Poll, Request, DaemonInv, DaemonTypes
<1>3. \A u \in Tasks : Held(u)'
  BY <1>1 DEF DaemonInv, Held, storeVars
<1> QED
  BY <1>1, <1>2, <1>3 DEF Kept, DaemonInv, DaemonTypes

LEMMA IgnoreKept ==
  ASSUME DaemonInv, NEW t \in Tasks, NEW via, NEW a \in answers, Ignore(t, via, a)
  PROVE  Kept
<1>1. UNCHANGED <<storeVars, config, requests, hand, iface, boot>> /\ answers' \subseteq answers
  BY DEF Ignore
<1>2. \A u \in Tasks : Held(u)'
  BY <1>1 DEF DaemonInv, Held, storeVars
<1> QED
  BY <1>1, <1>2 DEF Kept, DaemonInv, DaemonTypes

LEMMA ReceiveKept ==
  ASSUME DaemonInv, NEW t \in Tasks, NEW via, NEW a \in answers,
         NEW next \in Network, Verdict(mem[a.nwid], next), Receive(t, via, a, next)
  PROVE  Kept
<1>1. a.nwid \in Networks
  BY DEF DaemonInv, DaemonTypes, Answered
<1>2. mem[a.nwid] \in Network
  BY <1>1 DEF Receive, Get, DaemonInv, TypeOK
<1>3. Next
  BY <1>1 DEF Receive, Next, Operation
<1> DEFINE l == [stage |-> "apply", nwid |-> a.nwid, prev |-> mem[a.nwid], next |-> next, upd |-> Absent]
<1>4. l \in Local
  BY <1>1, <1>2 DEF Local, Stages
<1>5. hand' = [hand EXCEPT ![t] = l]
  BY DEF Receive, Hold
<1>6. DaemonTypes'
  BY <1>4, <1>5 DEF Receive, DaemonInv, DaemonTypes
<1>7. OthersStay(t)
  BY <1>1, <1>5, OperationMoves DEF OthersStay, Receive, Operation, DaemonInv, DaemonTypes
<1>8. arg'[t].net = mem[a.nwid]
  BY DEF Receive, Get, DaemonInv, TypeOK
<1>9. hand'[t] = l /\ l.prev = mem[a.nwid] /\ l.next = next /\ l.upd = Absent
  BY <1>5 DEF DaemonInv, DaemonTypes
<1> HIDE DEF l
<1>10. hand'[t].prev = mem[a.nwid] /\ hand'[t].next = next /\ hand'[t].upd = Absent
  BY <1>9
<1>11. Verdict(arg'[t].net, hand'[t].next)
  BY <1>8, <1>10
<1>12. Verdict(arg[t].net, hand[t].next)'
  BY <1>11 DEF Verdict
<1>13. Held(t)'
  BY <1>2, <1>10, <1>12 DEF Held
<1> QED
  BY <1>3, <1>6, <1>7, <1>13, HeldFrame DEF Kept, DaemonInv

LEMMA HoldMoves ==
  ASSUME DaemonTypes, NEW t \in Tasks, NEW l \in Local \cup {Absent}, Hold(t, l)
  PROVE  /\ hand' \in [Tasks -> Local \cup {Absent}]
         /\ hand'[t] = l
         /\ \A u \in Tasks : u # t => hand'[u] = hand[u]
BY DEF Hold, DaemonTypes

LEMMA StageMoves ==
  ASSUME DaemonTypes, NEW t \in Tasks, hand[t] # Absent, NEW stage \in Stages, NextStage(t, stage)
  PROVE  /\ hand' \in [Tasks -> Local \cup {Absent}]
         /\ hand'[t] # Absent
         /\ hand'[t].stage = stage
         /\ hand'[t].nwid = hand[t].nwid
         /\ hand'[t].prev = hand[t].prev
         /\ hand'[t].next = hand[t].next
         /\ hand'[t].upd = hand[t].upd
         /\ \A u \in Tasks : u # t => hand'[u] = hand[u]
<1>1. hand[t] \in Local
  BY DEF DaemonTypes
<1>2. hand' = [hand EXCEPT ![t] = [hand[t] EXCEPT !.stage = stage]]
  BY DEF NextStage
<1>3. [hand[t] EXCEPT !.stage = stage] \in Local
  BY <1>1 DEF Local
<1>4. hand'[t] = [hand[t] EXCEPT !.stage = stage]
  BY <1>2 DEF DaemonTypes
<1>5. hand'[t] \in Local /\ hand'[t] # Absent
  BY <1>3, <1>4, DaemonAssumption
<1> QED
  BY <1>1, <1>2, <1>3, <1>4, <1>5 DEF Local, DaemonTypes

\* A call on the table by a handler, which goes on with l or with its next stage.
LEMMA CallKept ==
  ASSUME DaemonInv, NEW t \in Tasks, NEW n \in Networks, Operation(t, n), ~Get(t, n),
         DaemonTypes', \A u \in Tasks : u # t => hand'[u] = hand[u],
         hand'[t] # Absent => hand'[t].upd \in Updates \cup {Absent},
         hand'[t] # Absent => hand'[t].stage # "reconcile"
  PROVE  Kept
<1>1. pc'[t] # "got" /\ OthersStay(t)
  BY OperationMoves DEF OthersStay, DaemonInv
<1>2. Held(t)'
  BY <1>1 DEF Held
<1>3. Next
  BY DEF Next
<1> QED
  BY <1>1, <1>2, <1>3, HeldFrame DEF Kept, DaemonInv

\* A step of a handler that leaves the table alone.
LEMMA LocalKept ==
  ASSUME DaemonInv, NEW t \in Tasks, pc[t] # "got", UNCHANGED storeVars,
         DaemonTypes', \A u \in Tasks : u # t => hand'[u] = hand[u],
         hand'[t] # Absent => hand'[t].upd \in Updates \cup {Absent},
         hand'[t] # Absent => hand'[t].stage # "reconcile"
  PROVE  Kept
<1>1. pc'[t] # "got" /\ OthersStay(t)
  BY DEF OthersStay, storeVars
<1>2. Held(t)'
  BY <1>1 DEF Held
<1> QED
  BY <1>1, <1>2, HeldFrame DEF Kept, DaemonInv

-----------------------------------------------------------------------------
(* The handlers of answers *)

LEMMA QuicReceiveKept == ASSUME DaemonInv, NEW a \in answers, QuicReceive(a) PROVE Kept
<1>1. a.nwid \in Networks /\ a.cfg \in Config
  BY DEF DaemonInv, DaemonTypes, Answered
<1>2. mem[a.nwid] \in Network
  BY <1>1 DEF QuicReceive, Receive, Get, DaemonInv, TypeOK
<1> QED
  BY <1>1, <1>2, AnswerIsVerdict, ReceiveKept, DriverTasks DEF QuicReceive

LEMMA UdpReceiveKept == ASSUME DaemonInv, NEW a \in answers, UdpReceive(a) PROVE Kept
<1>1. a.nwid \in Networks /\ a.cfg \in Config
  BY DEF DaemonInv, DaemonTypes, Answered
<1>2. mem[a.nwid] \in Network
  BY <1>1 DEF UdpReceive, Receive, Get, DaemonInv, TypeOK
<1> QED
  BY <1>1, <1>2, AnswerIsVerdict, ReceiveKept, DriverTasks DEF UdpReceive

\* update_network() stores the clone that was read, with a verdict: an Answer of NetworkStore.
LEMMA ApplyIsAnswer ==
  ASSUME DaemonInv, NEW t \in Tasks, hand[t] # Absent, UpdateNetwork(t, hand[t].next)
  PROVE  /\ Answer(t)
         /\ hand[t].prev \in Network /\ hand[t].next \in Network
         /\ \A u \in Tasks : u # t => pc'[u] = pc[u] /\ arg'[u] = arg[u]
         /\ pc'[t] = "open"
<1>1. pc[t] = "got" /\ Store(t, arg[t].nwid, hand[t].next)
  BY DEF UpdateNetwork
<1>2. Verdict(arg[t].net, hand[t].next) /\ hand[t].prev \in Network /\ hand[t].next \in Network
  BY <1>1 DEF DaemonInv, Held
<1>3. Answer(t)
  <2>1. PICK s \in {"Ok", "AccessDenied"}, ips \in SUBSET Addresses, routes \in SUBSET Targets :
          hand[t].next = [arg[t].net EXCEPT !.status = s, !.ips = ips, !.routes = routes]
    BY <1>2 DEF Verdict
  <2>2. UpdateNetwork(t, [arg[t].net EXCEPT !.status = s, !.ips = ips, !.routes = routes])
    BY <2>1
  <2> QED
    BY <2>2 DEF Answer
<1>4. arg[t].nwid \in Networks
  BY <1>1, ArgType DEF DaemonInv
<1> QED
  BY <1>1, <1>2, <1>3, <1>4, StoreMoves DEF DaemonInv

LEMMA QuicApplyKept == ASSUME DaemonInv, QuicApply PROVE Kept
<1> DEFINE t == QuicTask
<1>1. t \in Tasks /\ hand[t] # Absent /\ UpdateNetwork(t, hand[t].next) /\ NextStage(t, "reconcile")
  BY DriverTasks DEF QuicApply
<1> HIDE DEF t
<1>2. /\ Answer(t) /\ hand[t].prev \in Network /\ hand[t].next \in Network /\ pc'[t] = "open"
      /\ \A u \in Tasks : u # t => pc'[u] = pc[u] /\ arg'[u] = arg[u]
  BY <1>1, ApplyIsAnswer
<1>3. /\ hand' \in [Tasks -> Local \cup {Absent}]
      /\ hand'[t].prev = hand[t].prev /\ hand'[t].next = hand[t].next /\ hand'[t].upd = hand[t].upd
      /\ \A u \in Tasks : u # t => hand'[u] = hand[u]
  BY <1>1, StageMoves DEF DaemonInv, Stages
<1>4. DaemonTypes'
  BY <1>3 DEF QuicApply, DaemonInv, DaemonTypes
<1>5. Held(t)'
  BY <1>1, <1>2, <1>3 DEF Held, DaemonInv
<1> QED
  BY <1>1, <1>2, <1>3, <1>4, <1>5, HeldFrame DEF Kept, Next, OthersStay, DaemonInv

LEMMA UdpApplyKept == ASSUME DaemonInv, UdpApply PROVE Kept
<1> DEFINE t == UdpTask
<1>1. t \in Tasks /\ hand[t] # Absent /\ UpdateNetwork(t, hand[t].next) /\ Hold(t, Absent)
  BY DriverTasks DEF UdpApply, Finish
<1> HIDE DEF t
<1>2. /\ Answer(t)
      /\ \A u \in Tasks : u # t => pc'[u] = pc[u] /\ arg'[u] = arg[u]
  BY <1>1, ApplyIsAnswer
<1>3. /\ hand' \in [Tasks -> Local \cup {Absent}] /\ hand'[t] = Absent
      /\ \A u \in Tasks : u # t => hand'[u] = hand[u]
  BY <1>1, HoldMoves DEF DaemonInv
<1>4. DaemonTypes'
  BY <1>3 DEF UdpApply, DaemonInv, DaemonTypes
<1>5. Held(t)'
  BY <1>3 DEF Held
<1> QED
  BY <1>1, <1>2, <1>3, <1>4, <1>5, HeldFrame DEF Kept, Next, OthersStay, DaemonInv

LEMMA QuicReconcileKept == ASSUME DaemonInv, QuicReconcile PROVE Kept
<1>1. /\ QuicTask \in Tasks /\ hand[QuicTask] # Absent
      /\ hand[QuicTask].stage = "reconcile" /\ pc[QuicTask] = "idle"
  BY DriverTasks DEF QuicReconcile, AtStage
<1>2. hand[QuicTask].prev \in Network /\ hand[QuicTask].next \in Network
  BY <1>1 DEF DaemonInv, Held
<1>3. iface' \in Iface
  BY <1>2, ReconciledType DEF QuicReconcile, DaemonInv, DaemonTypes
<1>4. /\ hand' \in [Tasks -> Local \cup {Absent}] /\ hand'[QuicTask] = Absent
      /\ \A u \in Tasks : u # QuicTask => hand'[u] = hand[u]
  BY <1>1, HoldMoves DEF QuicReconcile, Finish, DaemonInv
<1>5. DaemonTypes'
  BY <1>3, <1>4 DEF QuicReconcile, DaemonInv, DaemonTypes
<1> QED
  BY <1>1, <1>4, <1>5, LocalKept DEF QuicReconcile

-----------------------------------------------------------------------------
(* The REST handlers *)

LEMMA PostDisconnectKept ==
  ASSUME DaemonInv, NEW t \in Tasks, NEW n \in Networks, PostDisconnect(t, n)
  PROVE  Kept
<1> DEFINE l == [stage |-> "teardown", nwid |-> n, prev |-> Disconnected(mem[n]),
                 next |-> Absent, upd |-> Absent]
<1>1. mem[n] \in Network
  BY DEF PostDisconnect, Disconnect, DaemonInv, TypeOK
<1>2. l \in Local
  BY <1>1, RecordType DEF Local, Stages
<1>3. Hold(t, l) /\ l.upd = Absent /\ l.stage = "teardown"
  BY DEF PostDisconnect
<1> HIDE DEF l
<1>4. /\ hand' \in [Tasks -> Local \cup {Absent}] /\ hand'[t] = l
      /\ \A u \in Tasks : u # t => hand'[u] = hand[u]
  BY <1>2, <1>3, HoldMoves DEF DaemonInv
<1>5. DaemonTypes'
  BY <1>4 DEF PostDisconnect, DaemonInv, DaemonTypes
<1>6. Operation(t, n) /\ ~Get(t, n)
  BY DEF PostDisconnect, Operation, Disconnect, Store, Get, Goto, DaemonInv, TypeOK
<1> QED
  BY <1>3, <1>4, <1>5, <1>6, CallKept

LEMMA PostJoinKept ==
  ASSUME DaemonInv, NEW t \in Tasks, NEW n \in Networks, NEW u \in Updates \cup {Absent}, PostJoin(t, n, u)
  PROVE  Kept
<1> DEFINE l == [stage |-> "join", nwid |-> n, prev |-> Absent, next |-> Absent, upd |-> u]
<1>1. l \in Local
  BY StoreAssumption DEF Local, Stages
<1>2. Hold(t, l) /\ l.upd = u /\ l.stage = "join"
  BY DEF PostJoin
<1> HIDE DEF l
<1>3. /\ hand' \in [Tasks -> Local \cup {Absent}] /\ hand'[t] = l
      /\ \A v \in Tasks : v # t => hand'[v] = hand[v]
  BY <1>1, <1>2, HoldMoves DEF DaemonInv
<1>4. DaemonTypes'
  BY <1>3 DEF PostJoin, DaemonInv, DaemonTypes
<1>5. pc[t] # "got" /\ UNCHANGED storeVars
  BY DEF PostJoin, StartHandler, Idle
<1> QED
  BY <1>2, <1>3, <1>4, <1>5, LocalKept

LEMMA PostJoinCallKept ==
  ASSUME DaemonInv, NEW t \in Tasks, PostJoinCall(t)
  PROVE  Kept
<1>1. hand[t] # Absent /\ NextStage(t, "joined") /\ Join(t, hand[t].nwid)
  BY DEF PostJoinCall, AtStage
<1>2. PICK n \in Networks : n = hand[t].nwid
  BY <1>1 DEF DaemonInv, DaemonTypes, Local
<1>3. /\ hand' \in [Tasks -> Local \cup {Absent}]
      /\ hand'[t].stage = "joined" /\ hand'[t].upd = hand[t].upd
      /\ \A u \in Tasks : u # t => hand'[u] = hand[u]
  BY <1>1, StageMoves DEF DaemonInv, Stages
<1>4. DaemonTypes'
  BY <1>3 DEF PostJoinCall, DaemonInv, DaemonTypes
<1>5. Operation(t, n) /\ ~Get(t, n)
  BY <1>1, <1>2 DEF Operation, Join, Store, Get, Goto, DaemonInv, TypeOK
<1>6. hand[t].upd \in Updates \cup {Absent}
  BY <1>1 DEF DaemonInv, Held
<1> QED
  BY <1>3, <1>4, <1>5, <1>6, CallKept

LEMMA PostJoinedKept ==
  ASSUME DaemonInv, NEW t \in Tasks, PostJoined(t)
  PROVE  Kept
<1>1. hand[t] # Absent /\ pc[t] = "idle" /\ Hold(t, Absent)
  BY DEF PostJoined, AtStage, Finish
<1>2. PICK n \in Networks : n = hand[t].nwid
  BY <1>1 DEF DaemonInv, DaemonTypes, Local
<1>3. /\ hand' \in [Tasks -> Local \cup {Absent}] /\ hand'[t] = Absent
      /\ \A u \in Tasks : u # t => hand'[u] = hand[u]
  BY <1>1, HoldMoves DEF DaemonInv
<1>4. requests' \subseteq Request
  BY <1>2 DEF PostJoined, DaemonInv, DaemonTypes, Request, Transport
<1>5. DaemonTypes'
  BY <1>3, <1>4 DEF PostJoined, DaemonInv, DaemonTypes
<1>6. CASE hand[t].upd # Absent /\ UpdateSettings(t, n, hand[t].upd)
  <2>1. hand[t].upd \in Updates
    BY <1>1, <1>6 DEF DaemonInv, Held
  <2>2. Operation(t, n) /\ ~Get(t, n)
    BY <1>6, <2>1 DEF Operation, UpdateSettings, Store, Get, Goto, DaemonInv, TypeOK
  <2> QED
    BY <1>3, <1>5, <2>2, CallKept
<1>7. CASE UNCHANGED storeVars
  BY <1>1, <1>3, <1>5, <1>7, LocalKept
<1> QED
  BY <1>2, <1>6, <1>7 DEF PostJoined

LEMMA TearDownKept ==
  ASSUME DaemonInv, NEW t \in Tasks, TearDown(t)
  PROVE  Kept
<1>1. hand[t] # Absent /\ pc[t] = "idle" /\ Hold(t, Absent)
  BY DEF TearDown, AtStage, Finish
<1>2. /\ hand' \in [Tasks -> Local \cup {Absent}] /\ hand'[t] = Absent
      /\ \A u \in Tasks : u # t => hand'[u] = hand[u]
  BY <1>1, HoldMoves DEF DaemonInv
<1>3. iface' \in Iface
  BY TornDownType DEF TearDown, DaemonInv, DaemonTypes
<1>4. DaemonTypes'
  BY <1>2, <1>3 DEF TearDown, DaemonInv, DaemonTypes
<1> QED
  BY <1>1, <1>2, <1>4, LocalKept DEF TearDown

LEMMA DeleteNetworkKept ==
  ASSUME DaemonInv, NEW t \in Tasks, NEW n \in Networks, DeleteNetwork(t, n)
  PROVE  Kept
<1> DEFINE l == [stage |-> FirstStage(mem[n]), nwid |-> n, prev |-> mem[n],
                 next |-> Absent, upd |-> Absent]
<1>1. FirstStage(mem[n]) \in Stages /\ FirstStage(mem[n]) # "reconcile"
  BY DEF FirstStage, Stages
<1>2. l \in Local
  BY <1>1 DEF Local, DaemonInv, TypeOK
<1>3. Hold(t, l) /\ l.upd = Absent /\ l.stage # "reconcile"
  BY <1>1 DEF DeleteNetwork
<1> HIDE DEF l
<1>4. /\ hand' \in [Tasks -> Local \cup {Absent}] /\ hand'[t] = l
      /\ \A u \in Tasks : u # t => hand'[u] = hand[u]
  BY <1>2, <1>3, HoldMoves DEF DaemonInv
<1>5. DaemonTypes'
  BY <1>4 DEF DeleteNetwork, DaemonInv, DaemonTypes
<1>6. pc[t] # "got" /\ UNCHANGED storeVars
  BY DEF DeleteNetwork, StartHandler, Idle
<1> QED
  BY <1>3, <1>4, <1>5, <1>6, LocalKept

LEMMA PreDisconnectKept ==
  ASSUME DaemonInv, NEW t \in Tasks, PreDisconnect(t)
  PROVE  Kept
<1>1. hand[t] # Absent /\ pc[t] = "idle" /\ NextStage(t, "release")
  BY DEF PreDisconnect, AtStage
<1>2. PICK n \in Networks : n = hand[t].nwid
  BY <1>1 DEF DaemonInv, DaemonTypes, Local
<1>3. /\ hand' \in [Tasks -> Local \cup {Absent}]
      /\ hand'[t].stage = "release" /\ hand'[t].upd = hand[t].upd
      /\ \A u \in Tasks : u # t => hand'[u] = hand[u]
  BY <1>1, StageMoves DEF DaemonInv, Stages
<1>4. DaemonTypes'
  BY <1>3 DEF PreDisconnect, DaemonInv, DaemonTypes
<1>5. hand[t].upd \in Updates \cup {Absent}
  BY <1>1 DEF DaemonInv, Held
<1>6. CASE Disconnect(t, n)
  <2>1. Operation(t, n) /\ ~Get(t, n)
    BY <1>6 DEF Operation, Disconnect, Store, Get, Goto, DaemonInv, TypeOK
  <2> QED
    BY <1>3, <1>4, <1>5, <2>1, CallKept
<1>7. CASE UNCHANGED storeVars
  BY <1>1, <1>3, <1>4, <1>5, <1>7, LocalKept
<1> QED
  BY <1>2, <1>6, <1>7 DEF PreDisconnect

LEMMA ReleaseKept ==
  ASSUME DaemonInv, NEW t \in Tasks, Release(t)
  PROVE  Kept
<1>1. hand[t] # Absent /\ pc[t] = "idle" /\ NextStage(t, "leave") /\ UNCHANGED storeVars
  BY DEF Release, AtStage
<1>2. /\ hand' \in [Tasks -> Local \cup {Absent}]
      /\ hand'[t].stage = "leave" /\ hand'[t].upd = hand[t].upd
      /\ \A u \in Tasks : u # t => hand'[u] = hand[u]
  BY <1>1, StageMoves DEF DaemonInv, Stages
<1>3. iface' \in Iface
  BY TornDownType DEF Release, DaemonInv, DaemonTypes
<1>4. DaemonTypes'
  BY <1>2, <1>3 DEF Release, DaemonInv, DaemonTypes
<1>5. hand[t].upd \in Updates \cup {Absent}
  BY <1>1 DEF DaemonInv, Held
<1> QED
  BY <1>1, <1>2, <1>4, <1>5, LocalKept

LEMMA LeaveCallKept ==
  ASSUME DaemonInv, NEW t \in Tasks, LeaveCall(t)
  PROVE  Kept
<1>1. hand[t] # Absent /\ pc[t] = "idle" /\ Hold(t, Absent)
  BY DEF LeaveCall, AtStage, Finish
<1>2. PICK n \in Networks : n = hand[t].nwid
  BY <1>1 DEF DaemonInv, DaemonTypes, Local
<1>3. /\ hand' \in [Tasks -> Local \cup {Absent}] /\ hand'[t] = Absent
      /\ \A u \in Tasks : u # t => hand'[u] = hand[u]
  BY <1>1, HoldMoves DEF DaemonInv
<1>4. DaemonTypes'
  BY <1>3 DEF LeaveCall, DaemonInv, DaemonTypes
<1>5. CASE Leave(t, n)
  <2>1. Operation(t, n) /\ ~Get(t, n)
    BY <1>5 DEF Operation, Leave, Get, Goto, DaemonInv, TypeOK
  <2> QED
    BY <1>3, <1>4, <2>1, CallKept
<1>6. CASE UNCHANGED storeVars
  BY <1>1, <1>3, <1>4, <1>6, LocalKept
<1> QED
  BY <1>2, <1>5, <1>6 DEF LeaveCall

LEMMA RestKept ==
  ASSUME DaemonInv, NEW t \in RestTasks, Rest(t)
  PROVE  Kept
<1>1. t \in Tasks
  BY DriverTasks
<1> QED
  BY <1>1, PostDisconnectKept, PostJoinKept, PostJoinCallKept, PostJoinedKept, TearDownKept,
     DeleteNetworkKept, PreDisconnectKept, ReleaseKept, LeaveCallKept DEF Rest

-----------------------------------------------------------------------------
(* Boot, restart and the system calls of the table *)

LEMMA StoreStepKept ==
  ASSUME DaemonInv, NEW t \in Tasks, StoreStep(t)
  PROVE  Kept
<1>1. pc'[t] # "got" /\ OthersStay(t) /\ Next
  BY PersistMoves DEF StoreStep, daemonVars, OthersStay, Next, DaemonInv
<1>2. Held(t)' /\ DaemonTypes'
  BY <1>1 DEF StoreStep, daemonVars, Held, DaemonInv, DaemonTypes
<1> QED
  BY <1>1, <1>2, HeldFrame DEF Kept, DaemonInv

LEMMA RestartKept ==
  ASSUME DaemonInv, RestartDaemon
  PROVE  Kept
<1>1. NoNetworks \in [Networks -> Network \cup {Absent}]
  BY DEF NoNetworks
<1>2. [stage |-> "list", nets |-> NoNetworks]
        \in [stage: {"done", "list", "configure"}, nets: [Networks -> Network \cup {Absent}]]
  BY <1>1
<1>3. [ips |-> {}, routes |-> {}] \in Iface
  BY DEF Iface
<1>4. DaemonTypes'
  BY <1>2, <1>3 DEF RestartDaemon, DaemonInv, DaemonTypes
<1>5. \A u \in Tasks : Held(u)'
  BY DEF RestartDaemon, Held
<1>6. Next
  BY DEF RestartDaemon, Next
<1> QED
  BY <1>4, <1>5, <1>6 DEF Kept

LEMMA BootListKept ==
  ASSUME DaemonInv, BootList
  PROVE  Kept
<1>1. [stage |-> "configure", nets |-> mem]
        \in [stage: {"done", "list", "configure"}, nets: [Networks -> Network \cup {Absent}]]
  BY DEF DaemonInv, TypeOK
<1>2. DaemonTypes'
  BY <1>1 DEF BootList, DaemonInv, DaemonTypes
<1>3. \A u \in Tasks : Held(u)'
  BY DEF BootList, DaemonInv, Held, storeVars
<1> QED
  BY <1>2, <1>3 DEF Kept, BootList

LEMMA BootConfigureKept ==
  ASSUME DaemonInv, BootConfigure
  PROVE  Kept
<1> DEFINE net(n) == boot.nets[n]
           connected == {n \in Networks : net(n) # Absent /\ net(n).connected}
           managed == {n \in connected : net(n).allowManaged}
<1>1. \A n \in connected : n \in Networks /\ net(n) \in Network
  BY DEF DaemonInv, DaemonTypes
<1>2. ASSUME NEW n \in managed
      PROVE  /\ Assigned(net(n).ips, net(n).routes) \subseteq Addresses \X Lens
             /\ Allowed(net(n).routes, net(n)) \subseteq Targets
  <2>1. net(n).ips \in SUBSET Addresses /\ net(n).routes \in SUBSET Targets
    BY <1>1 DEF Network
  <2> QED
    BY <2>1, AssignedType, AllowedType
<1>3. iface' = WithRoutes(WithAddresses(iface, UNION {Assigned(net(n).ips, net(n).routes) : n \in managed}),
                          UNION {Allowed(net(n).routes, net(n)) : n \in managed})
  BY DEF BootConfigure
<1>4. requests' = requests \cup [nwid: connected, via: Transports \cap {"udp"}]
  BY DEF BootConfigure
<1>5. requests' \subseteq Request
  BY <1>4 DEF DaemonInv, DaemonTypes, Request, Transport
<1> HIDE DEF managed, connected, net
<1>6. iface' \in Iface
  <2>1. UNION {Assigned(net(n).ips, net(n).routes) : n \in managed} \in SUBSET (Addresses \X Lens)
    BY <1>2
  <2>2. UNION {Allowed(net(n).routes, net(n)) : n \in managed} \in SUBSET Targets
    BY <1>2
  <2>3. iface \in Iface
    BY DEF DaemonInv, DaemonTypes, Iface
  <2>4. WithAddresses(iface, UNION {Assigned(net(n).ips, net(n).routes) : n \in managed}) \in Iface
    BY <2>1, <2>3, CommandType
  <2> QED
    BY <1>3, <2>2, <2>4, CommandType
<1>7. [stage |-> "done", nets |-> NoNetworks]
        \in [stage: {"done", "list", "configure"}, nets: [Networks -> Network \cup {Absent}]]
  BY DEF NoNetworks
<1>8. DaemonTypes'
  BY <1>5, <1>6, <1>7 DEF BootConfigure, DaemonInv, DaemonTypes
<1>9. \A u \in Tasks : Held(u)'
  BY DEF BootConfigure, DaemonInv, Held, storeVars
<1> QED
  BY <1>8, <1>9 DEF Kept, BootConfigure

-----------------------------------------------------------------------------
(* The theorems *)

LEMMA DaemonInitInv == DaemonInit => DaemonInv /\ Init
<1> SUFFICES ASSUME DaemonInit PROVE DaemonInv /\ Init
  OBVIOUS
<1>1. config \in [Networks -> Config]
  BY DaemonAssumption DEF DaemonInit
<1>2. [ips |-> {}, routes |-> {}] \in Iface
  BY DEF Iface
<1>3. [stage |-> "done", nets |-> NoNetworks]
        \in [stage: {"done", "list", "configure"}, nets: [Networks -> Network \cup {Absent}]]
  BY DEF NoNetworks
<1>4. DaemonTypes
  BY <1>1, <1>2, <1>3 DEF DaemonInit, DaemonTypes
<1>5. \A t \in Tasks : Held(t)
  BY DEF DaemonInit, Held
<1> QED
  BY <1>4, <1>5, TypeInit DEF DaemonInv, DaemonInit

LEMMA DaemonStep == DaemonInv /\ [DaemonNext]_vars => DaemonInv' /\ [Next]_storeVars
<1> SUFFICES ASSUME DaemonInv, [DaemonNext]_vars PROVE DaemonInv' /\ [Next]_storeVars
  OBVIOUS
<1>1. ASSUME Client PROVE Kept
  BY <1>1, DriverTasks, PollKept, IgnoreKept, QuicReceiveKept, UdpReceiveKept, QuicApplyKept,
     QuicReconcileKept, UdpApplyKept, StoreStepKept, BootListKept, BootConfigureKept DEF Client
<1>2. ASSUME UNCHANGED vars PROVE Kept
  <2>1. UNCHANGED storeVars /\ UNCHANGED daemonVars
    BY <1>2 DEF vars
  <2>2. DaemonTypes'
    BY <2>1 DEF daemonVars, DaemonInv, DaemonTypes
  <2>3. \A u \in Tasks : Held(u)'
    BY <2>1 DEF storeVars, daemonVars, DaemonInv, Held
  <2> QED
    BY <2>1, <2>2, <2>3 DEF Kept
<1>3. Kept
  BY <1>1, <1>2, EnvironmentKept, RestKept, RestartKept DEF DaemonNext
<1>4. TypeOK'
  BY <1>3, TypeStep DEF Kept, DaemonInv
<1> QED
  BY <1>3, <1>4 DEF Kept, DaemonInv

(* The type invariant of the client daemon.                                *)
THEOREM DaemonTypeCorrect == DaemonSpec => []DaemonTypeOK
<1>1. DaemonInv => DaemonTypeOK
  BY TypesSplit DEF DaemonInv
<1> QED
  BY <1>1, DaemonInitInv, DaemonStep, PTL DEF DaemonSpec

(* Whatever the REST handlers, the event loop, the receive loop and the    *)
(* boot recovery do, and however they overlap, they do to the table only   *)
(* what NetworkStore describes: what is proved of it holds in the daemon.  *)
THEOREM DaemonImplementsStore == DaemonSpec => Spec
BY DaemonInitInv, DaemonStep, PTL DEF DaemonSpec, Spec

(* So a network that was joined and never left survives every restart of   *)
(* the daemon between calls on it.                                         *)
THEOREM DaemonKeepsMembership == DaemonSpec => []MembershipSurvives
BY DaemonImplementsStore, MembershipCorrect, PTL

(* And the last change of a network is what a restart of the daemon loads, *)
(* if no other call changed the network while it was being written.        *)
THEOREM DaemonIsDurable == DaemonSpec => []Durable
BY DaemonImplementsStore, DurableCorrect, PTL

-----------------------------------------------------------------------------
(* Who decides over membership *)

\* One step of OnlyUsersDecide.
UsersDecide ==
  \A n \in Networks :
    \/ mem'[n] = mem[n]
    \/ \E t \in RestTasks : pc'[t] # pc[t]
    \/ boot'.stage = "list"
    \/ \E t \in Tasks : StoresStale(t, n)
    \/ mem[n] # Absent /\ mem'[n] # Absent /\ mem'[n].connected = mem[n].connected

\* What a handler stores back is the clone it read, but for the verdict.
LEMMA ApplyKeepsIntent ==
  ASSUME DaemonInv, NEW t \in Tasks, hand[t] # Absent, UpdateNetwork(t, hand[t].next)
  PROVE  UsersDecide
<1>1. pc[t] = "got" /\ Store(t, arg[t].nwid, hand[t].next)
  BY DEF UpdateNetwork
<1>2. PICK k \in Networks : k = arg[t].nwid
  BY <1>1, ArgType DEF DaemonInv
<1>3. arg[t].net \in Network
  BY <1>1, ArgType DEF DaemonInv
<1>4. PICK s \in {"Ok", "AccessDenied"}, ips \in SUBSET Addresses, routes \in SUBSET Targets :
        hand[t].next = [arg[t].net EXCEPT !.status = s, !.ips = ips, !.routes = routes]
  BY <1>1 DEF DaemonInv, Held, Verdict
<1>5. hand[t].next.connected = arg[t].net.connected
  BY <1>3, <1>4 DEF Network
<1>6. hand[t].next \in Network
  BY <1>1 DEF DaemonInv, Held
<1>7. mem' = [mem EXCEPT ![k] = hand[t].next] /\ pc'[t] = "open"
  BY <1>1, <1>2 DEF Store, Goto, DaemonInv, TypeOK
<1>8. CASE arg[t].net = mem[k]
  BY <1>3, <1>5, <1>6, <1>7, <1>8, StoreAssumption DEF UsersDecide, DaemonInv, TypeOK
<1>9. CASE arg[t].net # mem[k]
  <2>1. StoresStale(t, k)
    BY <1>1, <1>2, <1>7, <1>9 DEF StoresStale
  <2>2. \A n \in Networks : n # k => mem'[n] = mem[n]
    BY <1>7 DEF DaemonInv, TypeOK
  <2> QED
    BY <2>1, <2>2 DEF UsersDecide
<1> QED
  BY <1>8, <1>9

\* A REST handler changes the map only when it begins a call.
LEMMA RestShows ==
  ASSUME DaemonInv, NEW t \in RestTasks, Rest(t)
  PROVE  mem' = mem \/ pc'[t] # pc[t]
<1>1. t \in Tasks
  BY DriverTasks
<1>2. ASSUME NEW n, NEW r, Begin(t), Store(t, n, r) PROVE pc'[t] # pc[t]
  BY <1>1, <1>2 DEF Begin, Store, Goto, DaemonInv, TypeOK
<1>3. ASSUME NEW n, Leave(t, n) PROVE pc'[t] # pc[t]
  BY <1>1, <1>3 DEF Leave, Begin, Goto, DaemonInv, TypeOK
<1>4. ASSUME NEW n \in Networks, PostDisconnect(t, n) PROVE pc'[t] # pc[t]
  BY <1>2, <1>4 DEF PostDisconnect, Disconnect
<1>5. ASSUME PostJoinCall(t) PROVE pc'[t] # pc[t]
  BY <1>2, <1>5 DEF PostJoinCall, Join
<1>6. ASSUME PostJoined(t) PROVE mem' = mem \/ pc'[t] # pc[t]
  BY <1>2, <1>6 DEF PostJoined, UpdateSettings, storeVars
<1>7. ASSUME PreDisconnect(t) PROVE mem' = mem \/ pc'[t] # pc[t]
  BY <1>2, <1>7 DEF PreDisconnect, Disconnect, storeVars
<1>8. ASSUME LeaveCall(t) PROVE mem' = mem \/ pc'[t] # pc[t]
  BY <1>3, <1>8 DEF LeaveCall, storeVars
<1>9. ASSUME NEW n \in Networks, NEW u, PostJoin(t, n, u) \/ DeleteNetwork(t, n) PROVE mem' = mem
  BY <1>9 DEF PostJoin, DeleteNetwork, storeVars
<1>10. ASSUME TearDown(t) \/ Release(t) PROVE mem' = mem
  BY <1>10 DEF TearDown, Release, storeVars
<1> QED
  BY <1>4, <1>5, <1>6, <1>7, <1>8, <1>9, <1>10 DEF Rest

LEMMA UsersDecideStep ==
  ASSUME DaemonInv, [DaemonNext]_vars
  PROVE  UsersDecide
<1>1. ASSUME mem' = mem PROVE UsersDecide
  BY <1>1 DEF UsersDecide
<1>2. CASE UNCHANGED vars
  BY <1>1, <1>2 DEF vars, storeVars
<1>3. CASE Environment
  BY <1>1, <1>3 DEF Environment, Serve, LoseRequest, LoseAnswer, Administer, storeVars
<1>4. CASE RestartDaemon
  BY <1>4 DEF RestartDaemon, UsersDecide
<1>5. ASSUME NEW t \in RestTasks, Rest(t) PROVE UsersDecide
  BY <1>5, RestShows DEF UsersDecide
<1>6. CASE Client
  <2>1. CASE QuicApply
    BY <2>1, ApplyKeepsIntent, DriverTasks DEF QuicApply
  <2>2. CASE UdpApply
    BY <2>2, ApplyKeepsIntent, DriverTasks DEF UdpApply
  <2>3. ASSUME NEW t \in Tasks, StoreStep(t) PROVE UsersDecide
    BY <1>1, <2>3 DEF StoreStep, Persist, Delete, OpenTmp, Truncated, WriteTmp, HasOpen, RenameTmp, MarkConf,
                      RemoveJson, RemoveConf
  <2>4. ASSUME NEW n \in Networks, NEW via \in Transports, Poll(n, via) PROVE UsersDecide
    BY <1>1, <2>4 DEF Poll, storeVars
  <2>5. ASSUME NEW a \in answers, \/ Ignore(QuicTask, "quic", a) \/ QuicReceive(a)
                                  \/ Ignore(UdpTask, "udp", a) \/ UdpReceive(a)
        PROVE  UsersDecide
    BY <1>1, <2>5 DEF Ignore, QuicReceive, UdpReceive, Receive, Get, storeVars
  <2>6. CASE QuicReconcile \/ BootList \/ BootConfigure
    BY <1>1, <2>6 DEF QuicReconcile, BootList, BootConfigure, storeVars
  <2> QED
    BY <1>6, <2>1, <2>2, <2>3, <2>4, <2>5, <2>6 DEF Client
<1> QED
  BY <1>2, <1>3, <1>4, <1>5, <1>6 DEF DaemonNext

(* Whatever answers were lost, delayed or reordered, however handlers      *)
(* overlap, and across restarts: a controller's answer neither makes a     *)
(* network appear nor changes the user's wish to be connected to it        *)
(* (network.rs:47-48), but through a handler that stores back a clone      *)
(* which a user's call has overtaken.                                      *)
THEOREM ControllersDoNotDecide == DaemonSpec => OnlyUsersDecide
<1>1. DaemonInv /\ [DaemonNext]_vars => [UsersDecide]_vars
  BY UsersDecideStep
<1> QED
  BY <1>1, DaemonInitInv, DaemonStep, PTL DEF DaemonSpec, OnlyUsersDecide, UsersDecide
=============================================================================
