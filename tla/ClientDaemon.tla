---------------------------- MODULE ClientDaemon ----------------------------
(***************************************************************************)
(* The client side of the daemon: the tasks that drive the network table   *)
(* of NetworkStore and the host's virtual interface zgalaxy0.              *)
(*                                                                         *)
(*   - REST handlers (controller_api.rs): POST /network/{id} joins,        *)
(*     updates settings or disconnects, DELETE /network/{id} leaves;       *)
(*   - the QUIC event loop (main.rs), one event at a time: a controller's  *)
(*     answer updates the table and then reconciles the interface;         *)
(*   - the UDP receive loop (transport.rs), which runs in parallel with it *)
(*     and updates the same table, but never the interface;                *)
(*   - the polling loops, the boot recovery and a restart at any time.     *)
(*                                                                         *)
(* A handler reads the table, lets go of its lock, and acts on what it     *)
(* read: each of its steps is an action, and a call on the table is the    *)
(* calls of NetworkStore, down to its writes.                              *)
(*                                                                         *)
(* Simplifications: the commands that reconcile or tear down the interface *)
(* are one step; MTU, MAC and token are left out; the controller is a      *)
(* current configuration per network that an administrator may change;     *)
(* requests and answers are sets: they may be lost, delayed and reordered. *)
(***************************************************************************)
EXTENDS NetworkStore

CONSTANTS
  QuicTask,       \* the task of the QUIC event loop
  UdpTask,        \* the task of the UDP receive loop
  RestTasks,      \* the tasks of REST requests in progress
  Transports,     \* the transports that carry configuration in this instance
  Configs,        \* Configs[n]: what the controller of n may decide about this node
  DefaultRoutes,  \* the targets 0.0.0.0/0 and ::/0
  Lens,           \* prefix lengths
  LanLen,         \* LanLen[R][a]: the length of the first directly connected route of a's family
                  \* in R, or the default of the family
  RemoveLen,      \* RemoveLen[a]: the length remove_interface_ip() puts after a bare address
  Overlap,        \* bound: may two handlers of one network be in progress at once?
  MayRestart      \* bound: may the daemon restart?

VARIABLES
  config,    \* config[n]: the controller's current decision
  requests,  \* configuration requests under way
  answers,   \* configuration answers under way
  hand,      \* hand[t]: what handler t goes on with after its call, or Absent
  iface,     \* the addresses and routes on zgalaxy0
  boot       \* the boot recovery

daemonVars == <<config, requests, answers, hand, iface, boot>>
vars == <<storeVars, daemonVars>>

Transport == {"quic", "udp"}

Config == [authorized: BOOLEAN, ips: SUBSET Addresses, routes: SUBSET Targets]

Request == [nwid: Networks, via: Transport]

Answered == [nwid: Networks, via: Transport, cfg: Config]

Stages == {"apply", "reconcile", "join", "joined", "teardown",
           "predisconnect", "release", "leave"}

\* The locals of a handler: the record it read and the one it made of it, or its request body.
Local == [stage: Stages, nwid: Networks, prev: Network \cup {Absent},
          next: Network \cup {Absent}, upd: SettingsUpdate \cup {Absent}]

ASSUME DaemonAssumption ==
  /\ Tasks = {QuicTask, UdpTask} \cup RestTasks
  /\ QuicTask # UdpTask /\ QuicTask \notin RestTasks /\ UdpTask \notin RestTasks
  /\ Transports \subseteq Transport
  /\ Configs \in [Networks -> SUBSET Config]
  /\ \A n \in Networks : Configs[n] # {}
  /\ \A m, n \in Networks : m # n =>
        \A c \in Configs[m], d \in Configs[n] : c.ips \cap d.ips = {} /\ c.routes \cap d.routes = {}
  /\ DefaultRoutes \subseteq Targets
  /\ LanLen \in [SUBSET Targets -> [Addresses -> Lens]]
  /\ RemoveLen \in [Addresses -> Lens]
  /\ Overlap \in BOOLEAN /\ MayRestart \in BOOLEAN
  /\ Absent \notin Local /\ Absent \notin SettingsUpdate

DaemonTypeOK ==
  /\ TypeOK
  /\ config \in [Networks -> Config]
  /\ requests \subseteq Request
  /\ answers \subseteq Answered
  /\ hand \in [Tasks -> Local \cup {Absent}]
  /\ iface \in [ips: SUBSET (Addresses \X Lens), routes: SUBSET Targets]
  /\ boot \in [stage: {"done", "list", "configure"}, nets: [Networks -> Network \cup {Absent}]]

-----------------------------------------------------------------------------
(* The interface *)

\* Mutant: a host address, whatever the network's length.
AssignedHost(ips, routes) == {<<a, 32>> : a \in ips}

\* assign_address(): a bare address takes the length of the network's own route of its family.
Assigned(ips, routes) == {<<a, LanLen[routes][a]>> : a \in ips}

\* remove_interface_ip(): a bare address takes the length fixed for its family; the kernel
\* deletes an exact match only.
Removed(ips) == {<<a, RemoveLen[a]>> : a \in ips}

Allowed(routes, r) == {x \in routes : x \in DefaultRoutes => r.allowDefault}

\* configure_interface_ip(), "ip addr replace": an address goes beside those with another length.
WithAddresses(i, cidrs) == [i EXCEPT !.ips = @ \cup cidrs]

WithoutAddresses(i, ips) == [i EXCEPT !.ips = @ \ Removed(ips)]

\* add_route(), "ip route replace": a target has one route, and only this interface is looked at.
WithRoutes(i, targets) == [i EXCEPT !.routes = @ \cup targets]

\* remove_route(): no effect on a target that is not routed here.
WithoutRoutes(i, targets) == [i EXCEPT !.routes = @ \ targets]

TornDown(i, r) == WithoutRoutes(WithoutAddresses(i, r.ips), r.routes)

\* Mutant: what the network had is not compared with what it has now.
ReconciledAddOnly(i, prev, next) ==
  CASE next.status = "Ok" /\ next.allowManaged ->
         WithRoutes(WithAddresses(i, Assigned(next.ips, next.routes)), Allowed(next.routes, next))
    [] prev.status = "Ok" /\ next.status # "Ok" -> TornDown(i, prev)
    [] OTHER -> i

\* "Live Dynamic Interface Reconciliation" of the QUIC handler.
Reconciled(i, prev, next) ==
  LET wasAuthorized == prev.status = "Ok"
      authorized    == next.status = "Ok"
      newIps    == {a \in next.ips : a \notin prev.ips \/ ~wasAuthorized}
      newRoutes == {x \in next.routes : x \notin prev.routes \/ ~wasAuthorized}
      addressed == WithAddresses(WithoutAddresses(i, prev.ips \ next.ips),
                                 Assigned(newIps, next.routes))
  IN  CASE authorized /\ next.allowManaged ->
             WithRoutes(WithoutRoutes(addressed, prev.routes \ next.routes),
                        Allowed(newRoutes, next))
        [] wasAuthorized /\ ~authorized -> TornDown(i, prev)
        [] OTHER -> i

-----------------------------------------------------------------------------
(* Handlers *)

Idle(t) == pc[t] = "idle" /\ hand[t] = Absent

\* A handler on n is in progress.
Handling(n) ==
  \/ Busy(n)
  \/ \E t \in Tasks : hand[t] # Absent /\ hand[t].nwid = n
  \/ boot.stage # "done"

StartHandler(t, n) == Idle(t) /\ (Overlap \/ ~Handling(n))

AtStage(t, stage) == pc[t] = "idle" /\ hand[t] # Absent /\ hand[t].stage = stage

Hold(t, l) == hand' = [hand EXCEPT ![t] = l]

Finish(t) == Hold(t, Absent)

NextStage(t, stage) == hand' = [hand EXCEPT ![t].stage = stage]

-----------------------------------------------------------------------------
(* Polling and the controller *)

\* Mutant: a network that has its configuration is not polled any more.
PollUntilOk(n, via) ==
  /\ boot.stage = "done"
  /\ mem[n] # Absent
  /\ mem[n].connected /\ mem[n].status # "Ok"
  /\ requests' = requests \cup {[nwid |-> n, via |-> via]}
  /\ UNCHANGED <<storeVars, config, answers, hand, iface, boot>>

\* A polling loop lists the table, then dials and sends for each connected network.
Poll(n, via) ==
  /\ boot.stage = "done"
  /\ mem[n] # Absent
  /\ mem[n].connected
  /\ requests' = requests \cup {[nwid |-> n, via |-> via]}
  /\ UNCHANGED <<storeVars, config, answers, hand, iface, boot>>

\* The controller answers with its decision of the moment.
Serve(q) ==
  /\ requests' = requests \ {q}
  /\ answers' = answers \cup {[nwid |-> q.nwid, via |-> q.via, cfg |-> config[q.nwid]]}
  /\ UNCHANGED <<storeVars, config, hand, iface, boot>>

LoseRequest(q) ==
  /\ requests' = requests \ {q}
  /\ UNCHANGED <<storeVars, config, answers, hand, iface, boot>>

LoseAnswer(a) ==
  /\ answers' = answers \ {a}
  /\ UNCHANGED <<storeVars, config, requests, hand, iface, boot>>

Administer(n, c) ==
  /\ config' = [config EXCEPT ![n] = c]
  /\ UNCHANGED <<storeVars, requests, answers, hand, iface, boot>>

-----------------------------------------------------------------------------
(* Answers *)

\* The verdict of an answer; the QUIC path takes addresses and routes as they come.
QuicApplied(r, c) ==
  [r EXCEPT !.status = IF c.authorized THEN "Ok" ELSE "AccessDenied",
            !.ips = c.ips, !.routes = c.routes]

\* Mutant: the verdict connects and disconnects.
UdpAppliedConnects(r, c) ==
  [r EXCEPT !.status = IF c.authorized THEN "Ok" ELSE "AccessDenied",
            !.connected = c.authorized, !.ips = IF c.ips = {} THEN @ ELSE c.ips]

\* The UDP path keeps the old addresses when the answer has none, and the old routes always.
UdpApplied(r, c) ==
  [r EXCEPT !.status = IF c.authorized THEN "Ok" ELSE "AccessDenied",
            !.ips = IF c.ips = {} THEN @ ELSE c.ips]

\* An answer for a network that is not in the table is dropped.
Ignore(t, via, a) ==
  /\ Idle(t)
  /\ boot.stage = "done"
  /\ a.via = via
  /\ mem[a.nwid] = Absent
  /\ answers' = answers \ {a}
  /\ UNCHANGED <<storeVars, config, requests, hand, iface, boot>>

Receive(t, via, a, next) ==
  /\ StartHandler(t, a.nwid)
  /\ boot.stage = "done"
  /\ a.via = via
  /\ Get(t, a.nwid)
  /\ Hold(t, [stage |-> "apply", nwid |-> a.nwid, prev |-> mem[a.nwid],
              next |-> next, upd |-> Absent])
  /\ answers' = answers \ {a}
  /\ UNCHANGED <<config, requests, iface, boot>>

QuicReceive(a) == Receive(QuicTask, "quic", a, QuicApplied(mem[a.nwid], a.cfg))

UdpReceive(a) == Receive(UdpTask, "udp", a, UdpApplied(mem[a.nwid], a.cfg))

\* update_network() with the clone taken at Receive, whatever happened to the table since.
QuicApply ==
  /\ hand[QuicTask] # Absent
  /\ UpdateNetwork(QuicTask, hand[QuicTask].next)
  /\ NextStage(QuicTask, "reconcile")
  /\ UNCHANGED <<config, requests, answers, iface, boot>>

QuicReconcile ==
  /\ AtStage(QuicTask, "reconcile")
  /\ iface' = Reconciled(iface, hand[QuicTask].prev, hand[QuicTask].next)
  /\ Finish(QuicTask)
  /\ UNCHANGED <<storeVars, config, requests, answers, boot>>

\* Mutant: the table changes and its files do not.
UdpApplyInMemory ==
  /\ hand[UdpTask] # Absent
  /\ pc[UdpTask] = "got"
  /\ mem' = [mem EXCEPT ![hand[UdpTask].nwid] = hand[UdpTask].next]
  /\ Return(UdpTask)
  /\ Finish(UdpTask)
  /\ UNCHANGED <<diskVars, historyVars, config, requests, answers, iface, boot>>

UdpApply ==
  /\ hand[UdpTask] # Absent
  /\ UpdateNetwork(UdpTask, hand[UdpTask].next)
  /\ Finish(UdpTask)
  /\ UNCHANGED <<config, requests, answers, iface, boot>>

-----------------------------------------------------------------------------
(* POST /network/{id} *)

\* {"connected": false} on a known network: disconnect, then tear the interface down.
PostDisconnect(t, n) ==
  /\ StartHandler(t, n)
  /\ Disconnect(t, n)
  /\ Hold(t, [stage |-> "teardown", nwid |-> n, prev |-> Disconnected(mem[n]),
              next |-> Absent, upd |-> Absent])
  /\ UNCHANGED <<config, requests, answers, iface, boot>>

TearDown(t) ==
  /\ AtStage(t, "teardown")
  /\ iface' = TornDown(iface, hand[t].prev)
  /\ Finish(t)
  /\ UNCHANGED <<storeVars, config, requests, answers, boot>>

\* Every other body, and {"connected": false} on an unknown network, joins.
PostJoin(t, n, u) ==
  /\ StartHandler(t, n)
  /\ u # Absent /\ u.connected = "off" => mem[n] = Absent
  /\ Hold(t, [stage |-> "join", nwid |-> n, prev |-> Absent, next |-> Absent, upd |-> u])
  /\ UNCHANGED <<storeVars, config, requests, answers, iface, boot>>

PostJoinCall(t) ==
  /\ AtStage(t, "join")
  /\ Join(t, hand[t].nwid)
  /\ NextStage(t, "joined")
  /\ UNCHANGED <<config, requests, answers, iface, boot>>

\* The join trigger makes the UDP bridge ask at once; a non-empty body is then applied.
PostJoined(t) ==
  LET n == hand[t].nwid IN
  /\ AtStage(t, "joined")
  /\ requests' = requests \cup {[nwid |-> n, via |-> v] : v \in Transports \cap {"udp"}}
  /\ \/ /\ hand[t].upd # Absent
        /\ UpdateSettings(t, n, hand[t].upd)
     \/ /\ hand[t].upd = Absent \/ mem[n] = Absent
        /\ UNCHANGED storeVars
  /\ Finish(t)
  /\ UNCHANGED <<config, answers, iface, boot>>

-----------------------------------------------------------------------------
(* DELETE /network/{id} *)

\* Disconnect first unless the record read is disconnected already; without a record just leave.
FirstStage(r) ==
  CASE r = Absent -> "leave"
    [] r # Absent /\ (r.connected \/ r.status # "Disconnected") -> "predisconnect"
    [] OTHER -> "release"

DeleteNetwork(t, n) ==
  /\ StartHandler(t, n)
  /\ Hold(t, [stage |-> FirstStage(mem[n]), nwid |-> n, prev |-> mem[n],
              next |-> Absent, upd |-> Absent])
  /\ UNCHANGED <<storeVars, config, requests, answers, iface, boot>>

PreDisconnect(t) ==
  /\ AtStage(t, "predisconnect")
  /\ \/ Disconnect(t, hand[t].nwid)
     \/ mem[hand[t].nwid] = Absent /\ UNCHANGED storeVars
  /\ NextStage(t, "release")
  /\ UNCHANGED <<config, requests, answers, iface, boot>>

Release(t) ==
  /\ AtStage(t, "release")
  /\ iface' = TornDown(iface, hand[t].prev)
  /\ NextStage(t, "leave")
  /\ UNCHANGED <<storeVars, config, requests, answers, boot>>

LeaveCall(t) ==
  /\ AtStage(t, "leave")
  /\ \/ Leave(t, hand[t].nwid)
     \/ mem[hand[t].nwid] = Absent /\ UNCHANGED storeVars
  /\ Finish(t)
  /\ UNCHANGED <<config, requests, answers, iface, boot>>

-----------------------------------------------------------------------------
(* Restart and boot recovery *)

NoNetworks == [n \in Networks |-> Absent]

\* The process dies: handlers and QUIC streams are gone, the TAP adapter with them.
RestartDaemon ==
  /\ MayRestart
  /\ Restart
  /\ hand' = [t \in Tasks |-> Absent]
  /\ requests' = {q \in requests : q.via = "udp"}
  /\ answers' = {a \in answers : a.via = "udp"}
  /\ iface' = [ips |-> {}, routes |-> {}]
  /\ boot' = [stage |-> "list", nets |-> NoNetworks]
  /\ UNCHANGED config

\* The recovery works on a snapshot of the table; the REST server is already up.
BootList ==
  /\ boot.stage = "list"
  /\ boot' = [stage |-> "configure", nets |-> mem]
  /\ UNCHANGED <<storeVars, config, requests, answers, hand, iface>>

BootConfigure ==
  LET connected == {n \in Networks : boot.nets[n] # Absent /\ boot.nets[n].connected}
      managed   == {n \in connected : boot.nets[n].allowManaged}
      net(n)    == boot.nets[n]
  IN
  /\ boot.stage = "configure"
  /\ iface' = WithRoutes(WithAddresses(iface, UNION {Assigned(net(n).ips, net(n).routes) : n \in managed}),
                         UNION {Allowed(net(n).routes, net(n)) : n \in managed})
  /\ requests' = requests \cup [nwid: connected, via: Transports \cap {"udp"}]
  /\ boot' = [stage |-> "done", nets |-> NoNetworks]
  /\ UNCHANGED <<storeVars, config, answers, hand>>

-----------------------------------------------------------------------------

DaemonInit ==
  /\ Init
  /\ config \in {c \in [Networks -> UNION {Configs[n] : n \in Networks}] :
                   \A n \in Networks : c[n] \in Configs[n]}
  /\ requests = {}
  /\ answers = {}
  /\ hand = [t \in Tasks |-> Absent]
  /\ iface = [ips |-> {}, routes |-> {}]
  /\ boot = [stage |-> "done", nets |-> NoNetworks]

\* The system calls of a table call in progress.
StoreStep(t) == (Persist(t) \/ Delete(t)) /\ UNCHANGED daemonVars

Environment ==
  \/ \E q \in requests : Serve(q) \/ LoseRequest(q)
  \/ \E a \in answers : LoseAnswer(a)
  \/ \E n \in Networks : \E c \in Configs[n] : Administer(n, c)

Client ==
  \/ \E n \in Networks, via \in Transports : Poll(n, via)
  \/ \E a \in answers : \/ Ignore(QuicTask, "quic", a) \/ QuicReceive(a)
                        \/ Ignore(UdpTask, "udp", a) \/ UdpReceive(a)
  \/ QuicApply \/ QuicReconcile \/ UdpApply
  \/ \E t \in Tasks : StoreStep(t)
  \/ BootList \/ BootConfigure

Rest(t) ==
  \/ \E n \in Networks : \/ PostDisconnect(t, n) \/ DeleteNetwork(t, n)
                         \/ \E u \in Updates \cup {Absent} : PostJoin(t, n, u)
  \/ TearDown(t) \/ PostJoinCall(t) \/ PostJoined(t)
  \/ PreDisconnect(t) \/ Release(t) \/ LeaveCall(t)

DaemonNext == Environment \/ Client \/ (\E t \in RestTasks : Rest(t)) \/ RestartDaemon

DaemonSpec == DaemonInit /\ [][DaemonNext]_vars

(* Fairness.  The tokio runtime runs every task that can take a step; the  *)
(* polling loops never stop; the network loses messages, but not all of    *)
(* those that are sent again and again.  Users, administrators and         *)
(* restarts promise nothing.                                               *)
Fairness ==
  /\ \A t \in Tasks : WF_vars(StoreStep(t))
  /\ \A t \in RestTasks :
        WF_vars(TearDown(t) \/ PostJoinCall(t) \/ PostJoined(t)
                \/ PreDisconnect(t) \/ Release(t) \/ LeaveCall(t))
  /\ WF_vars(QuicApply \/ QuicReconcile)
  /\ \A n \in Networks : WF_vars(Poll(n, "quic"))
  /\ \A q \in Request : SF_vars(q \in requests /\ Serve(q))
  /\ \A n \in Networks : \A c \in Configs[n] :
        LET a == [nwid |-> n, via |-> "quic", cfg |-> c]
        IN  SF_vars(a \in answers /\ (QuicReceive(a) \/ Ignore(QuicTask, "quic", a)))

FairSpec == DaemonSpec /\ Fairness

-----------------------------------------------------------------------------
(* Properties *)

Quiet(n) == ~Handling(n)

\* What the interface carries of n; configurations of distinct networks are disjoint.
IpsOf(n) == {x \in iface.ips : \E c \in Configs[n] : x[1] \in c.ips}

RoutesOf(n) == {x \in iface.routes : \E c \in Configs[n] : x \in c.routes}

\* An answer was stored in the record of a network that the user had disconnected.
AnsweredLate(r) == r # Absent /\ ~r.connected /\ r.status # "Disconnected"

(* The reconciliation of main.rs:678-755 and the teardowns of              *)
(* controller_api.rs agree: between handlers, the interface carries        *)
(* exactly the addresses and routes of a network that is connected and     *)
(* authorized, and nothing of one that is refused, disconnected or left.   *)
(* Not claimed of a disconnected network whose record took an answer that  *)
(* was under way: the handler of main.rs:643-741 never asks for            *)
(* `connected` and configures the interface again (DisconnectedIsDown).    *)
(* Holds for one transport, no restart, handlers that do not overlap,      *)
(* flags that do not change, and addresses that are removed with the       *)
(* length they were assigned with; without any one of these conditions it  *)
(* fails (README, section 3).                                              *)
InterfaceMatches ==
  \A n \in Networks : Quiet(n) /\ ~AnsweredLate(mem[n]) =>
    LET r  == mem[n]
        up == r # Absent /\ r.connected /\ r.status = "Ok" /\ r.allowManaged
    IN  /\ IpsOf(n) = IF up THEN Assigned(r.ips, r.routes) ELSE {}
        /\ RoutesOf(n) = IF up THEN Allowed(r.routes, r) ELSE {}

(* What the comment at controller_api.rs:216-218 promises of a disconnect, *)
(* "cleanly tear down routes and interface IPs", and what the boot         *)
(* recovery takes for granted (main.rs:339).  Violated: see the hazards.   *)
DisconnectedIsDown ==
  \A n \in Networks :
    Quiet(n) /\ mem[n] # Absent /\ ~mem[n].connected => IpsOf(n) = {} /\ RoutesOf(n) = {}

\* A handler stores back a clone that is no longer the record in the map.
StoresStale(t, n) ==
  /\ pc[t] = "got" /\ pc'[t] # "got"
  /\ arg[t].nwid = n /\ arg[t].net # mem[n]

(* Membership of a network and the wish to be connected to it are the      *)
(* user's (network.rs:47-48): an answer of a controller never makes a      *)
(* network appear in the table and never flips `connected`, unless its     *)
(* handler stores back a clone that a user's call has overtaken (the blind *)
(* insert of main.rs:675 and transport.rs:202).                            *)
OnlyUsersDecide ==
  [][\A n \in Networks :
       \/ mem'[n] = mem[n]
       \/ \E t \in RestTasks : pc'[t] # pc[t]
       \/ boot'.stage = "list"
       \/ \E t \in Tasks : StoresStale(t, n)
       \/ mem[n] # Absent /\ mem'[n] # Absent /\ mem'[n].connected = mem[n].connected]_vars

(* A network the user leaves connected, and whose controller settles on an *)
(* authorized configuration, ends up with exactly these addresses on the   *)
(* interface, whatever requests and answers were lost or came late.        *)
LeftAlone(n, c) ==
  /\ config[n] = c
  /\ mem[n] # Absent /\ mem[n].connected
  /\ \A t \in RestTasks : Idle(t)

EventuallyConfigured ==
  \A n \in Networks : \A c \in {d \in Configs[n] : d.authorized} :
    <>[]LeftAlone(n, c) => <>[](IpsOf(n) = Assigned(c.ips, c.routes))
=============================================================================
