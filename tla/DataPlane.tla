----------------------------- MODULE DataPlane ------------------------------
(***************************************************************************)
(* The data plane: frames from the TAP device, sent to the session that    *)
(* taught their MAC address or flooded to all of them (main.rs:846-893),   *)
(* the learning switch (l2_switch.rs), and the lock of the session map     *)
(* (quic.rs), which the outbound task, the handshakes, the ends of         *)
(* sessions and the event loop all take.                                   *)
(*                                                                         *)
(* The lock is tokio's RwLock: it serves its waiters in the order they     *)
(* came, so that a reader waits behind a writer that waits.  A task asks   *)
(* for it and goes on when it was granted.                                 *)
(*                                                                         *)
(* Simplifications: a frame is its destination; a connection is used once; *)
(* announcements, queues and the contents of frames are left out, and the  *)
(* RTT prober, the sync loop and the REST calls, which take one guard for  *)
(* one lookup each, as a unicast does.                                     *)
(***************************************************************************)
EXTENDS Naturals, Sequences

CONSTANTS
  Remotes,
  Macs,      \* unicast addresses; any other destination is Group
  Group,
  Conns,     \* bound: the connections there will ever be
  RemoteOf,  \* RemoteOf[c]: who is at the other end
  Outbound,  \* the task that reads the TAP device
  Loop,      \* the task of the event loop
  Absent

VARIABLES
  peers,    \* peers[r]: the session with r
  learned,  \* learned[mac]: the remote that delivered frames of it
  lost,     \* events: connections whose end is reported and not handled yet
  held,     \* held[t]: how many guards t holds
  writer,   \* the task that holds the write guard, or Absent
  queue,    \* who waits for a guard
  stage,    \* stage[t]: where task t is
  event,    \* the connection whose end the event loop is handling, or Absent
  todo      \* the remotes the frame in hand still goes to

lockVars == <<held, writer, queue>>
vars == <<peers, learned, lost, lockVars, stage, event, todo>>

Tasks == Conns \cup {Outbound, Loop}

Modes == {"read", "write"}

Stages == {"new", "check", "insert", "live", "remove", "gone",       \* a connection
           "idle", "unicast", "flood", "next", "send",               \* the outbound task
           "lost"}                                                   \* the event loop

ASSUME DataPlaneAssumption ==
  /\ RemoteOf \in [Conns -> Remotes]
  /\ Outbound # Loop /\ Outbound \notin Conns /\ Loop \notin Conns
  /\ Absent \notin Tasks /\ Absent \notin Remotes

TypeOK ==
  /\ peers \in [Remotes -> Conns \cup {Absent}]
  /\ learned \in [Macs -> Remotes \cup {Absent}]
  /\ lost \subseteq Conns
  /\ held \in [Tasks -> Nat]
  /\ writer \in Tasks \cup {Absent}
  /\ queue \in Seq([task: Tasks, mode: Modes])
  /\ stage \in [Tasks -> Stages]
  /\ event \in Conns \cup {Absent}
  /\ todo \subseteq Remotes

-----------------------------------------------------------------------------
(* The lock of the session map *)

Waiting(t) == \E i \in 1 .. Len(queue) : queue[i].task = t

Ask(t, mode) == queue' = Append(queue, [task |-> t, mode |-> mode])

\* The waiter at the head, and no other, gets a guard as soon as the guards held allow it.
Grant ==
  /\ queue # <<>> /\ writer = Absent
  /\ LET w == Head(queue) IN
     IF w.mode = "read"
     THEN held' = [held EXCEPT ![w.task] = @ + 1] /\ UNCHANGED writer
     ELSE /\ \A t \in Tasks : held[t] = 0
          /\ writer' = w.task
          /\ UNCHANGED held
  /\ queue' = Tail(queue)
  /\ UNCHANGED <<peers, learned, lost, stage, event, todo>>

\* t was granted what it asked for at this stage.
Has(t, at) == stage[t] = at /\ ~Waiting(t)

GoesTo(t, at) == stage' = [stage EXCEPT ![t] = at]

DropsRead(t) == held' = [held EXCEPT ![t] = @ - 1]

-----------------------------------------------------------------------------
(* Sessions *)

\* A handshake completes: activate() looks the remote up.
Handshake(c) ==
  /\ stage[c] = "new"
  /\ GoesTo(c, "check") /\ Ask(c, "read")
  /\ UNCHANGED <<peers, learned, lost, held, writer, event, todo>>

\* Mutant: the guard of the lookup lives on.
AskSlotHolding(c) ==
  /\ Has(c, "check")
  /\ GoesTo(c, "insert") /\ Ask(c, "write")
  /\ UNCHANGED <<peers, learned, lost, held, writer, event, todo>>

AskSlot(c) ==
  /\ Has(c, "check")
  /\ DropsRead(c)
  /\ GoesTo(c, "insert") /\ Ask(c, "write")
  /\ UNCHANGED <<peers, learned, lost, writer, event, todo>>

TakeSlot(c) ==
  /\ Has(c, "insert")
  /\ peers' = [peers EXCEPT ![RemoteOf[c]] = c]
  /\ writer' = Absent
  /\ GoesTo(c, "live")
  /\ UNCHANGED <<learned, lost, held, queue, event, todo>>

\* read_datagrams() returns: the reader is about to remove its session.
Ends(c) ==
  /\ stage[c] = "live"
  /\ GoesTo(c, "remove") /\ Ask(c, "write")
  /\ UNCHANGED <<peers, learned, lost, held, writer, event, todo>>

RemoveSession(c) ==
  /\ Has(c, "remove")
  /\ peers' = [peers EXCEPT ![RemoteOf[c]] = IF @ = c THEN Absent ELSE @]
  /\ writer' = Absent
  /\ lost' = lost \cup {c}
  /\ GoesTo(c, "gone")
  /\ UNCHANGED <<learned, held, queue, event, todo>>

-----------------------------------------------------------------------------
(* The learning switch *)

\* Mutant: an address is bound to the connection, not to the remote.
LearnConnection(c, mac) ==
  /\ stage[Loop] = "idle" /\ stage[c] = "live"
  /\ learned' = [learned EXCEPT ![mac] = c]
  /\ UNCHANGED <<peers, lost, lockVars, stage, event, todo>>

\* A datagram event teaches its source address.
Learn(c, mac) ==
  /\ stage[Loop] = "idle" /\ stage[c] = "live"
  /\ learned' = [learned EXCEPT ![mac] = RemoteOf[c]]
  /\ UNCHANGED <<peers, lost, lockVars, stage, event, todo>>

\* A Disconnected event: is the connection still the session of its remote?
Disconnected(c) ==
  /\ stage[Loop] = "idle" /\ c \in lost
  /\ lost' = lost \ {c}
  /\ event' = c
  /\ GoesTo(Loop, "lost") /\ Ask(Loop, "read")
  /\ UNCHANGED <<peers, learned, held, writer, todo>>

\* remove_endpoint(), for a session that was not replaced.
Evict ==
  /\ Has(Loop, "lost")
  /\ LET r == RemoteOf[event] IN
     learned' = IF peers[r] # event THEN learned
                ELSE [mac \in Macs |-> IF learned[mac] = r THEN Absent ELSE learned[mac]]
  /\ DropsRead(Loop)
  /\ event' = Absent
  /\ GoesTo(Loop, "idle")
  /\ UNCHANGED <<peers, lost, writer, queue, todo>>

\* evict_stale(): the prober drops an address that was silent for five minutes.
EvictStale(mac) ==
  /\ learned[mac] # Absent
  /\ learned' = [learned EXCEPT ![mac] = Absent]
  /\ UNCHANGED <<peers, lost, lockVars, stage, event, todo>>

-----------------------------------------------------------------------------
(* Outbound frames *)

Resolved(dst) == IF dst \in Macs THEN learned[dst] ELSE Absent

\* send_frame() to the owner of the address: connect() looks the remote up.
Unicast(dst) ==
  /\ stage[Outbound] = "idle" /\ Resolved(dst) # Absent
  /\ todo' = {Resolved(dst)}
  /\ GoesTo(Outbound, "unicast") /\ Ask(Outbound, "read")
  /\ UNCHANGED <<peers, learned, lost, held, writer, event>>

\* The frame goes out; without session connect() dials, which fails or completes a handshake.
SendUnicast ==
  /\ Has(Outbound, "unicast")
  /\ DropsRead(Outbound)
  /\ todo' = {}
  /\ \/ GoesTo(Outbound, "idle") /\ UNCHANGED queue
     \/ \E c \in Conns, r \in todo :
          /\ peers[r] = Absent /\ RemoteOf[c] = r /\ stage[c] = "new"
          /\ stage' = [stage EXCEPT ![Outbound] = "idle", ![c] = "check"]
          /\ Ask(c, "read")
  /\ UNCHANGED <<peers, learned, lost, writer, event>>

Flood(dst) ==
  /\ stage[Outbound] = "idle" /\ Resolved(dst) = Absent
  /\ GoesTo(Outbound, "flood") /\ Ask(Outbound, "read")
  /\ UNCHANGED <<peers, learned, lost, held, writer, event, todo>>

\* Mutant: the remotes are collected first, and the guard is dropped, as the prober does.
BeginFloodCollecting ==
  /\ Has(Outbound, "flood")
  /\ todo' = {r \in Remotes : peers[r] # Absent}
  /\ DropsRead(Outbound)
  /\ GoesTo(Outbound, "next")
  /\ UNCHANGED <<peers, learned, lost, writer, queue, event>>

\* connected_peers().read(): this guard lives until the last frame was sent.
BeginFlood ==
  /\ Has(Outbound, "flood")
  /\ todo' = {r \in Remotes : peers[r] # Absent}
  /\ GoesTo(Outbound, "next")
  /\ UNCHANGED <<peers, learned, lost, lockVars, event>>

\* send_frame() looks the remote up again, under the guard of the loop.
NextRemote(r) ==
  /\ stage[Outbound] = "next" /\ r \in todo
  /\ todo' = todo \ {r}
  /\ GoesTo(Outbound, "send") /\ Ask(Outbound, "read")
  /\ UNCHANGED <<peers, learned, lost, held, writer, event>>

SendFlooded ==
  /\ Has(Outbound, "send")
  /\ DropsRead(Outbound)
  /\ GoesTo(Outbound, "next")
  /\ UNCHANGED <<peers, learned, lost, writer, queue, event, todo>>

\* The guard of the loop goes out of scope.
EndFlood ==
  /\ stage[Outbound] = "next" /\ todo = {}
  /\ held' = [held EXCEPT ![Outbound] = 0]
  /\ GoesTo(Outbound, "idle")
  /\ UNCHANGED <<peers, learned, lost, writer, queue, event, todo>>

-----------------------------------------------------------------------------

Init ==
  /\ peers = [r \in Remotes |-> Absent]
  /\ learned = [mac \in Macs |-> Absent]
  /\ lost = {} /\ todo = {} /\ event = Absent
  /\ held = [t \in Tasks |-> 0] /\ writer = Absent /\ queue = <<>>
  /\ stage = [t \in Tasks |-> IF t \in Conns THEN "new" ELSE "idle"]

SessionStep(c) == AskSlot(c) \/ TakeSlot(c) \/ RemoveSession(c)

LoopStep == (\E c \in Conns : Disconnected(c)) \/ Evict

OutboundStep ==
  \/ SendUnicast \/ BeginFlood \/ SendFlooded \/ EndFlood
  \/ \E r \in Remotes : NextRemote(r)

Environment ==
  \/ \E c \in Conns : Handshake(c) \/ Ends(c) \/ \E mac \in Macs : Learn(c, mac)
  \/ \E mac \in Macs : EvictStale(mac)
  \/ \E dst \in Macs \cup {Group} : Unicast(dst) \/ Flood(dst)

Next ==
  \/ Grant \/ LoopStep \/ OutboundStep \/ Environment
  \/ \E c \in Conns : SessionStep(c)

Spec == Init /\ [][Next]_vars

\* The lock grants, and the runtime runs the tasks.
FairSpec ==
  /\ Spec
  /\ WF_vars(Grant) /\ WF_vars(LoopStep) /\ WF_vars(OutboundStep)
  /\ \A c \in Conns : WF_vars(SessionStep(c))

-----------------------------------------------------------------------------
(* Properties *)

(* l2_switch.rs:8-9, "broadcast/multicast and unknown destinations are     *)
(* flooded to all connected peers": the outbound task gets through every   *)
(* frame, whatever sessions come and go meanwhile.                         *)
FramesGoOut == (stage[Outbound] # "idle") ~> (stage[Outbound] = "idle")

(* The cause of that deadlock is the only one of its kind: of all tasks    *)
(* that take the lock of the session map (quic.rs:295-305, 341, 503,       *)
(* main.rs:815-820, 882), none waits for it while it holds a guard of it,  *)
(* but the outbound task between two frames of a flood.                    *)
OnlyFloodsHoldAndWait ==
  \A t \in Tasks : Waiting(t) /\ (held[t] > 0 \/ writer = t) => t = Outbound /\ stage[t] = "send"

(* What that guard is good for: from the first frame of a flood to its     *)
(* last no session comes or goes (main.rs:882-889), so that send_frame()   *)
(* never dials under the guard, where activate() could not ever take the   *)
(* write guard.                                                            *)
FloodSeesOneMap ==
  [][stage[Outbound] \in {"next", "send"} => peers' = peers]_vars

(* main.rs:830-832, at the end of a session that was not replaced: "drop   *)
(* the peer's learned MACs immediately"; l2_switch.rs:57-59, "peer went    *)
(* away", with frames to them flooded "until the peer re-teaches itself".  *)
(* Once every end is handled, an address is bound to a remote that has a   *)
(* session or gets one.  It is not so: the reader takes its session out of *)
(* the map before it reports the end (quic.rs:341-355), and the event loop *)
(* evicts only for a session it finds there (main.rs:815-829).             *)
LostAreForgotten ==
  lost = {} /\ stage[Loop] = "idle" =>
    \A mac \in Macs : learned[mac] # Absent =>
      \E c \in Conns : RemoteOf[c] = learned[mac] /\ stage[c] \notin {"new", "gone"}
=============================================================================
