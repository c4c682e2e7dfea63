---------------------------- MODULE QuicSessions ----------------------------
(***************************************************************************)
(* The QUIC sessions between nodes (quic.rs), and the event loop of        *)
(* main.rs that drives them: dial, activate, replace, announce, challenge, *)
(* proof, and the configuration requests that need a proven announce.      *)
(*                                                                         *)
(* A node keys everything it knows by the socket address of the remote,    *)
(* not by connection: an event names the remote it came from, and a reply  *)
(* goes out on whatever session the remote has by then.  Connections end   *)
(* on each side on its own, and their readers end some time later.         *)
(*                                                                         *)
(* Simplifications: one socket address per node, so a node stands for its  *)
(* address as a remote; a nonce is the connection whose announce it        *)
(* answers, as each side announces once per connection; one network with   *)
(* one member record per client; activate() is a step up to the insert and *)
(* a step after its awaits, the end of a reader is one step; RTT probes    *)
(* and frames appear as the dials they cause; await_accepted() delays a    *)
(* request by 750 ms at most, and a request may be sent at any time here.  *)
(* Messages are a set: each has a stream of its own, and streams are read  *)
(* by tasks of their own.                                                  *)
(***************************************************************************)

CONSTANTS
  Nodes,
  Clients,      \* the nodes that joined the network and poll for its configuration
  Servers,      \* the nodes with controller_enabled
  Dialable,     \* the nodes whose address others can dial; the rest sit behind a NAT
  Conns,        \* bound: connections that exist at a time
  Verifiers,    \* bound: the nodes whose verification of announces is modelled
  MayRemove,    \* bound: may an administrator remove a member that was admitted?
  LateReaders,  \* bound: may a replaced session's reader outlive the handshake of the new one?
  Absent

VARIABLES
  link,       \* link[c]: who dialed whom
  fresh,      \* fresh[c]: the sides that completed the handshake and have not activated yet
  up,         \* up[c]: the sides that have neither closed nor lost c
  peers,      \* peers[x][y]: the session x has with y, or Absent
  starting,   \* starting[x]: the connections x took into the map and has not announced on yet
  readers,    \* readers[x]: the connections that have reader tasks at x
  unread,     \* unread[x]: the sessions in the map whose activation was cut short
  pending,    \* pending[x][y]: the nonce x challenged y with, or Absent
  announced,  \* announced[x]: the remotes whose address x knows
  loop,       \* loop[x]: the reply the event loop of x is dialing for, or Absent
  msgs,       \* control messages under way, or in the event queue of the receiver
  token,      \* token[x]: the membership token client x holds
  authorized, \* authorized[x]: the servers' member record of x
  proved      \* history: proved[x]: who signed a challenge of x while it was outstanding

sessionVars == <<link, fresh, up, peers, starting, readers, unread>>
identityVars == <<pending, announced, proved>>
memberVars == <<token, authorized>>
vars == <<sessionVars, identityVars, memberVars, loop, msgs>>

Token == {"none", "valid", "expired"}

Link == {l \in [dialer: Nodes, acceptor: Nodes] : l.dialer # l.acceptor}

ControlMessage == {"NodeAnnounce", "NodeChallenge", "AnnounceProof",
                   "NetworkConfigRequest", "NetworkConfigResponse"}

Membership == {"NetworkConfigRequest", "NetworkConfigResponse"}

\* What a node sends: in a response, "valid" is an authorization with a new token.
Body == [type: ControlMessage, nonce: Conns \cup {Absent}, token: Token]

Message == {m \in [conn: Conns, from: Nodes, to: Nodes, body: Body] : m.from # m.to}

Reply == [to: Nodes, body: Body]

ASSUME SessionAssumption ==
  /\ Clients \subseteq Nodes /\ Servers \subseteq Nodes /\ Dialable \subseteq Nodes
  /\ MayRemove \in BOOLEAN /\ LateReaders \in BOOLEAN
  /\ Absent \notin Conns /\ Absent \notin Link /\ Absent \notin Reply

SessionsTypeOK ==
  /\ link \in [Conns -> Link \cup {Absent}]
  /\ fresh \in [Conns -> SUBSET Nodes]
  /\ up \in [Conns -> SUBSET Nodes]
  /\ peers \in [Nodes -> [Nodes -> Conns \cup {Absent}]]
  /\ starting \in [Nodes -> SUBSET Conns]
  /\ readers \in [Nodes -> SUBSET Conns]
  /\ unread \in [Nodes -> SUBSET Conns]
  /\ pending \in [Nodes -> [Nodes -> Conns \cup {Absent}]]
  /\ announced \in [Nodes -> SUBSET Nodes]
  /\ loop \in [Nodes -> Reply \cup {Absent}]
  /\ \A x \in Nodes : loop[x] # Absent => loop[x].to # x
  /\ msgs \subseteq Message
  /\ token \in [Nodes -> Token]
  /\ authorized \in [Nodes -> BOOLEAN]
  /\ proved \in [Nodes -> SUBSET Nodes]

-----------------------------------------------------------------------------
(* Connections *)

Joins(c, x, y) ==
  /\ link[c] # Absent
  /\ {link[c].dialer, link[c].acceptor} = {x, y}

\* Nothing in the system refers to c any more.
Unused(c) ==
  /\ up[c] = {} /\ fresh[c] = {}
  /\ \A x \in Nodes :
       /\ c \notin starting[x] \cup readers[x]
       /\ \A y \in Nodes : peers[x][y] # c
       /\ loop[x] # Absent => loop[x].body.nonce # c
  /\ \A m \in msgs : m.conn # c /\ m.body.nonce # c

\* connect() holds connect_lock from the dial to the end of activate().
Dialing(x) ==
  \E c \in Conns :
    link[c] # Absent /\ link[c].dialer = x /\ (x \in fresh[c] \/ c \in starting[x])

\* A message on c reaches the other side unless one of the two has dropped c, or the
\* other has no reader for it and never will.
Sent(c, x, y, body) ==
  IF x \in up[c] /\ y \in up[c] /\ c \notin unread[y]
  THEN {[conn |-> c, from |-> x, to |-> y, body |-> body]}
  ELSE {}

Plain(type) == [type |-> type, nonce |-> Absent, token |-> "none"]

Signed(type, nonce) == [type |-> type, nonce |-> nonce, token |-> "none"]

Carrying(type, tok) == [type |-> type, nonce |-> Absent, token |-> tok]

\* connect(): the handshake of a dial to a remote without session completes.
Dial(x, y, c) ==
  /\ x # y /\ y \in Dialable
  /\ peers[x][y] = Absent
  /\ ~Dialing(x)
  /\ Unused(c)
  /\ link' = [link EXCEPT ![c] = [dialer |-> x, acceptor |-> y]]
  /\ fresh' = [fresh EXCEPT ![c] = {x, y}]
  /\ up' = [up EXCEPT ![c] = {x, y}]
  /\ pending' = [u \in Nodes |-> [v \in Nodes |->
                   IF pending[u][v] = c THEN Absent ELSE pending[u][v]]]
  /\ UNCHANGED <<peers, starting, readers, unread, announced, proved, memberVars, loop, msgs>>

\* Mutant: a remote that has a session keeps it.
TakeFirstWins(x, y, c) ==
  /\ x \in fresh[c] /\ Joins(c, x, y) /\ x # y
  /\ fresh' = [fresh EXCEPT ![c] = @ \ {x}]
  /\ IF peers[x][y] = Absent
     THEN /\ peers' = [peers EXCEPT ![x][y] = c]
          /\ starting' = [starting EXCEPT ![x] = @ \cup {c}]
     ELSE UNCHANGED <<peers, starting>>
  /\ UNCHANGED <<link, up, readers, unread, identityVars, memberVars, loop, msgs>>

\* activate(), up to its awaits: a new handshake takes the slot and closes what was there.
Take(x, y, c) ==
  LET old == peers[x][y] IN
  /\ x \in fresh[c] /\ Joins(c, x, y) /\ x # y
  /\ fresh' = [fresh EXCEPT ![c] = @ \ {x}]
  /\ peers' = [peers EXCEPT ![x][y] = c]
  /\ up' = [k \in Conns |-> IF k = old THEN up[k] \ {x} ELSE up[k]]
  /\ starting' = [starting EXCEPT ![x] = @ \cup {c}]
  /\ unread' = [unread EXCEPT ![x] = @ \ {old}]
  /\ UNCHANGED <<link, readers, identityVars, memberVars, loop, msgs>>

\* activate(), after its awaits: the announce is written, the reader tasks start.
Activate(x, y, c) ==
  /\ c \in starting[x] /\ Joins(c, x, y) /\ x # y
  /\ starting' = [starting EXCEPT ![x] = @ \ {c}]
  /\ readers' = [readers EXCEPT ![x] = @ \cup {c}]
  /\ msgs' = msgs \cup IF y \in Verifiers THEN Sent(c, x, y, Plain("NodeAnnounce")) ELSE {}
  /\ UNCHANGED <<link, fresh, up, peers, unread, identityVars, memberVars, loop>>

\* The 5 s of a job of quic-sync-loop are over while its connect() awaits: a connection
\* that is not in the map is dropped, one that is stays there, and nobody will read it.
Cancel(x, y, c) ==
  /\ x \in Clients /\ x # y /\ link[c] = [dialer |-> x, acceptor |-> y]
  /\ \/ /\ x \in fresh[c]
        /\ fresh' = [fresh EXCEPT ![c] = @ \ {x}]
        /\ up' = [up EXCEPT ![c] = @ \ {x}]
        /\ UNCHANGED <<starting, unread>>
     \/ /\ c \in starting[x]
        /\ starting' = [starting EXCEPT ![x] = @ \ {c}]
        /\ unread' = [unread EXCEPT ![x] = IF peers[x][y] = c THEN @ \cup {c} ELSE @]
        /\ UNCHANGED <<fresh, up>>
  /\ msgs' = {m \in msgs : ~(m.conn = c /\ m.to = x)}
  /\ UNCHANGED <<link, peers, readers, identityVars, memberVars, loop>>

\* Mutant: whatever session the remote has is removed.
ReaderEndsAny(x, y, c) ==
  /\ c \in readers[x] /\ Joins(c, x, y) /\ x # y
  /\ up[c] # {x, y}
  /\ up' = [up EXCEPT ![c] = @ \ {x}]
  /\ readers' = [readers EXCEPT ![x] = @ \ {c}]
  /\ peers' = [peers EXCEPT ![x][y] = Absent]
  /\ announced' = [announced EXCEPT ![x] = @ \ {y}]
  /\ UNCHANGED <<link, fresh, starting, unread, pending, proved, memberVars, loop, msgs>>

\* The reader of a connection that one side dropped ends.  It compares the session
\* before it removes it, and forgets the announced address in any case.
ReaderEnds(x, y, c) ==
  /\ c \in readers[x] /\ Joins(c, x, y) /\ x # y
  /\ up[c] # {x, y}
  /\ up' = [up EXCEPT ![c] = @ \ {x}]
  /\ readers' = [readers EXCEPT ![x] = @ \ {c}]
  /\ peers' = [peers EXCEPT ![x][y] = IF @ = c THEN Absent ELSE @]
  /\ announced' = [announced EXCEPT ![x] = @ \ {y}]
  /\ UNCHANGED <<link, fresh, starting, unread, pending, proved, memberVars, loop, msgs>>

\* The path of an established connection is gone: both sides run into max_idle_timeout.
Fail(c) ==
  /\ fresh[c] = {} /\ up[c] # {}
  /\ up' = [up EXCEPT ![c] = {}]
  /\ UNCHANGED <<link, fresh, peers, starting, readers, unread, identityVars, memberVars, loop, msgs>>

\* The process dies and starts again; the network table on disk keeps the token.
Restart(x) ==
  /\ up' = [c \in Conns |-> up[c] \ {x}]
  /\ fresh' = [c \in Conns |-> fresh[c] \ {x}]
  /\ peers' = [peers EXCEPT ![x] = [y \in Nodes |-> Absent]]
  /\ starting' = [starting EXCEPT ![x] = {}]
  /\ readers' = [readers EXCEPT ![x] = {}]
  /\ unread' = [unread EXCEPT ![x] = {}]
  /\ pending' = [pending EXCEPT ![x] = [y \in Nodes |-> Absent]]
  /\ announced' = [announced EXCEPT ![x] = {}]
  /\ proved' = [proved EXCEPT ![x] = {}]
  /\ loop' = [loop EXCEPT ![x] = Absent]
  /\ msgs' = {m \in msgs : m.to # x}
  /\ UNCHANGED <<link, memberVars>>

\* Whatever has not been read from a connection that one side dropped is lost.
Lose(c) ==
  /\ \E m \in msgs : m.conn = c /\ up[c] # {m.from, m.to}
  /\ msgs' = {m \in msgs : m.conn # c}
  /\ UNCHANGED <<sessionVars, identityVars, memberVars, loop>>

-----------------------------------------------------------------------------
(* The event loop: one event at a time; a reply may have to dial first *)

\* An event of type: the connection of m was or is read, the loop is free.
Handles(m, type) ==
  /\ m.body.type = type
  /\ m.to \notin fresh[m.conn]
  /\ m.conn \notin starting[m.to]
  /\ loop[m.to] = Absent

\* Mutant: the reply goes to the node that writes it.
AnswerSelf(m, body) ==
  /\ msgs' = msgs \ {m}
  /\ loop' = [loop EXCEPT ![m.to] = [to |-> m.to, body |-> body]]

\* send_control(): on the session of the moment, or dial.
Answer(m, body) ==
  LET x == m.to
      y == m.from
  IN  IF peers[x][y] # Absent
      THEN /\ msgs' = (msgs \ {m}) \cup Sent(peers[x][y], x, y, body)
           /\ UNCHANGED loop
      ELSE /\ msgs' = msgs \ {m}
           /\ loop' = [loop EXCEPT ![x] = [to |-> y, body |-> body]]

Dropped(m) == msgs' = msgs \ {m} /\ UNCHANGED loop

LoopSend(x) ==
  /\ loop[x] # Absent
  /\ LET y == loop[x].to IN
     /\ peers[x][y] # Absent
     /\ msgs' = msgs \cup Sent(peers[x][y], x, y, loop[x].body)
  /\ loop' = [loop EXCEPT ![x] = Absent]
  /\ UNCHANGED <<sessionVars, identityVars, memberVars>>

\* The dial fails and the reply with it.
LoopFail(x) ==
  /\ loop[x] # Absent
  /\ peers[x][loop[x].to] = Absent
  /\ loop' = [loop EXCEPT ![x] = Absent]
  /\ UNCHANGED <<sessionVars, identityVars, memberVars, msgs>>

\* challenge_announce(): a new nonce replaces one that is outstanding.
Challenged(x, y, nonce) == [pending EXCEPT ![x][y] = nonce]

\* verify_announce_proof(): the signed nonce is the outstanding one.
Verifies(x, y, nonce) == pending[x][y] = nonce

\* remember_announce(): a node has one address, so that nothing conflicts.
Remembered(x, y) == [announced EXCEPT ![x] = @ \cup {y}]

\* Mutant: the announce is taken at its word.
HandleAnnounceTrusting(m) ==
  /\ Handles(m, "NodeAnnounce")
  /\ announced' = Remembered(m.to, m.from)
  /\ pending' = Challenged(m.to, m.from, m.conn)
  /\ Answer(m, Signed("NodeChallenge", m.conn))
  /\ UNCHANGED <<sessionVars, proved, memberVars>>

HandleAnnounce(m) ==
  /\ Handles(m, "NodeAnnounce")
  /\ pending' = Challenged(m.to, m.from, m.conn)
  /\ Answer(m, Signed("NodeChallenge", m.conn))
  /\ UNCHANGED <<sessionVars, announced, proved, memberVars>>

HandleChallenge(m) ==
  /\ Handles(m, "NodeChallenge")
  /\ proved' = IF Verifies(m.from, m.to, m.body.nonce)
               THEN [proved EXCEPT ![m.from] = @ \cup {m.to}]
               ELSE proved
  /\ Answer(m, Signed("AnnounceProof", m.body.nonce))
  /\ UNCHANGED <<sessionVars, pending, announced, memberVars>>

\* No reader of a session that x replaced is still running, or about to run.
Settled(x, y) == \A c \in starting[x] \cup readers[x] : Joins(c, x, y) => x \in up[c]

\* Mutant: a challenge that was answered stays outstanding.
HandleProofKeeping(m) ==
  /\ Handles(m, "AnnounceProof")
  /\ LateReaders \/ Settled(m.to, m.from)
  /\ announced' = IF Verifies(m.to, m.from, m.body.nonce)
                  THEN Remembered(m.to, m.from)
                  ELSE announced
  /\ Dropped(m)
  /\ UNCHANGED <<sessionVars, pending, proved, memberVars>>

HandleProof(m) ==
  /\ Handles(m, "AnnounceProof")
  /\ LateReaders \/ Settled(m.to, m.from)
  /\ IF Verifies(m.to, m.from, m.body.nonce)
     THEN /\ pending' = Challenged(m.to, m.from, Absent)
          /\ announced' = Remembered(m.to, m.from)
     ELSE UNCHANGED <<pending, announced>>
  /\ Dropped(m)
  /\ UNCHANGED <<sessionVars, proved, memberVars>>

-----------------------------------------------------------------------------
(* Configuration requests and membership tokens *)

\* A job of quic-sync-loop sends its request on the session it connected.
Poll(x, y) ==
  /\ x \in Clients /\ y \in Servers
  /\ peers[x][y] # Absent
  /\ \A m \in msgs : m.body.type \notin Membership
  /\ msgs' = msgs \cup Sent(peers[x][y], x, y, Carrying("NetworkConfigRequest", token[x]))
  /\ UNCHANGED <<sessionVars, identityVars, memberVars, loop>>

\* A presented token must verify if the member is authorized.
Refused(m) == authorized[m.from] /\ m.body.token = "expired"

HandleRequest(m) ==
  /\ Handles(m, "NetworkConfigRequest")
  /\ IF m.to \in Servers /\ m.from \in announced[m.to] /\ ~Refused(m)
     THEN Answer(m, Carrying("NetworkConfigResponse",
                             IF authorized[m.from] THEN "valid" ELSE "none"))
     ELSE Dropped(m)
  /\ UNCHANGED <<sessionVars, identityVars, memberVars>>

\* The client keeps the token of the answer, or drops the one it had.
HandleResponse(m) ==
  /\ Handles(m, "NetworkConfigResponse")
  /\ token' = [token EXCEPT ![m.to] = m.body.token]
  /\ Dropped(m)
  /\ UNCHANGED <<sessionVars, identityVars, authorized>>

\* No request of x and no answer to it is under way.
Asking(x) == \E m \in msgs : m.body.type \in Membership /\ x \in {m.from, m.to}

\* An hour passes without an answer; no message travels that long.
Expire(x) ==
  /\ token[x] = "valid"
  /\ ~Asking(x)
  /\ token' = [token EXCEPT ![x] = "expired"]
  /\ UNCHANGED <<sessionVars, identityVars, authorized, loop, msgs>>

\* An administrator admits or removes the member.
Administer(x) ==
  /\ x \in Clients
  /\ authorized[x] => MayRemove
  /\ ~Asking(x)
  /\ authorized' = [authorized EXCEPT ![x] = ~@]
  /\ UNCHANGED <<sessionVars, identityVars, token, loop, msgs>>

-----------------------------------------------------------------------------

Init ==
  /\ link = [c \in Conns |-> Absent]
  /\ fresh = [c \in Conns |-> {}]
  /\ up = [c \in Conns |-> {}]
  /\ peers = [x \in Nodes |-> [y \in Nodes |-> Absent]]
  /\ starting = [x \in Nodes |-> {}]
  /\ readers = [x \in Nodes |-> {}]
  /\ unread = [x \in Nodes |-> {}]
  /\ pending = [x \in Nodes |-> [y \in Nodes |-> Absent]]
  /\ announced = [x \in Nodes |-> {}]
  /\ loop = [x \in Nodes |-> Absent]
  /\ msgs = {}
  /\ token = [x \in Nodes |-> "none"]
  /\ authorized = [x \in Nodes |-> FALSE]
  /\ proved = [x \in Nodes |-> {}]

Handle(m) ==
  \/ HandleAnnounce(m) \/ HandleChallenge(m) \/ HandleProof(m)
  \/ HandleRequest(m) \/ HandleResponse(m)

Session(x) ==
  \/ \E y \in Nodes, c \in Conns :
       Dial(x, y, c) \/ Take(x, y, c) \/ Activate(x, y, c) \/ ReaderEnds(x, y, c)
  \/ LoopSend(x) \/ LoopFail(x)
  \/ \E y \in Nodes : Poll(x, y)

Environment ==
  \/ \E c \in Conns : Fail(c) \/ Lose(c) \/ \E x, y \in Nodes : Cancel(x, y, c)
  \/ \E x \in Nodes : Restart(x) \/ Expire(x) \/ Administer(x)

Next ==
  \/ \E x \in Nodes : Session(x)
  \/ \E m \in msgs : Handle(m)
  \/ Environment

Spec == Init /\ [][Next]_vars

(* Fairness.  The runtime runs reader tasks, accept tasks and the event    *)
(* loop; a dial of the sync loop that can succeed does in the end (it is   *)
(* repeated every 0.5 to 3 s); events are queued, so that no kind of event *)
(* starves another.                                                        *)
Fairness ==
  /\ \A x \in Clients, y \in Servers : WF_vars(\E c \in Conns : Dial(x, y, c)) /\ WF_vars(Poll(x, y))
  /\ \A x \in Nodes :
       /\ WF_vars(\E y \in Nodes, c \in Conns :
                    Take(x, y, c) \/ Activate(x, y, c) \/ ReaderEnds(x, y, c))
       /\ WF_vars(LoopSend(x) \/ LoopFail(x))
       /\ \A T \in {Membership, ControlMessage \ Membership} :
            WF_vars(\E m \in msgs : m.to = x /\ m.body.type \in T /\ Handle(m))

FairSpec == Spec /\ Fairness

-----------------------------------------------------------------------------
(* Properties *)

(* activate() and the reader tasks of quic.rs:335-363 agree on what is      *)
(* active, whatever is replaced while another activation awaits: a session *)
(* in the map is read, or about to be, unless it is a dial of this side    *)
(* that its timeout cut short; and a connection that is read, or about to  *)
(* be, and that this side has not dropped is the session of its remote.    *)
ActiveSession ==
  \A x, y \in Nodes, c \in Conns :
    /\ peers[x][y] = c =>
         /\ Joins(c, x, y)
         /\ c \in starting[x] \cup readers[x] \/ (c \in unread[x] /\ link[c].dialer = x)
    /\ c \in starting[x] \cup readers[x] /\ x \in up[c] /\ Joins(c, x, y) => peers[x][y] = c

(* quic.rs:284, "spawn its reader loops exactly once", and 497-501, so that *)
(* "inbound traffic can never be blackholed": a session is read or about   *)
(* to be.  It does not hold: see Cancel.                                   *)
NeverBlackholed ==
  \A x, y \in Nodes : peers[x][y] # Absent => peers[x][y] \in starting[x] \cup readers[x]

(* main.rs:470 and 568, "never trust an unproven announcement": x knows a  *)
(* remote by its address only if that node signed a challenge which x had  *)
(* outstanding, in the present life of x, whatever sessions were replaced, *)
(* lost or restarted while announce, challenge and proof were under way.   *)
AnnouncedIsProven == \A x \in Nodes : announced[x] \subseteq proved[x]

\* A message of the type from u to v with this nonce is under way, or u dials for it.
Carried(u, v, type, n) ==
  \/ \E m \in msgs : m.from = u /\ m.to = v /\ m.body.type = type /\ m.body.nonce = n
  \/ loop[u] # Absent /\ loop[u].to = v /\ loop[u].body.type = type /\ loop[u].body.nonce = n

Outstanding == [x \in Nodes |-> {y \in Nodes : pending[x][y] # Absent}]

\* The remotes that signed the nonce x has outstanding for them, and whose proof is under way.
SignedOutstanding ==
  [x \in Nodes |-> {y \in Outstanding[x] : Carried(y, x, "AnnounceProof", pending[x][y])}]

Announces == INSTANCE ChallengeResponse WITH
  outstanding <- Outstanding, signed <- SignedOutstanding, known <- announced

(* quic.rs:389-444: through all the sessions that are dialed, replaced and *)
(* lost, nonces that are refreshed and proofs that arrive late or on       *)
(* another session than the challenge, the announce protocol is a plain    *)
(* challenge and response: an answer is accepted once, only to the         *)
(* challenge that is outstanding when it is accepted, and nothing else     *)
(* makes a remote known.                                                   *)
ImplementsChallengeResponse == Announces!Spec

Disturbance(x, y) ==
  \/ \E c \in Conns : Fail(c) \/ Dial(y, x, c) \/ Cancel(x, y, c)
  \/ Restart(x) \/ Restart(y)

(* quic.rs:302, "a stale entry must never block recovery": once paths and  *)
(* processes stay up, dials finish in time and the server does not dial    *)
(* back, a client that is authorized, and whose token did not expire, gets *)
(* configuration again and again, whatever half-dead sessions were left    *)
(* behind; but for the session of a dial that was cut short.               *)
EventuallyServed ==
  \A x \in Clients, y \in Servers :
    /\ <>[][~Disturbance(x, y)]_vars
    /\ <>[](authorized[x] /\ token[x] # "expired" /\ peers[x][y] \notin unread[x])
    => []<><<\E m \in msgs : m.from = y /\ m.to = x /\ HandleResponse(m)>>_vars
=============================================================================
