------------------------- MODULE QuicSessionsProofs -------------------------
(***************************************************************************)
(* Theorems about the QUIC sessions, for any number of nodes, clients,     *)
(* servers and connections, nodes that dial each other at once included.   *)
(***************************************************************************)
EXTENDS QuicSessions, TLAPS

-----------------------------------------------------------------------------
(* Bodies and messages *)

LEMMA PlainType == ASSUME NEW type \in ControlMessage PROVE Plain(type) \in Body
BY DEF Plain, Body, Token

LEMMA SignedType ==
  ASSUME NEW type \in ControlMessage, NEW nonce \in Conns \cup {Absent}
  PROVE  Signed(type, nonce) \in Body
BY DEF Signed, Body, Token

LEMMA CarryingType ==
  ASSUME NEW type \in ControlMessage, NEW tok \in Token
  PROVE  Carrying(type, tok) \in Body
BY DEF Carrying, Body

LEMMA SentType ==
  ASSUME NEW c \in Conns, NEW x \in Nodes, NEW y \in Nodes, x # y, NEW body \in Body
  PROVE  Sent(c, x, y, body) \in SUBSET Message
BY DEF Sent, Message

LEMMA MessageType ==
  ASSUME SessionsTypeOK, NEW m \in msgs
  PROVE  /\ m.conn \in Conns /\ m.from \in Nodes /\ m.to \in Nodes /\ m.from # m.to
         /\ m.body \in Body
         /\ m.body.type \in ControlMessage /\ m.body.nonce \in Conns \cup {Absent}
         /\ m.body.token \in Token
<1>1. m \in Message
  BY DEF SessionsTypeOK
<1> QED
  BY <1>1 DEF Message, Body

\* A connection joins two different nodes, and no other two.
LEMMA JoinsType ==
  ASSUME SessionsTypeOK, NEW c \in Conns, NEW x \in Nodes, NEW y \in Nodes, Joins(c, x, y)
  PROVE  x # y /\ \A z \in Nodes : Joins(c, x, z) => z = y
<1>1. link[c] \in Link /\ {link[c].dialer, link[c].acceptor} = {x, y}
  BY DEF SessionsTypeOK, Joins
<1>2. link[c].dialer # link[c].acceptor
  BY <1>1 DEF Link
<1>3. ASSUME NEW z \in Nodes, Joins(c, x, z) PROVE z = y
  <2>1. {link[c].dialer, link[c].acceptor} = {x, z}
    BY <1>3 DEF Joins
  <2> QED
    BY <1>1, <1>2, <2>1
<1> QED
  BY <1>1, <1>2, <1>3

-----------------------------------------------------------------------------
(* Types, and the session of a remote *)

\* A side that has the handshake before it has not taken the connection yet.
Apart == \A c \in Conns, x \in Nodes : x \in fresh[c] => c \notin starting[x]

SessionInv == SessionsTypeOK /\ ActiveSession /\ Apart

\* The session of a remote joins two different nodes.
LEMMA PeerType ==
  ASSUME SessionInv, NEW x \in Nodes, NEW y \in Nodes, peers[x][y] # Absent
  PROVE  peers[x][y] \in Conns /\ x # y
<1>1. peers[x][y] \in Conns
  BY DEF SessionInv, SessionsTypeOK
<1>2. Joins(peers[x][y], x, y)
  BY <1>1 DEF SessionInv, ActiveSession
<1> QED
  BY <1>1, <1>2, JoinsType DEF SessionInv

\* The sessions stay, and whatever changes in the rest has its type.
LEMMA SessionKept ==
  ASSUME SessionInv, UNCHANGED sessionVars
  PROVE  /\ ActiveSession' /\ Apart'
         /\ link' \in [Conns -> Link \cup {Absent}]
         /\ fresh' \in [Conns -> SUBSET Nodes]
         /\ up' \in [Conns -> SUBSET Nodes]
         /\ peers' \in [Nodes -> [Nodes -> Conns \cup {Absent}]]
         /\ starting' \in [Nodes -> SUBSET Conns]
         /\ readers' \in [Nodes -> SUBSET Conns]
         /\ unread' \in [Nodes -> SUBSET Conns]
<1>1. /\ link' = link /\ fresh' = fresh /\ up' = up /\ peers' = peers
      /\ starting' = starting /\ readers' = readers /\ unread' = unread
  BY DEF sessionVars
<1>2. \A k \in Conns, u, v \in Nodes : Joins(k, u, v)' <=> Joins(k, u, v)
  BY <1>1 DEF Joins
<1>3. ActiveSession'
  BY <1>1, <1>2 DEF SessionInv, ActiveSession
<1>4. Apart'
  BY <1>1 DEF SessionInv, Apart
<1> QED
  BY <1>1, <1>3, <1>4 DEF SessionInv, SessionsTypeOK

LEMMA AnswerType ==
  ASSUME SessionInv, NEW m \in msgs, NEW body \in Body, Answer(m, body)
  PROVE  /\ msgs' \subseteq Message
         /\ loop' \in [Nodes -> Reply \cup {Absent}]
         /\ \A x \in Nodes : loop'[x] # Absent => loop'[x].to # x
<1>1. m.from \in Nodes /\ m.to \in Nodes /\ m.from # m.to
  BY MessageType DEF SessionInv
<1>2. msgs \subseteq Message
  BY DEF SessionInv, SessionsTypeOK
<1>3. CASE peers[m.to][m.from] # Absent
  <2>1. Sent(peers[m.to][m.from], m.to, m.from, body) \in SUBSET Message
    BY <1>1, <1>3, PeerType, SentType
  <2>2. msgs' = (msgs \ {m}) \cup Sent(peers[m.to][m.from], m.to, m.from, body) /\ loop' = loop
    BY <1>3 DEF Answer
  <2> QED
    BY <1>2, <2>1, <2>2 DEF SessionInv, SessionsTypeOK
<1>4. CASE peers[m.to][m.from] = Absent
  <2>1. [to |-> m.from, body |-> body] \in Reply
    BY <1>1 DEF Reply
  <2>2. msgs' = msgs \ {m} /\ loop' = [loop EXCEPT ![m.to] = [to |-> m.from, body |-> body]]
    BY <1>4 DEF Answer
  <2> QED
    BY <1>1, <1>2, <2>1, <2>2 DEF SessionInv, SessionsTypeOK
<1> QED
  BY <1>3, <1>4

LEMMA DroppedType ==
  ASSUME SessionInv, NEW m \in msgs, Dropped(m)
  PROVE  /\ msgs' \subseteq Message
         /\ loop' \in [Nodes -> Reply \cup {Absent}]
         /\ \A x \in Nodes : loop'[x] # Absent => loop'[x].to # x
<1>1. msgs' = msgs \ {m} /\ loop' = loop
  BY DEF Dropped
<1>2. msgs \subseteq Message /\ loop \in [Nodes -> Reply \cup {Absent}]
      /\ \A x \in Nodes : loop[x] # Absent => loop[x].to # x
  BY DEF SessionInv, SessionsTypeOK
<1> QED
  BY <1>1, <1>2

LEMMA HandleType ==
  ASSUME SessionInv, NEW m \in msgs, Handle(m)
  PROVE  SessionInv'
<1> USE DEF SessionInv
<1>1. /\ m.conn \in Conns /\ m.from \in Nodes /\ m.to \in Nodes
      /\ m.body.nonce \in Conns \cup {Absent} /\ m.body.token \in Token
  BY MessageType
<1>2. CASE HandleAnnounce(m)
  <2>1. Signed("NodeChallenge", m.conn) \in Body
    BY <1>1, SignedType DEF ControlMessage
  <2>2. pending' \in [Nodes -> [Nodes -> Conns \cup {Absent}]]
    BY <1>1, <1>2 DEF HandleAnnounce, Challenged, SessionsTypeOK
  <2> QED
    BY <1>2, <2>1, <2>2, AnswerType, SessionKept DEF HandleAnnounce, SessionsTypeOK, memberVars
<1>3. CASE HandleChallenge(m)
  <2>1. Signed("AnnounceProof", m.body.nonce) \in Body
    BY <1>1, SignedType DEF ControlMessage
  <2>2. proved' \in [Nodes -> SUBSET Nodes]
    BY <1>1, <1>3 DEF HandleChallenge, SessionsTypeOK
  <2> QED
    BY <1>3, <2>1, <2>2, AnswerType, SessionKept DEF HandleChallenge, SessionsTypeOK, memberVars
<1>4. CASE HandleProof(m)
  <2>1. pending' \in [Nodes -> [Nodes -> Conns \cup {Absent}]] /\ announced' \in [Nodes -> SUBSET Nodes]
    <3>1. Challenged(m.to, m.from, Absent) \in [Nodes -> [Nodes -> Conns \cup {Absent}]]
      BY <1>1 DEF Challenged, SessionsTypeOK
    <3>2. Remembered(m.to, m.from) \in [Nodes -> SUBSET Nodes]
      BY <1>1 DEF Remembered, SessionsTypeOK
    <3>3. \/ pending' = Challenged(m.to, m.from, Absent) /\ announced' = Remembered(m.to, m.from)
          \/ pending' = pending /\ announced' = announced
      BY <1>4 DEF HandleProof
    <3> QED
      BY <3>1, <3>2, <3>3 DEF SessionsTypeOK
  <2> QED
    BY <1>4, <2>1, DroppedType, SessionKept DEF HandleProof, SessionsTypeOK, memberVars
<1>5. CASE HandleRequest(m)
  <2>1. \A tok \in {"valid", "none"} : Carrying("NetworkConfigResponse", tok) \in Body
    BY CarryingType DEF ControlMessage, Token
  <2>2. Dropped(m) \/ \E tok \in {"valid", "none"} : Answer(m, Carrying("NetworkConfigResponse", tok))
    BY <1>5 DEF HandleRequest
  <2>3. /\ msgs' \subseteq Message
        /\ loop' \in [Nodes -> Reply \cup {Absent}]
        /\ \A x \in Nodes : loop'[x] # Absent => loop'[x].to # x
    BY <2>1, <2>2, AnswerType, DroppedType
  <2> QED
    BY <1>5, <2>3, SessionKept DEF HandleRequest, SessionsTypeOK, identityVars, memberVars
<1>6. CASE HandleResponse(m)
  <2>1. token' \in [Nodes -> Token]
    BY <1>1, <1>6 DEF HandleResponse, SessionsTypeOK
  <2> QED
    BY <1>6, <2>1, DroppedType, SessionKept DEF HandleResponse, SessionsTypeOK, identityVars
<1> QED
  BY <1>2, <1>3, <1>4, <1>5, <1>6 DEF Handle

LEMMA DialType ==
  ASSUME SessionInv, NEW x \in Nodes, NEW y \in Nodes, NEW c \in Conns, Dial(x, y, c)
  PROVE  SessionInv'
<1> USE DEF SessionInv
<1>1. [dialer |-> x, acceptor |-> y] \in Link
  BY DEF Dial, Link
<1>2. SessionsTypeOK'
  BY <1>1 DEF Dial, SessionsTypeOK, memberVars
<1>3. \A u \in Nodes : c \notin starting[u] \cup readers[u] /\ \A v \in Nodes : peers[u][v] # c
  BY DEF Dial, Unused
<1>4. \A k \in Conns \ {c} :
        /\ link'[k] = link[k] /\ up'[k] = up[k] /\ fresh'[k] = fresh[k]
        /\ \A u, v \in Nodes : Joins(k, u, v)' <=> Joins(k, u, v)
  BY DEF Dial, Joins, SessionsTypeOK
<1>5. peers' = peers /\ starting' = starting /\ readers' = readers /\ unread' = unread
  BY DEF Dial
<1>6. ActiveSession'
  BY <1>3, <1>4, <1>5 DEF ActiveSession
<1>7. Apart'
  BY <1>3, <1>4, <1>5 DEF Apart
<1> QED
  BY <1>2, <1>6, <1>7

LEMMA TakeType ==
  ASSUME SessionInv, NEW x \in Nodes, NEW y \in Nodes, NEW c \in Conns, Take(x, y, c)
  PROVE  SessionInv'
<1> USE DEF SessionInv
<1>1. SessionsTypeOK'
  BY DEF Take, SessionsTypeOK, identityVars, memberVars
<1>2. link' = link /\ Joins(c, x, y) /\ x # y
  BY DEF Take
<1>3. \A k \in Conns, u, v \in Nodes : Joins(k, u, v)' <=> Joins(k, u, v)
  BY <1>2 DEF Joins
<1>4. /\ peers'[x][y] = c
      /\ \A u, v \in Nodes : u # x \/ v # y => peers'[u][v] = peers[u][v]
      /\ starting'[x] = starting[x] \cup {c}
      /\ unread'[x] = unread[x] \ {peers[x][y]}
      /\ \A u \in Nodes \ {x} : starting'[u] = starting[u] /\ unread'[u] = unread[u]
      /\ readers' = readers
      /\ \A k \in Conns : up'[k] = IF k = peers[x][y] THEN up[k] \ {x} ELSE up[k]
      /\ fresh'[c] = fresh[c] \ {x} /\ \A k \in Conns \ {c} : fresh'[k] = fresh[k]
  BY DEF Take, SessionsTypeOK
<1>5. ASSUME NEW u \in Nodes, NEW v \in Nodes, NEW k \in Conns
      PROVE  /\ peers'[u][v] = k =>
                  /\ Joins(k, u, v)
                  /\ k \in starting'[u] \cup readers'[u] \/ (k \in unread'[u] /\ link[k].dialer = u)
             /\ k \in starting'[u] \cup readers'[u] /\ u \in up'[k] /\ Joins(k, u, v) => peers'[u][v] = k
  <2>1. /\ peers[u][v] = k =>
             /\ Joins(k, u, v)
             /\ k \in starting[u] \cup readers[u] \/ (k \in unread[u] /\ link[k].dialer = u)
        /\ k \in starting[u] \cup readers[u] /\ u \in up[k] /\ Joins(k, u, v) => peers[u][v] = k
    BY DEF ActiveSession
  <2>2. CASE u # x
    BY <1>4, <2>1, <2>2
  <2>3. CASE u = x /\ v # y
    <3>1. k = c => ~Joins(k, u, v)
      BY <1>2, <2>3, JoinsType
    <3>2. k = peers[x][y] => ~Joins(k, u, v)
      <4>1. k = peers[x][y] => Joins(k, x, y)
        BY DEF ActiveSession
      <4> QED
        BY <2>3, <4>1, JoinsType
    <3> QED
      BY <1>4, <2>1, <2>3, <3>1, <3>2
  <2>4. CASE u = x /\ v = y
    BY <1>2, <1>4, <2>1, <2>4
  <2> QED
    BY <2>2, <2>3, <2>4
<1>6. ActiveSession'
  BY <1>2, <1>3, <1>5 DEF ActiveSession
<1>7. Apart'
  BY <1>4 DEF Apart
<1> QED
  BY <1>1, <1>6, <1>7

LEMMA ActivateType ==
  ASSUME SessionInv, NEW x \in Nodes, NEW y \in Nodes, NEW c \in Conns, Activate(x, y, c)
  PROVE  SessionInv'
<1> USE DEF SessionInv
<1>1. Plain("NodeAnnounce") \in Body
  BY PlainType DEF ControlMessage
<1>2. Sent(c, x, y, Plain("NodeAnnounce")) \in SUBSET Message
  BY <1>1, SentType DEF Activate
<1>3. msgs' \subseteq Message
  BY <1>2 DEF Activate, SessionsTypeOK
<1>4. SessionsTypeOK'
  BY <1>3 DEF Activate, SessionsTypeOK, identityVars, memberVars
<1>5. /\ link' = link /\ fresh' = fresh /\ up' = up /\ peers' = peers /\ unread' = unread
      /\ \A u \in Nodes : /\ starting'[u] \cup readers'[u] = starting[u] \cup readers[u]
                          /\ starting'[u] \subseteq starting[u]
  BY DEF Activate, SessionsTypeOK
<1>6. \A k \in Conns, u, v \in Nodes : Joins(k, u, v)' <=> Joins(k, u, v)
  BY <1>5 DEF Joins
<1>7. ActiveSession'
  BY <1>5, <1>6 DEF ActiveSession
<1>8. Apart'
  BY <1>5 DEF Apart
<1> QED
  BY <1>4, <1>7, <1>8

\* What a dial that is cut short leaves of the state of its side.
LEMMA CancelEffect ==
  ASSUME SessionsTypeOK, NEW x \in Nodes, NEW y \in Nodes, NEW c \in Conns, Cancel(x, y, c)
  PROVE  /\ fresh' \in [Conns -> SUBSET Nodes] /\ up' \in [Conns -> SUBSET Nodes]
         /\ starting' \in [Nodes -> SUBSET Conns] /\ unread' \in [Nodes -> SUBSET Conns]
         /\ \A k \in Conns, u \in Nodes :
              /\ u \in fresh'[k] => u \in fresh[k]
              /\ u \in up'[k] => u \in up[k]
              /\ k \in starting'[u] => k \in starting[u]
              /\ k \in unread[u] => k \in unread'[u]
              /\ k \in starting[u] => k \in starting'[u] \/ (u = x /\ k = c)
         /\ c \in starting[x] /\ c \notin starting'[x] /\ peers[x][y] = c => c \in unread'[x]
<1> USE DEF SessionsTypeOK
<1>1. CASE /\ fresh' = [fresh EXCEPT ![c] = @ \ {x}]
           /\ up' = [up EXCEPT ![c] = @ \ {x}]
           /\ starting' = starting /\ unread' = unread
  BY <1>1
<1>2. ASSUME starting' = [starting EXCEPT ![x] = @ \ {c}],
             NEW more \in SUBSET Conns, unread' = [unread EXCEPT ![x] = @ \cup more],
             peers[x][y] = c => c \in more, fresh' = fresh, up' = up
      PROVE  /\ starting' \in [Nodes -> SUBSET Conns] /\ unread' \in [Nodes -> SUBSET Conns]
             /\ \A k \in Conns, u \in Nodes :
                  /\ k \in starting'[u] => k \in starting[u]
                  /\ k \in unread[u] => k \in unread'[u]
                  /\ k \in starting[u] => k \in starting'[u] \/ (u = x /\ k = c)
             /\ peers[x][y] = c => c \in unread'[x]
  BY <1>2
<1>3. CASE /\ starting' = [starting EXCEPT ![x] = @ \ {c}]
           /\ unread' = [unread EXCEPT ![x] = IF peers[x][y] = c THEN @ \cup {c} ELSE @]
           /\ fresh' = fresh /\ up' = up
  <2>1. CASE peers[x][y] = c
    <3>1. unread' = [unread EXCEPT ![x] = @ \cup {c}]
      BY <1>3, <2>1
    <3> QED
      BY <1>2, <1>3, <3>1
  <2>2. CASE peers[x][y] # c
    <3>1. unread' = unread
      BY <1>3, <2>2
    <3>2. unread' = [unread EXCEPT ![x] = @ \cup {}]
      BY <3>1
    <3> QED
      BY <1>2, <1>3, <2>2, <3>2
  <2> QED
    BY <2>1, <2>2
<1> QED
  BY <1>1, <1>3 DEF Cancel

LEMMA CancelType ==
  ASSUME SessionInv, NEW x \in Nodes, NEW y \in Nodes, NEW c \in Conns, Cancel(x, y, c)
  PROVE  SessionInv'
<1> USE DEF SessionInv
<1>1. msgs' \subseteq Message
  BY DEF Cancel, SessionsTypeOK
<1>2. SessionsTypeOK'
  <2>1. /\ fresh' \in [Conns -> SUBSET Nodes] /\ up' \in [Conns -> SUBSET Nodes]
        /\ starting' \in [Nodes -> SUBSET Conns] /\ unread' \in [Nodes -> SUBSET Conns]
    BY CancelEffect
  <2>2. /\ link' = link /\ peers' = peers /\ readers' = readers /\ pending' = pending
        /\ announced' = announced /\ proved' = proved /\ token' = token
        /\ authorized' = authorized /\ loop' = loop
    BY DEF Cancel, identityVars, memberVars
  <2> QED
    BY <1>1, <2>1, <2>2 DEF SessionsTypeOK
<1>3. /\ link' = link /\ peers' = peers /\ readers' = readers
      /\ link[c] = [dialer |-> x, acceptor |-> y] /\ link[c].dialer = x /\ x # y
  BY DEF Cancel
<1>4. \A k \in Conns, u, v \in Nodes : Joins(k, u, v)' <=> Joins(k, u, v)
  BY <1>3 DEF Joins
<1>5. Joins(c, x, y)
  <2>1. [dialer |-> x, acceptor |-> y] \in Link
    BY <1>3 DEF Link
  <2> QED
    BY <1>3, <2>1, SessionAssumption DEF Joins
<1>6. ASSUME NEW u \in Nodes, NEW v \in Nodes, NEW k \in Conns, peers[u][v] = k
      PROVE  k \in starting'[u] \cup readers[u] \/ (k \in unread'[u] /\ link[k].dialer = u)
  <2>1. /\ Joins(k, u, v)
        /\ k \in starting[u] \cup readers[u] \/ (k \in unread[u] /\ link[k].dialer = u)
    BY <1>6 DEF ActiveSession
  <2>2. CASE k \in starting[u] /\ k \notin starting'[u]
    <3>1. u = x /\ k = c
      BY CancelEffect, <1>3, <2>2
    <3>2. v = y
      BY <1>5, <2>1, <3>1, JoinsType
    <3> QED
      BY CancelEffect, <1>3, <1>6, <2>2, <3>1, <3>2
  <2> QED
    BY CancelEffect, <1>3, <2>1, <2>2
<1>7. ActiveSession'
  BY CancelEffect, <1>3, <1>4, <1>6 DEF ActiveSession
<1>8. Apart'
  BY CancelEffect, <1>3 DEF Apart
<1> QED
  BY <1>2, <1>7, <1>8

LEMMA ReaderEndsType ==
  ASSUME SessionInv, NEW x \in Nodes, NEW y \in Nodes, NEW c \in Conns, ReaderEnds(x, y, c)
  PROVE  SessionInv'
<1> USE DEF SessionInv
<1>1. SessionsTypeOK'
  BY DEF ReaderEnds, SessionsTypeOK, memberVars
<1>2. link' = link /\ fresh' = fresh /\ starting' = starting /\ unread' = unread /\ Joins(c, x, y)
  BY DEF ReaderEnds
<1>3. \A k \in Conns, u, v \in Nodes : Joins(k, u, v)' <=> Joins(k, u, v)
  BY <1>2 DEF Joins
<1>4. /\ peers'[x][y] = IF peers[x][y] = c THEN Absent ELSE peers[x][y]
      /\ \A u, v \in Nodes : u # x \/ v # y => peers'[u][v] = peers[u][v]
      /\ readers'[x] = readers[x] \ {c}
      /\ \A u \in Nodes \ {x} : readers'[u] = readers[u]
      /\ \A k \in Conns : up'[k] = IF k = c THEN up[k] \ {x} ELSE up[k]
  BY DEF ReaderEnds, SessionsTypeOK
<1>5. ASSUME NEW u \in Nodes, NEW v \in Nodes, NEW k \in Conns
      PROVE  /\ peers'[u][v] = k =>
                  /\ Joins(k, u, v)
                  /\ k \in starting[u] \cup readers'[u] \/ (k \in unread[u] /\ link[k].dialer = u)
             /\ k \in starting[u] \cup readers'[u] /\ u \in up'[k] /\ Joins(k, u, v) => peers'[u][v] = k
  <2>1. /\ peers[u][v] = k =>
             /\ Joins(k, u, v)
             /\ k \in starting[u] \cup readers[u] \/ (k \in unread[u] /\ link[k].dialer = u)
        /\ k \in starting[u] \cup readers[u] /\ u \in up[k] /\ Joins(k, u, v) => peers[u][v] = k
    BY DEF ActiveSession
  <2>2. CASE u # x
    BY <1>4, <2>1, <2>2
  <2>3. CASE u = x /\ v # y
    <3>1. k = c => ~Joins(k, u, v)
      BY <1>2, <2>3, JoinsType
    <3> QED
      BY <1>4, <2>1, <2>3, <3>1
  <2>4. CASE u = x /\ v = y
    BY <1>2, <1>4, <2>1, <2>4, SessionAssumption
  <2> QED
    BY <2>2, <2>3, <2>4
<1>6. ActiveSession'
  BY <1>2, <1>3, <1>5 DEF ActiveSession
<1>7. Apart'
  BY <1>2 DEF Apart
<1> QED
  BY <1>1, <1>6, <1>7

LEMMA FaultType ==
  ASSUME SessionInv, Environment
  PROVE  SessionInv'
<1> USE DEF SessionInv
<1>1. ASSUME NEW c \in Conns, Fail(c) PROVE SessionInv'
  <2>1. SessionsTypeOK'
    BY <1>1 DEF Fail, SessionsTypeOK, identityVars, memberVars
  <2>2. /\ link' = link /\ fresh' = fresh /\ peers' = peers
        /\ starting' = starting /\ readers' = readers /\ unread' = unread
        /\ \A k \in Conns : up'[k] \subseteq up[k]
    BY <1>1 DEF Fail, SessionsTypeOK
  <2>3. \A k \in Conns, u, v \in Nodes : Joins(k, u, v)' <=> Joins(k, u, v)
    BY <2>2 DEF Joins
  <2>4. ActiveSession'
    BY <2>2, <2>3 DEF ActiveSession
  <2>5. Apart'
    BY <2>2 DEF Apart
  <2> QED
    BY <2>1, <2>4, <2>5
<1>2. ASSUME NEW c \in Conns, Lose(c) PROVE SessionInv'
  <2>1. msgs' \subseteq Message
    BY <1>2 DEF Lose, SessionsTypeOK
  <2> QED
    BY <1>2, <2>1, SessionKept DEF Lose, SessionsTypeOK, identityVars, memberVars
<1>3. ASSUME NEW x \in Nodes, Restart(x) PROVE SessionInv'
  <2>1. msgs' \subseteq Message
    BY <1>3 DEF Restart, SessionsTypeOK
  <2>2. /\ loop' \in [Nodes -> Reply \cup {Absent}]
        /\ \A u \in Nodes : loop'[u] # Absent => loop'[u].to # u
    BY <1>3 DEF Restart, SessionsTypeOK
  <2>3. SessionsTypeOK'
    BY <1>3, <2>1, <2>2 DEF Restart, SessionsTypeOK, memberVars
  <2>4. /\ link' = link
        /\ \A v \in Nodes : peers'[x][v] = Absent
        /\ starting'[x] = {} /\ readers'[x] = {}
        /\ \A u \in Nodes \ {x} : /\ peers'[u] = peers[u] /\ starting'[u] = starting[u]
                                 /\ readers'[u] = readers[u] /\ unread'[u] = unread[u]
        /\ \A k \in Conns : up'[k] = up[k] \ {x} /\ fresh'[k] = fresh[k] \ {x}
    BY <1>3 DEF Restart, SessionsTypeOK
  <2>5. \A k \in Conns, u, v \in Nodes : Joins(k, u, v)' <=> Joins(k, u, v)
    BY <2>4 DEF Joins
  <2>6. ActiveSession'
    BY <2>4, <2>5, SessionAssumption DEF ActiveSession
  <2>7. Apart'
    BY <2>4 DEF Apart
  <2> QED
    BY <2>3, <2>6, <2>7
<1>4. ASSUME NEW x \in Nodes, Expire(x) PROVE SessionInv'
  <2>1. token' \in [Nodes -> Token]
    BY <1>4 DEF Expire, SessionsTypeOK, Token
  <2> QED
    BY <1>4, <2>1, SessionKept DEF Expire, SessionsTypeOK, identityVars
<1>5. ASSUME NEW x \in Nodes, Administer(x) PROVE SessionInv'
  <2>1. authorized' \in [Nodes -> BOOLEAN]
    BY <1>5 DEF Administer, SessionsTypeOK
  <2> QED
    BY <1>5, <2>1, SessionKept DEF Administer, SessionsTypeOK, identityVars
<1> QED
  BY <1>1, <1>2, <1>3, <1>4, <1>5, CancelType DEF Environment

LEMMA SendType ==
  ASSUME SessionInv, NEW x \in Nodes,
         LoopSend(x) \/ LoopFail(x) \/ \E y \in Nodes : Poll(x, y)
  PROVE  SessionInv'
<1> USE DEF SessionInv
<1>1. CASE LoopSend(x)
  <2>1. loop[x] \in Reply /\ loop[x].to # x
    BY <1>1 DEF LoopSend, SessionsTypeOK
  <2>2. loop[x].to \in Nodes /\ loop[x].body \in Body
    BY <2>1 DEF Reply
  <2>3. peers[x][loop[x].to] \in Conns
    BY <1>1, <2>2, PeerType DEF LoopSend
  <2>4. Sent(peers[x][loop[x].to], x, loop[x].to, loop[x].body) \in SUBSET Message
    BY <2>1, <2>2, <2>3, SentType
  <2>5. msgs' \subseteq Message
    BY <1>1, <2>4 DEF LoopSend, SessionsTypeOK
  <2>6. /\ loop' \in [Nodes -> Reply \cup {Absent}]
        /\ \A u \in Nodes : loop'[u] # Absent => loop'[u].to # u
    BY <1>1 DEF LoopSend, SessionsTypeOK
  <2> QED
    BY <1>1, <2>5, <2>6, SessionKept DEF LoopSend, SessionsTypeOK, identityVars, memberVars
<1>2. CASE LoopFail(x)
  <2>1. /\ loop' \in [Nodes -> Reply \cup {Absent}]
        /\ \A u \in Nodes : loop'[u] # Absent => loop'[u].to # u
    BY <1>2 DEF LoopFail, SessionsTypeOK
  <2> QED
    BY <1>2, <2>1, SessionKept DEF LoopFail, SessionsTypeOK, identityVars, memberVars
<1>3. ASSUME NEW y \in Nodes, Poll(x, y) PROVE SessionInv'
  <2>1. peers[x][y] \in Conns /\ x # y
    BY <1>3, PeerType DEF Poll
  <2>2. Carrying("NetworkConfigRequest", token[x]) \in Body
    BY CarryingType DEF SessionsTypeOK, ControlMessage
  <2>3. Sent(peers[x][y], x, y, Carrying("NetworkConfigRequest", token[x])) \in SUBSET Message
    BY <2>1, <2>2, SentType
  <2>4. msgs' \subseteq Message
    BY <1>3, <2>3 DEF Poll, SessionsTypeOK
  <2> QED
    BY <1>3, <2>4, SessionKept DEF Poll, SessionsTypeOK, identityVars, memberVars
<1> QED
  BY <1>1, <1>2, <1>3

LEMMA SessionInit == Init => SessionInv
<1> SUFFICES ASSUME Init PROVE SessionInv
  OBVIOUS
<1>1. SessionsTypeOK
  BY DEF Init, SessionsTypeOK, Token
<1>2. ActiveSession
  BY SessionAssumption DEF Init, ActiveSession
<1>3. Apart
  BY DEF Init, Apart
<1> QED
  BY <1>1, <1>2, <1>3 DEF SessionInv

LEMMA SessionStep == SessionInv /\ [Next]_vars => SessionInv'
<1> SUFFICES ASSUME SessionInv, [Next]_vars PROVE SessionInv'
  OBVIOUS
<1>1. ASSUME NEW x \in Nodes, Session(x) PROVE SessionInv'
  BY <1>1, DialType, TakeType, ActivateType, ReaderEndsType, SendType DEF Session
<1>2. CASE UNCHANGED vars
  BY <1>2, SessionKept DEF vars, SessionInv, SessionsTypeOK, identityVars, memberVars
<1> QED
  BY <1>1, <1>2, HandleType, FaultType DEF Next

(* The type invariant of the sessions: among others, no node ever holds a  *)
(* message or a reply to itself, although it may dial any address.         *)
THEOREM SessionsTypeCorrect == Spec => []SessionsTypeOK
<1>1. SessionInv => SessionsTypeOK
  BY DEF SessionInv
<1> QED
  BY <1>1, SessionInit, SessionStep, PTL DEF Spec

(* The map and the readers agree on the one session a node has with a      *)
(* remote, however the two dial each other, fail and restart, whatever is  *)
(* replaced while an activation awaits: nobody but a node's own cancelled  *)
(* dial leaves it a session that is not read.                              *)
THEOREM ActiveSessionCorrect == Spec => []ActiveSession
<1>1. SessionInv => ActiveSession
  BY DEF SessionInv
<1> QED
  BY <1>1, SessionInit, SessionStep, PTL DEF Spec

-----------------------------------------------------------------------------
(* What is announced was proven *)

Signatures == {"NodeChallenge", "AnnounceProof"}

Announcing(y, x, n) ==
  \E m \in msgs : m.conn = n /\ m.from = y /\ m.to = x /\ m.body.type = "NodeAnnounce"

\* y has not announced itself on n yet.
Unopened(y, n) == y \in fresh[n] \/ n \in starting[y]

\* The announce of y to x that connection n carries has not been handled yet.
Unannounced(y, x, n) == Unopened(y, n) \/ Announcing(y, x, n)

\* An announce says nothing else; challenges and proofs have a nonce; a reply announces nothing.
BodiesInv ==
  /\ \A m \in msgs :
       /\ m.body.type = "NodeAnnounce" => m.body = Plain("NodeAnnounce")
       /\ m.body.type \in Signatures => m.body.nonce # Absent
  /\ \A x \in Nodes : loop[x] # Absent =>
       /\ loop[x].body.type # "NodeAnnounce"
       /\ loop[x].body.type \in Signatures => loop[x].body.nonce # Absent

\* A nonce comes into the world when the announce on its connection is handled, and a
\* proof of an outstanding nonce was signed while it was outstanding.
NonceInv ==
  /\ \A x, y \in Nodes, n \in Conns : Unopened(y, n) => ~Announcing(y, x, n)
  /\ \A x, y \in Nodes, n \in Conns : Unannounced(y, x, n) =>
       /\ ~Carried(x, y, "NodeChallenge", n)
       /\ ~Carried(y, x, "AnnounceProof", n)
       /\ pending[x][y] # n
  /\ \A x, y \in Nodes, n \in Conns :
       Carried(y, x, "AnnounceProof", n) /\ pending[x][y] = n => y \in proved[x]
  /\ AnnouncedIsProven

ProofInv == BodiesInv /\ NonceInv

\* Steps after which no more is under way, outstanding or announced than before, and
\* no announce has yet to be handled that was handled already.
LEMMA NonceStep ==
  ASSUME NonceInv,
         \A u, v \in Nodes, n \in Conns, type \in Signatures : Carried(u, v, type, n)' => Carried(u, v, type, n),
         \A u, v \in Nodes, n \in Conns : Unopened(u, n)' => ~Announcing(u, v, n)',
         \A u, v \in Nodes, n \in Conns : Unannounced(u, v, n)' => Unannounced(u, v, n),
         \A u, v \in Nodes : pending'[u][v] \in {pending[u][v], Absent},
         \A u, v \in Nodes : v \in announced'[u] => v \in announced[u],
         \A u, v \in Nodes : v \in proved[u] =>
           (v \in proved'[u] \/ (v \notin announced'[u] /\ pending'[u][v] = Absent)),
         announced' \in [Nodes -> SUBSET Nodes]
  PROVE  NonceInv'
<1>1. ASSUME NEW x \in Nodes, NEW y \in Nodes, NEW n \in Conns, Unannounced(y, x, n)'
      PROVE  /\ ~Carried(x, y, "NodeChallenge", n)'
             /\ ~Carried(y, x, "AnnounceProof", n)'
             /\ pending'[x][y] # n
  <2>1. /\ ~Carried(x, y, "NodeChallenge", n)
        /\ ~Carried(y, x, "AnnounceProof", n)
        /\ pending[x][y] # n
    BY <1>1 DEF NonceInv
  <2> QED
    BY <2>1, SessionAssumption DEF Signatures
<1>2. ASSUME NEW x \in Nodes, NEW y \in Nodes, NEW n \in Conns,
             Carried(y, x, "AnnounceProof", n)', pending'[x][y] = n
      PROVE  y \in proved'[x]
  <2>1. Carried(y, x, "AnnounceProof", n)
    BY <1>2 DEF Signatures
  <2>2. pending[x][y] = n /\ pending'[x][y] # Absent
    BY <1>2, SessionAssumption
  <2>3. y \in proved[x]
    BY <2>1, <2>2 DEF NonceInv
  <2> QED
    BY <2>2, <2>3
<1>3. AnnouncedIsProven'
  BY DEF NonceInv, AnnouncedIsProven
<1> QED
  BY <1>1, <1>2, <1>3 DEF NonceInv

\* The same, where no connection is fresh and no announce under way that was not before.
LEMMA NonceKept ==
  ASSUME NonceInv,
         \A u, v \in Nodes, n \in Conns, type \in Signatures : Carried(u, v, type, n)' => Carried(u, v, type, n),
         \A u, v \in Nodes, n \in Conns : Announcing(u, v, n)' => Announcing(u, v, n),
         \A n \in Conns, u \in Nodes : Unopened(u, n)' => Unopened(u, n),
         \A u, v \in Nodes : pending'[u][v] \in {pending[u][v], Absent},
         \A u, v \in Nodes : v \in announced'[u] => v \in announced[u],
         \A u, v \in Nodes : v \in proved[u] =>
           (v \in proved'[u] \/ (v \notin announced'[u] /\ pending'[u][v] = Absent)),
         announced' \in [Nodes -> SUBSET Nodes]
  PROVE  NonceInv'
<1>1. \A u, v \in Nodes, n \in Conns : Unopened(u, n)' => ~Announcing(u, v, n)'
  BY DEF NonceInv
<1>2. \A u, v \in Nodes, n \in Conns : Unannounced(u, v, n)' => Unannounced(u, v, n)
  BY DEF Unannounced
<1> QED
  BY <1>1, <1>2, NonceStep

\* What a reply puts under way.
LEMMA AnswerCarries ==
  ASSUME SessionInv, BodiesInv, NEW m \in msgs, NEW body \in Body, Answer(m, body), loop[m.to] = Absent,
         body.type # "NodeAnnounce", body.type \in Signatures => body.nonce # Absent
  PROVE  /\ BodiesInv'
         /\ \A u, v \in Nodes, n \in Conns, type \in Signatures : Carried(u, v, type, n)' =>
              \/ Carried(u, v, type, n)
              \/ u = m.to /\ v = m.from /\ type = body.type /\ n = body.nonce
         /\ \A u, v \in Nodes, n \in Conns : Announcing(u, v, n)' =>
              \E k \in msgs \ {m} : k.conn = n /\ k.from = u /\ k.to = v /\ k.body.type = "NodeAnnounce"
<1>1. \A k \in msgs' : k \in msgs \ {m} \/ (k.from = m.to /\ k.to = m.from /\ k.body = body)
  BY DEF Answer, Sent
<1>2. \A u \in Nodes : \/ loop'[u] = loop[u]
                       \/ u = m.to /\ loop'[u] = [to |-> m.from, body |-> body]
  BY DEF Answer, SessionInv, SessionsTypeOK
<1>3. BodiesInv'
  BY <1>1, <1>2 DEF BodiesInv
<1>4. ASSUME NEW u \in Nodes, NEW v \in Nodes, NEW n \in Conns, NEW type \in Signatures,
             Carried(u, v, type, n)', ~Carried(u, v, type, n)
      PROVE  u = m.to /\ v = m.from /\ type = body.type /\ n = body.nonce
  <2>1. CASE \E k \in msgs' : k.from = u /\ k.to = v /\ k.body.type = type /\ k.body.nonce = n
    BY <1>1, <1>4, <2>1 DEF Carried
  <2>2. CASE loop'[u] # Absent /\ loop'[u].to = v /\ loop'[u].body.type = type /\ loop'[u].body.nonce = n
    BY <1>2, <1>4, <2>2 DEF Carried
  <2> QED
    BY <1>4, <2>1, <2>2 DEF Carried
<1>5. \A u, v \in Nodes, n \in Conns : Announcing(u, v, n)' =>
        \E k \in msgs \ {m} : k.conn = n /\ k.from = u /\ k.to = v /\ k.body.type = "NodeAnnounce"
  BY <1>1 DEF Announcing
<1> QED
  BY <1>3, <1>4, <1>5

LEMMA DroppedCarries ==
  ASSUME BodiesInv, NEW m \in msgs, Dropped(m)
  PROVE  /\ BodiesInv'
         /\ \A u, v \in Nodes, n \in Conns, type \in Signatures : Carried(u, v, type, n)' => Carried(u, v, type, n)
         /\ \A u, v \in Nodes, n \in Conns : Announcing(u, v, n)' => Announcing(u, v, n)
<1>1. msgs' = msgs \ {m} /\ loop' = loop
  BY DEF Dropped
<1> QED
  BY <1>1 DEF BodiesInv, Carried, Announcing

LEMMA ProofInit == Init => ProofInv
BY SessionAssumption
   DEF Init, ProofInv, BodiesInv, NonceInv, Carried, Announcing, Unopened, Unannounced, AnnouncedIsProven

LEMMA ProofAnnounce ==
  ASSUME SessionInv, ProofInv, NEW m \in msgs, HandleAnnounce(m)
  PROVE  ProofInv'
<1> USE DEF ProofInv
<1> DEFINE a == m.to
           b == m.from
           k == m.conn
           body == Signed("NodeChallenge", k)
<1>1. /\ m.conn \in Conns /\ m.from \in Nodes /\ m.to \in Nodes /\ m.body.type = "NodeAnnounce"
      /\ loop[m.to] = Absent
  BY MessageType DEF SessionInv, HandleAnnounce, Handles
<1>2. Announcing(b, a, k)
  BY <1>1 DEF Announcing
<1>3. body \in Body /\ body.type = "NodeChallenge" /\ body.nonce = k /\ k # Absent
  BY <1>1, SignedType, SessionAssumption DEF Signed, ControlMessage
<1> HIDE DEF body
<1>4. Answer(m, body)
  BY DEF HandleAnnounce, body
<1>5. /\ BodiesInv'
      /\ \A u, v \in Nodes, n \in Conns, type \in Signatures : Carried(u, v, type, n)' =>
           \/ Carried(u, v, type, n)
           \/ u = a /\ v = b /\ type = "NodeChallenge" /\ n = k
      /\ \A u, v \in Nodes, n \in Conns : Announcing(u, v, n)' =>
           \E j \in msgs \ {m} : j.conn = n /\ j.from = u /\ j.to = v /\ j.body.type = "NodeAnnounce"
  BY <1>1, <1>3, <1>4, AnswerCarries
<1>6. /\ fresh' = fresh /\ starting' = starting /\ proved' = proved /\ announced' = announced
      /\ pending'[a][b] = k
      /\ \A u, v \in Nodes : u # a \/ v # b => pending'[u][v] = pending[u][v]
  BY <1>1 DEF HandleAnnounce, Challenged, SessionInv, SessionsTypeOK, sessionVars
<1>7. \A u, v \in Nodes, n \in Conns : Announcing(u, v, n)' => Announcing(u, v, n)
  BY <1>5 DEF Announcing
\* The announce that is handled was the only one on its connection.
<1>8. ~Announcing(b, a, k)'
  <2>1. SUFFICES ASSUME Announcing(b, a, k)' PROVE FALSE
    OBVIOUS
  <2>2. PICK j \in msgs \ {m} : j.conn = k /\ j.from = b /\ j.to = a /\ j.body.type = "NodeAnnounce"
    BY <1>1, <1>5, <2>1
  <2>3. j.body = m.body
    BY <1>1, <2>2 DEF BodiesInv
  <2>4. j \in Message /\ m \in Message
    BY DEF SessionInv, SessionsTypeOK
  <2>5. j = m
    BY <2>2, <2>3, <2>4 DEF Message
  <2> QED
    BY <2>2, <2>5
<1>9. ~Unopened(b, k)
  BY <1>1, <1>2 DEF NonceInv
<1>10. \A x, y \in Nodes, n \in Conns : Unopened(y, n)' => ~Announcing(y, x, n)'
  BY <1>6, <1>7 DEF NonceInv, Unopened
<1>11. ASSUME NEW x \in Nodes, NEW y \in Nodes, NEW n \in Conns, Unannounced(y, x, n)'
       PROVE  /\ ~Carried(x, y, "NodeChallenge", n)'
              /\ ~Carried(y, x, "AnnounceProof", n)'
              /\ pending'[x][y] # n
  <2>1. Unannounced(y, x, n)
    BY <1>6, <1>7, <1>11 DEF Unannounced, Unopened
  <2>2. /\ ~Carried(x, y, "NodeChallenge", n)
        /\ ~Carried(y, x, "AnnounceProof", n)
        /\ pending[x][y] # n
    BY <2>1 DEF NonceInv
  <2>3. ~(x = a /\ y = b /\ n = k)
    BY <1>6, <1>8, <1>9, <1>11 DEF Unannounced, Unopened
  <2>4. pending'[x][y] # n
    BY <1>6, <2>2, <2>3
  <2> QED
    BY <1>5, <2>2, <2>3, <2>4 DEF Signatures
<1>12. ASSUME NEW x \in Nodes, NEW y \in Nodes, NEW n \in Conns,
              Carried(y, x, "AnnounceProof", n)', pending'[x][y] = n
       PROVE  y \in proved'[x]
  <2>1. Carried(y, x, "AnnounceProof", n)
    BY <1>5, <1>12 DEF Signatures
  <2>2. ~(x = a /\ y = b /\ n = k)
    BY <1>1, <1>2, <2>1 DEF NonceInv, Unannounced
  <2>3. pending[x][y] = n
    BY <1>6, <1>12, <2>2
  <2> QED
    BY <1>6, <2>1, <2>3 DEF NonceInv
<1> QED
  BY <1>5, <1>6, <1>10, <1>11, <1>12 DEF NonceInv, AnnouncedIsProven

LEMMA ProofChallenge ==
  ASSUME SessionInv, ProofInv, NEW m \in msgs, HandleChallenge(m)
  PROVE  ProofInv'
<1> USE DEF ProofInv
<1> DEFINE a == m.from
           b == m.to
           k == m.body.nonce
           body == Signed("AnnounceProof", k)
<1>1. /\ m.from \in Nodes /\ m.to \in Nodes /\ m.body.type = "NodeChallenge"
      /\ m.body.nonce \in Conns /\ loop[m.to] = Absent
  BY MessageType DEF SessionInv, HandleChallenge, Handles, BodiesInv, Signatures
<1>2. Carried(a, b, "NodeChallenge", k)
  BY <1>1 DEF Carried
<1>3. body \in Body /\ body.type = "AnnounceProof" /\ body.nonce = k /\ k # Absent
  BY <1>1, SignedType, SessionAssumption DEF Signed, ControlMessage
<1> HIDE DEF body
<1>4. Answer(m, body)
  BY DEF HandleChallenge, body
<1>5. /\ BodiesInv'
      /\ \A u, v \in Nodes, n \in Conns, type \in Signatures : Carried(u, v, type, n)' =>
           \/ Carried(u, v, type, n)
           \/ u = b /\ v = a /\ type = "AnnounceProof" /\ n = k
      /\ \A u, v \in Nodes, n \in Conns : Announcing(u, v, n)' =>
           \E j \in msgs \ {m} : j.conn = n /\ j.from = u /\ j.to = v /\ j.body.type = "NodeAnnounce"
  BY <1>1, <1>3, <1>4, AnswerCarries
<1>6. /\ fresh' = fresh /\ starting' = starting /\ pending' = pending /\ announced' = announced
      /\ pending[a][b] = k => b \in proved'[a]
      /\ \A u, v \in Nodes : v \in proved[u] => v \in proved'[u]
  BY <1>1 DEF HandleChallenge, Verifies, SessionInv, SessionsTypeOK, sessionVars
<1>7. \A u, v \in Nodes, n \in Conns : Announcing(u, v, n)' => Announcing(u, v, n)
  BY <1>5 DEF Announcing
<1>8. \A x, y \in Nodes, n \in Conns : Unopened(y, n)' => ~Announcing(y, x, n)'
  BY <1>6, <1>7 DEF NonceInv, Unopened
<1>9. ASSUME NEW x \in Nodes, NEW y \in Nodes, NEW n \in Conns, Unannounced(y, x, n)'
      PROVE  /\ ~Carried(x, y, "NodeChallenge", n)'
             /\ ~Carried(y, x, "AnnounceProof", n)'
             /\ pending'[x][y] # n
  <2>1. Unannounced(y, x, n)
    BY <1>6, <1>7, <1>9 DEF Unannounced, Unopened
  <2>2. /\ ~Carried(x, y, "NodeChallenge", n)
        /\ ~Carried(y, x, "AnnounceProof", n)
        /\ pending[x][y] # n
    BY <2>1 DEF NonceInv
  <2>3. ~(x = a /\ y = b /\ n = k)
    BY <1>2, <2>2
  <2> QED
    BY <1>5, <1>6, <2>2, <2>3 DEF Signatures
<1>10. ASSUME NEW x \in Nodes, NEW y \in Nodes, NEW n \in Conns,
              Carried(y, x, "AnnounceProof", n)', pending'[x][y] = n
       PROVE  y \in proved'[x]
  <2>1. CASE Carried(y, x, "AnnounceProof", n)
    BY <1>6, <1>10, <2>1 DEF NonceInv
  <2>2. CASE x = a /\ y = b /\ n = k
    BY <1>6, <1>10, <2>2
  <2> QED
    BY <1>5, <1>10, <2>1, <2>2 DEF Signatures
<1>11. AnnouncedIsProven'
  BY <1>6 DEF NonceInv, AnnouncedIsProven, SessionInv, SessionsTypeOK
<1> QED
  BY <1>5, <1>8, <1>9, <1>10, <1>11 DEF NonceInv

LEMMA ProofProof ==
  ASSUME SessionInv, ProofInv, NEW m \in msgs, HandleProof(m)
  PROVE  ProofInv'
<1> USE DEF ProofInv
<1> DEFINE a == m.to
           b == m.from
           k == m.body.nonce
<1>1. /\ m.from \in Nodes /\ m.to \in Nodes /\ m.body.type = "AnnounceProof" /\ m.body.nonce \in Conns
  BY MessageType DEF SessionInv, HandleProof, Handles, BodiesInv, Signatures
<1>2. Carried(b, a, "AnnounceProof", k)
  BY <1>1 DEF Carried
<1>3. /\ BodiesInv'
      /\ \A u, v \in Nodes, n \in Conns, type \in Signatures : Carried(u, v, type, n)' => Carried(u, v, type, n)
      /\ \A u, v \in Nodes, n \in Conns : Announcing(u, v, n)' => Announcing(u, v, n)
  BY DroppedCarries DEF HandleProof
<1>4. fresh' = fresh /\ starting' = starting /\ proved' = proved
  BY DEF HandleProof, sessionVars
<1>5. CASE pending[a][b] = k
  <2>1. b \in proved[a]
    BY <1>1, <1>2, <1>5 DEF NonceInv
  <2>2. pending' = Challenged(a, b, Absent) /\ announced' = Remembered(a, b)
    BY <1>5 DEF HandleProof, Verifies
  <2>3. \A u, v \in Nodes : pending'[u][v] \in {pending[u][v], Absent}
    BY <2>2 DEF Challenged, SessionInv, SessionsTypeOK
  <2>4. AnnouncedIsProven'
    BY <1>1, <1>4, <2>1, <2>2 DEF Remembered, NonceInv, AnnouncedIsProven, SessionInv, SessionsTypeOK
  <2>5. \A x, y \in Nodes, n \in Conns : Unopened(y, n)' => ~Announcing(y, x, n)'
    BY <1>3, <1>4 DEF NonceInv, Unopened
  <2>6. ASSUME NEW x \in Nodes, NEW y \in Nodes, NEW n \in Conns, Unannounced(y, x, n)'
        PROVE  /\ ~Carried(x, y, "NodeChallenge", n)'
               /\ ~Carried(y, x, "AnnounceProof", n)'
               /\ pending'[x][y] # n
    <3>1. Unannounced(y, x, n)
      BY <1>3, <1>4, <2>6 DEF Unannounced, Unopened
    <3>2. /\ ~Carried(x, y, "NodeChallenge", n)
          /\ ~Carried(y, x, "AnnounceProof", n)
          /\ pending[x][y] # n
      BY <3>1 DEF NonceInv
    <3> QED
      BY <1>3, <2>3, <3>2, SessionAssumption DEF Signatures
  <2>7. ASSUME NEW x \in Nodes, NEW y \in Nodes, NEW n \in Conns,
               Carried(y, x, "AnnounceProof", n)', pending'[x][y] = n
        PROVE  y \in proved'[x]
    <3>1. Carried(y, x, "AnnounceProof", n) /\ pending[x][y] = n
      BY <1>3, <2>3, <2>7, SessionAssumption DEF Signatures
    <3> QED
      BY <1>4, <3>1 DEF NonceInv
  <2> QED
    BY <1>3, <2>4, <2>5, <2>6, <2>7 DEF NonceInv
<1>6. CASE pending[a][b] # k
  <2>1. pending' = pending /\ announced' = announced
    BY <1>6 DEF HandleProof, Verifies
  <2> QED
    BY <1>3, <1>4, <2>1, NonceKept DEF Unopened, SessionInv, SessionsTypeOK
<1> QED
  BY <1>5, <1>6

LEMMA ProofMember ==
  ASSUME SessionInv, ProofInv, NEW m \in msgs, HandleRequest(m) \/ HandleResponse(m)
  PROVE  ProofInv'
<1> USE DEF ProofInv
<1>1. /\ fresh' = fresh /\ starting' = starting /\ pending' = pending /\ announced' = announced /\ proved' = proved
      /\ loop[m.to] = Absent
  BY DEF HandleRequest, HandleResponse, Handles, sessionVars, identityVars
<1>2. /\ BodiesInv'
      /\ \A u, v \in Nodes, n \in Conns, type \in Signatures : Carried(u, v, type, n)' => Carried(u, v, type, n)
      /\ \A u, v \in Nodes, n \in Conns : Announcing(u, v, n)' => Announcing(u, v, n)
  <2>1. CASE Dropped(m)
    BY <2>1, DroppedCarries
  <2>2. ASSUME NEW body \in Body, Answer(m, body), body.type = "NetworkConfigResponse"
        PROVE  /\ BodiesInv'
               /\ \A u, v \in Nodes, n \in Conns, type \in Signatures :
                    Carried(u, v, type, n)' => Carried(u, v, type, n)
               /\ \A u, v \in Nodes, n \in Conns : Announcing(u, v, n)' => Announcing(u, v, n)
    <3>1. body.type # "NodeAnnounce" /\ body.type \notin Signatures
      BY <2>2 DEF Signatures
    <3> QED
      BY <1>1, <2>2, <3>1, AnswerCarries DEF Announcing
  <2>3. ASSUME NEW tok \in Token, Answer(m, Carrying("NetworkConfigResponse", tok))
        PROVE  \E body \in Body : Answer(m, body) /\ body.type = "NetworkConfigResponse"
    <3>1. /\ Carrying("NetworkConfigResponse", tok) \in Body
          /\ Carrying("NetworkConfigResponse", tok).type = "NetworkConfigResponse"
      BY CarryingType DEF Carrying, ControlMessage
    <3> QED
      BY <2>3, <3>1
  <2>4. Dropped(m) \/ \E tok \in Token : Answer(m, Carrying("NetworkConfigResponse", tok))
    BY DEF HandleRequest, HandleResponse, Token
  <2> QED
    BY <2>1, <2>2, <2>3, <2>4
<1>3. announced' \in [Nodes -> SUBSET Nodes]
  BY <1>1 DEF SessionInv, SessionsTypeOK
<1>4. NonceInv'
  BY <1>1, <1>2, <1>3, NonceKept DEF Unopened
<1> QED
  BY <1>2, <1>4

\* A connection id that is used again is no nonce anywhere any more.
LEMMA ProofDial ==
  ASSUME SessionInv, ProofInv, NEW x \in Nodes, NEW y \in Nodes, NEW c \in Conns, Dial(x, y, c)
  PROVE  ProofInv'
<1> USE DEF ProofInv
<1>1. /\ msgs' = msgs /\ loop' = loop /\ announced' = announced /\ proved' = proved /\ starting' = starting
      /\ \A n \in Conns : n # c => fresh'[n] = fresh[n]
      /\ \A u, v \in Nodes : pending'[u][v] # c /\ pending'[u][v] \in {pending[u][v], Absent}
  BY SessionAssumption DEF Dial, SessionInv, SessionsTypeOK
<1>2. \A u, v \in Nodes, n \in Conns, type \in Signatures : Carried(u, v, type, n)' <=> Carried(u, v, type, n)
  BY <1>1 DEF Carried
<1>3. \A u, v \in Nodes, n \in Conns : Announcing(u, v, n)' <=> Announcing(u, v, n)
  BY <1>1 DEF Announcing
<1>4. /\ \A u, v \in Nodes, type \in Signatures : ~Carried(u, v, type, c)
      /\ \A u, v \in Nodes : ~Announcing(u, v, c)
  BY DEF Dial, Unused, Carried, Announcing
<1>5. BodiesInv'
  BY <1>1 DEF BodiesInv
<1>6. \A u, v \in Nodes, n \in Conns : Unopened(u, n)' => ~Announcing(u, v, n)'
  BY <1>1, <1>3, <1>4 DEF NonceInv, Unopened
<1>7. ASSUME NEW u \in Nodes, NEW v \in Nodes, NEW n \in Conns, Unannounced(v, u, n)'
      PROVE  /\ ~Carried(u, v, "NodeChallenge", n)'
             /\ ~Carried(v, u, "AnnounceProof", n)'
             /\ pending'[u][v] # n
  <2>1. CASE n = c
    BY <1>1, <1>2, <1>4, <2>1 DEF Signatures
  <2>2. CASE n # c
    <3>1. Unannounced(v, u, n)
      BY <1>1, <1>3, <1>7, <2>2 DEF Unannounced, Unopened
    <3>2. /\ ~Carried(u, v, "NodeChallenge", n)
          /\ ~Carried(v, u, "AnnounceProof", n)
          /\ pending[u][v] # n
      BY <3>1 DEF NonceInv
    <3> QED
      BY <1>1, <1>2, <3>2, SessionAssumption DEF Signatures
  <2> QED
    BY <2>1, <2>2
<1>8. ASSUME NEW u \in Nodes, NEW v \in Nodes, NEW n \in Conns,
             Carried(v, u, "AnnounceProof", n)', pending'[u][v] = n
      PROVE  v \in proved'[u]
  <2>1. Carried(v, u, "AnnounceProof", n) /\ pending[u][v] = n
    BY <1>1, <1>2, <1>8, SessionAssumption DEF Signatures
  <2> QED
    BY <1>1, <2>1 DEF NonceInv
<1>9. AnnouncedIsProven'
  BY <1>1 DEF NonceInv, AnnouncedIsProven
<1> QED
  BY <1>5, <1>6, <1>7, <1>8, <1>9 DEF NonceInv

\* The side that activates a connection announces on it, once.
LEMMA ProofActivate ==
  ASSUME SessionInv, ProofInv, NEW x \in Nodes, NEW y \in Nodes, NEW c \in Conns, Activate(x, y, c)
  PROVE  ProofInv'
<1> USE DEF ProofInv
<1>1. /\ loop' = loop /\ pending' = pending /\ announced' = announced /\ proved' = proved
      /\ Unopened(x, c) /\ ~Unopened(x, c)'
      /\ \A n \in Conns, u \in Nodes : Unopened(u, n)' => Unopened(u, n)
  BY DEF Activate, SessionInv, SessionsTypeOK, Apart, Unopened, identityVars
<1>2. \A k \in msgs' : k \in msgs \/ (k.conn = c /\ k.from = x /\ k.to = y /\ k.body = Plain("NodeAnnounce"))
  BY DEF Activate, Sent
<1>3. Plain("NodeAnnounce").type = "NodeAnnounce"
  BY DEF Plain
<1>4. BodiesInv'
  BY <1>1, <1>2, <1>3 DEF BodiesInv, Signatures
<1>5. \A u, v \in Nodes, n \in Conns, type \in Signatures : Carried(u, v, type, n)' => Carried(u, v, type, n)
  <2>1. ASSUME NEW u \in Nodes, NEW v \in Nodes, NEW n \in Conns, NEW type \in Signatures,
               Carried(u, v, type, n)'
        PROVE  Carried(u, v, type, n)
    <3>1. type # "NodeAnnounce"
      BY DEF Signatures
    <3> QED
      BY <1>1, <1>2, <1>3, <2>1, <3>1 DEF Carried
  <2> QED
    BY <2>1
<1>6. \A u, v \in Nodes, n \in Conns : Announcing(u, v, n)' => (Announcing(u, v, n) \/ (u = x /\ v = y /\ n = c))
  BY <1>2 DEF Announcing
<1>7. \A u, v \in Nodes, n \in Conns : Unopened(u, n)' => ~Announcing(u, v, n)'
  BY <1>1, <1>6 DEF NonceInv
<1>8. \A u, v \in Nodes, n \in Conns : Unannounced(u, v, n)' => Unannounced(u, v, n)
  BY <1>1, <1>6 DEF Unannounced
<1>9. announced' \in [Nodes -> SUBSET Nodes]
  BY <1>1 DEF SessionInv, SessionsTypeOK
<1>10. NonceInv'
  BY <1>1, <1>5, <1>7, <1>8, <1>9, NonceStep
<1> QED
  BY <1>4, <1>10

\* Steps that put nothing under way.
LEMMA ProofFault ==
  ASSUME SessionInv, ProofInv,
         msgs' \subseteq msgs,
         \A u \in Nodes : loop'[u] \in {loop[u], Absent},
         \A n \in Conns, u \in Nodes : Unopened(u, n)' => Unopened(u, n),
         announced' \in [Nodes -> SUBSET Nodes],
         \A u, v \in Nodes : pending'[u][v] \in {pending[u][v], Absent},
         \A u, v \in Nodes : v \in announced'[u] => v \in announced[u],
         \A u, v \in Nodes : v \in proved[u] =>
           (v \in proved'[u] \/ (v \notin announced'[u] /\ pending'[u][v] = Absent))
  PROVE  ProofInv'
<1>1. BodiesInv'
  BY DEF ProofInv, BodiesInv
<1>2. \A u, v \in Nodes, n \in Conns, type \in Signatures : Carried(u, v, type, n)' => Carried(u, v, type, n)
  BY DEF Carried
<1>3. \A u, v \in Nodes, n \in Conns : Announcing(u, v, n)' => Announcing(u, v, n)
  BY DEF Announcing
<1>4. NonceInv'
  BY <1>2, <1>3, NonceKept DEF ProofInv
<1> QED
  BY <1>1, <1>4 DEF ProofInv

LEMMA ProofEnvironment ==
  ASSUME SessionInv, ProofInv,
         \/ \E x, y \in Nodes, c \in Conns : Take(x, y, c) \/ ReaderEnds(x, y, c)
         \/ \E x \in Nodes : LoopFail(x)
         \/ Environment
         \/ UNCHANGED vars
  PROVE  ProofInv'
<1> USE DEF SessionInv, SessionsTypeOK
<1>1. ASSUME NEW x \in Nodes, NEW y \in Nodes, NEW c \in Conns, ReaderEnds(x, y, c) PROVE ProofInv'
  <2>1. /\ msgs' = msgs /\ loop' = loop /\ fresh' = fresh /\ starting' = starting
        /\ pending' = pending /\ proved' = proved /\ announced' = [announced EXCEPT ![x] = @ \ {y}]
    BY <1>1 DEF ReaderEnds
  <2> QED
    BY <2>1, ProofFault DEF Unopened
<1>2. ASSUME NEW x \in Nodes, NEW y \in Nodes, NEW c \in Conns, Take(x, y, c) PROVE ProofInv'
  <2>1. /\ msgs' = msgs /\ loop' = loop /\ pending' = pending /\ proved' = proved
        /\ announced' = announced
    BY <1>2 DEF Take, identityVars
  <2>2. \A n \in Conns, u \in Nodes : Unopened(u, n)' => Unopened(u, n)
    BY <1>2 DEF Take, Unopened
  <2> QED
    BY <2>1, <2>2, ProofFault
<1>3. ASSUME NEW x \in Nodes, NEW y \in Nodes, NEW c \in Conns, Cancel(x, y, c) PROVE ProofInv'
  <2>1. /\ msgs' \subseteq msgs /\ loop' = loop /\ pending' = pending /\ proved' = proved
        /\ announced' = announced
    BY <1>3 DEF Cancel, identityVars
  <2>2. \A n \in Conns, u \in Nodes : Unopened(u, n)' => Unopened(u, n)
    <3>1. /\ \A n \in Conns : fresh'[n] \subseteq fresh[n]
          /\ \A u \in Nodes : starting'[u] \subseteq starting[u]
      BY <1>3, CancelEffect
    <3> QED
      BY <3>1 DEF Unopened
  <2> QED
    BY <2>1, <2>2, ProofFault
<1>4. ASSUME NEW x \in Nodes, LoopFail(x) PROVE ProofInv'
  <2>1. /\ msgs' = msgs /\ loop' = [loop EXCEPT ![x] = Absent] /\ fresh' = fresh /\ starting' = starting
        /\ pending' = pending /\ proved' = proved /\ announced' = announced
    BY <1>4 DEF LoopFail, sessionVars, identityVars
  <2> QED
    BY <2>1, ProofFault DEF Unopened
<1>5. ASSUME NEW c \in Conns, Fail(c) \/ Lose(c) PROVE ProofInv'
  <2>1. /\ msgs' \subseteq msgs /\ loop' = loop /\ fresh' = fresh /\ starting' = starting
        /\ pending' = pending /\ proved' = proved /\ announced' = announced
    BY <1>5 DEF Fail, Lose, sessionVars, identityVars
  <2> QED
    BY <2>1, ProofFault DEF Unopened
<1>6. ASSUME NEW x \in Nodes, Restart(x) PROVE ProofInv'
  <2>1. msgs' \subseteq msgs /\ loop' = [loop EXCEPT ![x] = Absent]
    BY <1>6 DEF Restart
  <2>2. \A n \in Conns, u \in Nodes : Unopened(u, n)' => Unopened(u, n)
    BY <1>6 DEF Restart, Unopened
  <2>3. /\ pending' = [pending EXCEPT ![x] = [y \in Nodes |-> Absent]]
        /\ announced' = [announced EXCEPT ![x] = {}]
        /\ proved' = [proved EXCEPT ![x] = {}]
    BY <1>6 DEF Restart
  <2>4. \A u \in Nodes : loop'[u] \in {loop[u], Absent}
    BY <2>1
  <2>5. /\ \A u, v \in Nodes : pending'[u][v] \in {pending[u][v], Absent}
        /\ \A u, v \in Nodes : v \in announced'[u] => v \in announced[u]
        /\ announced' \in [Nodes -> SUBSET Nodes]
    BY <2>3
  <2>6. \A u, v \in Nodes : v \in proved[u] =>
          (v \in proved'[u] \/ (v \notin announced'[u] /\ pending'[u][v] = Absent))
    BY <2>3
  <2> HIDE DEF SessionInv, SessionsTypeOK
  <2> QED
    BY <2>1, <2>2, <2>4, <2>5, <2>6, ProofFault
<1>7. ASSUME NEW x \in Nodes, Expire(x) \/ Administer(x) PROVE ProofInv'
  <2>1. /\ msgs' = msgs /\ loop' = loop /\ fresh' = fresh /\ starting' = starting
        /\ pending' = pending /\ proved' = proved /\ announced' = announced
    BY <1>7 DEF Expire, Administer, sessionVars, identityVars
  <2> QED
    BY <2>1, ProofFault DEF Unopened
<1>8. CASE UNCHANGED vars
  <2>1. /\ msgs' = msgs /\ loop' = loop /\ fresh' = fresh /\ starting' = starting
        /\ pending' = pending /\ proved' = proved /\ announced' = announced
    BY <1>8 DEF vars, sessionVars, identityVars
  <2> QED
    BY <2>1, ProofFault DEF Unopened
<1> QED
  BY <1>1, <1>2, <1>3, <1>4, <1>5, <1>6, <1>7, <1>8 DEF Environment

\* A reply that waited for its dial goes out, or a request that no announce depends on.
LEMMA ProofSend ==
  ASSUME SessionInv, ProofInv, NEW x \in Nodes, LoopSend(x) \/ \E y \in Nodes : Poll(x, y)
  PROVE  ProofInv'
<1> USE DEF ProofInv
<1>1. /\ fresh' = fresh /\ starting' = starting /\ pending' = pending /\ announced' = announced /\ proved' = proved
  BY DEF LoopSend, Poll, sessionVars, identityVars
<1>2. /\ BodiesInv'
      /\ \A u, v \in Nodes, n \in Conns, type \in Signatures : Carried(u, v, type, n)' => Carried(u, v, type, n)
      /\ \A u, v \in Nodes, n \in Conns : Announcing(u, v, n)' => Announcing(u, v, n)
  <2>1. CASE LoopSend(x)
    <3>1. /\ loop[x] # Absent
          /\ \A k \in msgs' : k \in msgs \/ (k.from = x /\ k.to = loop[x].to /\ k.body = loop[x].body)
      BY <2>1 DEF LoopSend, Sent
    <3>2. \A u \in Nodes : loop'[u] \in {loop[u], Absent}
      BY <2>1 DEF LoopSend, SessionInv, SessionsTypeOK
    <3>3. BodiesInv'
      BY <3>1, <3>2 DEF BodiesInv
    <3>4. \A u, v \in Nodes, n \in Conns, type \in Signatures : Carried(u, v, type, n)' => Carried(u, v, type, n)
      BY <3>1, <3>2 DEF Carried
    <3>5. \A u, v \in Nodes, n \in Conns : Announcing(u, v, n)' => Announcing(u, v, n)
      BY <3>1 DEF Announcing, BodiesInv
    <3> QED
      BY <3>3, <3>4, <3>5
  <2>2. ASSUME NEW y \in Nodes, Poll(x, y)
        PROVE  /\ BodiesInv'
               /\ \A u, v \in Nodes, n \in Conns, type \in Signatures :
                    Carried(u, v, type, n)' => Carried(u, v, type, n)
               /\ \A u, v \in Nodes, n \in Conns : Announcing(u, v, n)' => Announcing(u, v, n)
    <3>1. /\ loop' = loop
          /\ \A k \in msgs' : k \in msgs \/ k.body.type = "NetworkConfigRequest"
      BY <2>2 DEF Poll, Sent, Carrying
    <3>2. BodiesInv'
      BY <3>1 DEF BodiesInv, Signatures
    <3>3. \A u, v \in Nodes, n \in Conns, type \in Signatures : Carried(u, v, type, n)' => Carried(u, v, type, n)
      BY <3>1 DEF Carried, Signatures
    <3>4. \A u, v \in Nodes, n \in Conns : Announcing(u, v, n)' => Announcing(u, v, n)
      BY <3>1 DEF Announcing
    <3> QED
      BY <3>2, <3>3, <3>4
  <2> QED
    BY <2>1, <2>2
<1>3. announced' \in [Nodes -> SUBSET Nodes]
  BY <1>1 DEF SessionInv, SessionsTypeOK
<1>4. NonceInv'
  BY <1>1, <1>2, <1>3, NonceKept DEF Unopened
<1> QED
  BY <1>2, <1>4

LEMMA ProofStep == SessionInv /\ ProofInv /\ [Next]_vars => ProofInv'
<1> SUFFICES ASSUME SessionInv, ProofInv, [Next]_vars PROVE ProofInv'
  OBVIOUS
<1>1. ASSUME NEW x \in Nodes, Session(x) PROVE ProofInv'
  BY <1>1, ProofDial, ProofActivate, ProofSend, ProofEnvironment DEF Session
<1>2. ASSUME NEW m \in msgs, Handle(m) PROVE ProofInv'
  BY <1>2, ProofAnnounce, ProofChallenge, ProofProof, ProofMember DEF Handle
<1>3. CASE Environment \/ UNCHANGED vars
  BY <1>3, ProofEnvironment
<1> QED
  BY <1>1, <1>2, <1>3 DEF Next

(* "Never trust an unproven announcement": whoever a node knows by address  *)
(* signed a challenge that the node had outstanding, for any nodes that     *)
(* dial, fail and restart in any order, however late challenges and proofs  *)
(* arrive and whichever session they arrive on.                             *)
THEOREM AnnouncedIsProvenCorrect == Spec => []AnnouncedIsProven
<1>1. Init => SessionInv /\ ProofInv
  BY SessionInit, ProofInit
<1>2. SessionInv /\ ProofInv /\ [Next]_vars => (SessionInv /\ ProofInv)'
  BY SessionStep, ProofStep
<1>3. SessionInv /\ ProofInv => AnnouncedIsProven
  BY DEF ProofInv, NonceInv
<1> QED
  BY <1>1, <1>2, <1>3, PTL DEF Spec

-----------------------------------------------------------------------------
(* The sessions implement ChallengeResponse *)

LEMMA OutstandingMember ==
  ASSUME SessionInv
  PROVE  /\ Outstanding \in [Nodes -> SUBSET Nodes]
         /\ SignedOutstanding \in [Nodes -> SUBSET Nodes]
         /\ \A x, y \in Nodes : y \in Outstanding[x] <=> pending[x][y] # Absent
         /\ \A x, y \in Nodes : y \in SignedOutstanding[x] <=>
              \E n \in Conns : pending[x][y] = n /\ Carried(y, x, "AnnounceProof", n)
<1>1. \A x, y \in Nodes : pending[x][y] # Absent <=> pending[x][y] \in Conns
  BY SessionAssumption DEF SessionInv, SessionsTypeOK
<1> QED
  BY <1>1 DEF Outstanding, SignedOutstanding

\* The same of the next state.
LEMMA OutstandingNext ==
  ASSUME SessionInv'
  PROVE  /\ Outstanding' \in [Nodes -> SUBSET Nodes]
         /\ SignedOutstanding' \in [Nodes -> SUBSET Nodes]
         /\ \A x, y \in Nodes : y \in Outstanding'[x] <=> pending'[x][y] # Absent
         /\ \A x, y \in Nodes : y \in SignedOutstanding'[x] <=>
              \E n \in Conns : pending'[x][y] = n /\ Carried(y, x, "AnnounceProof", n)'
<1>1. \A x, y \in Nodes : pending'[x][y] # Absent <=> pending'[x][y] \in Conns
  BY SessionAssumption DEF SessionInv, SessionsTypeOK
<1> QED
  BY <1>1 DEF Outstanding, SignedOutstanding, Carried

LEMMA OutstandingType ==
  ASSUME SessionInv, SessionInv'
  PROVE  /\ Outstanding \in [Nodes -> SUBSET Nodes] /\ Outstanding' \in [Nodes -> SUBSET Nodes]
         /\ SignedOutstanding \in [Nodes -> SUBSET Nodes]
         /\ SignedOutstanding' \in [Nodes -> SUBSET Nodes]
         /\ \A x \in Nodes :
              /\ Outstanding[x] \subseteq Nodes /\ Outstanding'[x] \subseteq Nodes
              /\ SignedOutstanding[x] \subseteq Nodes /\ SignedOutstanding'[x] \subseteq Nodes
<1>1. /\ Outstanding \in [Nodes -> SUBSET Nodes] /\ Outstanding' \in [Nodes -> SUBSET Nodes]
      /\ SignedOutstanding \in [Nodes -> SUBSET Nodes]
      /\ SignedOutstanding' \in [Nodes -> SUBSET Nodes]
  BY OutstandingMember, OutstandingNext
<1> QED
  BY <1>1

\* Two functions from nodes to sets of nodes are the same if they have the same members.
LEMMA SameSets ==
  ASSUME NEW f \in [Nodes -> SUBSET Nodes], NEW g \in [Nodes -> SUBSET Nodes],
         \A x, y \in Nodes : y \in f[x] <=> y \in g[x]
  PROVE  f = g
<1>1. \A x \in Nodes : f[x] \subseteq Nodes /\ g[x] \subseteq Nodes
  OBVIOUS
<1>2. \A x \in Nodes : f[x] = g[x]
  BY <1>1
<1> QED
  BY <1>2

\* Nothing is challenged or becomes known, and no proof gets under way that was not.
LEMMA ProofsLost ==
  ASSUME SessionInv, SessionInv', pending' = pending, announced' = announced,
         \A u, v \in Nodes, n \in Conns :
           Carried(u, v, "AnnounceProof", n)' => Carried(u, v, "AnnounceProof", n)
  PROVE  Announces!Lose
<1>1. \A x, y \in Nodes : y \in SignedOutstanding'[x] => y \in SignedOutstanding[x]
  BY OutstandingMember, OutstandingNext
<1>2. Outstanding' = Outstanding
  BY OutstandingMember, OutstandingNext, SameSets
<1> QED
  BY <1>1, <1>2, OutstandingNext DEF Announces!Lose, Announces!Fewer

\* Where the new proofs under way, if any, are none but copies of replies that waited.
LEMMA ProofsKept ==
  ASSUME \A k \in msgs' :
           \/ k \in msgs
           \/ k.body.type # "AnnounceProof"
           \/ loop[k.from] # Absent /\ loop[k.from].to = k.to /\ loop[k.from].body = k.body,
         \A u \in Nodes : loop'[u] \in {loop[u], Absent} \/ loop'[u].body.type # "AnnounceProof"
  PROVE  \A u, v \in Nodes, n \in Conns :
           Carried(u, v, "AnnounceProof", n)' => Carried(u, v, "AnnounceProof", n)
BY DEF Carried

\* A reply, to anything but a proof, loses no proof under way and adds at most its own.
LEMMA AnswerProofs ==
  ASSUME SessionInv, NEW m \in msgs, NEW body \in Body, Answer(m, body),
         loop[m.to] = Absent, m.body.type # "AnnounceProof"
  PROVE  \A u, v \in Nodes, n \in Conns :
           /\ Carried(u, v, "AnnounceProof", n) => Carried(u, v, "AnnounceProof", n)'
           /\ Carried(u, v, "AnnounceProof", n)' =>
                \/ Carried(u, v, "AnnounceProof", n)
                \/ u = m.to /\ v = m.from /\ body.type = "AnnounceProof" /\ body.nonce = n
<1>1. /\ msgs \ {m} \subseteq msgs'
      /\ \A k \in msgs' : k \in msgs \/ (k.from = m.to /\ k.to = m.from /\ k.body = body)
  BY DEF Answer, Sent
<1>2. \A u \in Nodes : \/ loop'[u] = loop[u]
                       \/ u = m.to /\ loop'[u] = [to |-> m.from, body |-> body]
  BY DEF Answer, SessionInv, SessionsTypeOK
<1>3. ASSUME NEW u \in Nodes, NEW v \in Nodes, NEW n \in Conns, Carried(u, v, "AnnounceProof", n)
      PROVE  Carried(u, v, "AnnounceProof", n)'
  BY <1>1, <1>2, <1>3 DEF Carried
<1>4. ASSUME NEW u \in Nodes, NEW v \in Nodes, NEW n \in Conns,
             Carried(u, v, "AnnounceProof", n)', ~Carried(u, v, "AnnounceProof", n)
      PROVE  u = m.to /\ v = m.from /\ body.type = "AnnounceProof" /\ body.nonce = n
  <2>1. CASE \E k \in msgs' : k.from = u /\ k.to = v /\ k.body.type = "AnnounceProof" /\ k.body.nonce = n
    BY <1>1, <1>4, <2>1 DEF Carried
  <2>2. CASE loop'[u] # Absent /\ loop'[u].to = v /\ loop'[u].body.type = "AnnounceProof"
               /\ loop'[u].body.nonce = n
    BY <1>2, <1>4, <2>2 DEF Carried
  <2> QED
    BY <1>4, <2>1, <2>2 DEF Carried
<1> QED
  BY <1>3, <1>4

LEMMA RefineAnnounce ==
  ASSUME SessionInv, SessionInv', ProofInv, NEW m \in msgs, HandleAnnounce(m)
  PROVE  Announces!Challenge(m.to, m.from)
<1> DEFINE a == m.to
           b == m.from
           k == m.conn
           body == Signed("NodeChallenge", k)
<1>1. /\ a \in Nodes /\ b \in Nodes /\ k \in Conns /\ k # Absent
      /\ m.body.type = "NodeAnnounce" /\ loop[m.to] = Absent
  BY MessageType, SessionAssumption DEF SessionInv, HandleAnnounce, Handles
<1>2. body \in Body /\ body.type = "NodeChallenge"
  BY <1>1, SignedType DEF Signed, ControlMessage
<1>3. Answer(m, body) /\ announced' = announced
  BY DEF HandleAnnounce
<1> HIDE DEF body
<1>4. \A u, v \in Nodes, n \in Conns :
        Carried(u, v, "AnnounceProof", n)' <=> Carried(u, v, "AnnounceProof", n)
  BY <1>1, <1>2, <1>3, AnswerProofs
<1>5. /\ pending'[a][b] = k
      /\ \A x, y \in Nodes : x # a \/ y # b => pending'[x][y] = pending[x][y]
  BY <1>1 DEF HandleAnnounce, Challenged, SessionInv, SessionsTypeOK
<1>6. ~Carried(b, a, "AnnounceProof", k)
  BY <1>1 DEF ProofInv, NonceInv, Unannounced, Announcing
<1> HIDE DEF a, b, k
<1>7. Outstanding' = [Outstanding EXCEPT ![a] = @ \cup {b}]
  <2>1. \A x, y \in Nodes : y \in Outstanding'[x] <=> y \in Outstanding[x] \/ (x = a /\ y = b)
    BY <1>1, <1>5, OutstandingMember, OutstandingNext
  <2>2. /\ Outstanding'[a] = Outstanding[a] \cup {b}
        /\ \A x \in Nodes : x # a => Outstanding'[x] = Outstanding[x]
    BY <1>1, <2>1, OutstandingType
  <2> QED
    BY <1>1, <2>2, OutstandingType
<1>8. SignedOutstanding' = [SignedOutstanding EXCEPT ![a] = @ \ {b}]
  <2>1. \A x, y \in Nodes :
          y \in SignedOutstanding'[x] <=> y \in SignedOutstanding[x] /\ ~(x = a /\ y = b)
    BY <1>1, <1>4, <1>5, <1>6, OutstandingMember, OutstandingNext
  <2>2. /\ SignedOutstanding'[a] = SignedOutstanding[a] \ {b}
        /\ \A x \in Nodes : x # a => SignedOutstanding'[x] = SignedOutstanding[x]
    BY <1>1, <2>1, OutstandingType
  <2> QED
    BY <1>1, <2>2, OutstandingType
<1> QED
  BY <1>3, <1>7, <1>8 DEF Announces!Challenge, a, b

LEMMA RefineChallenge ==
  ASSUME SessionInv, SessionInv', ProofInv, NEW m \in msgs, HandleChallenge(m)
  PROVE  Announces!Sign(m.from, m.to) \/ Announces!Lose
<1> DEFINE a == m.from
           b == m.to
           k == m.body.nonce
           body == Signed("AnnounceProof", k)
<1>1. /\ a \in Nodes /\ b \in Nodes /\ k \in Conns /\ k # Absent
      /\ m.body.type = "NodeChallenge" /\ loop[m.to] = Absent
  BY MessageType, SessionAssumption
     DEF SessionInv, ProofInv, BodiesInv, Signatures, HandleChallenge, Handles
<1>2. body \in Body /\ body.nonce = k
  BY <1>1, SignedType DEF Signed, ControlMessage
<1>3. Answer(m, body) /\ announced' = announced /\ pending' = pending
  BY DEF HandleChallenge
<1> HIDE DEF body
<1>4. \A u, v \in Nodes, n \in Conns :
        /\ Carried(u, v, "AnnounceProof", n) => Carried(u, v, "AnnounceProof", n)'
        /\ Carried(u, v, "AnnounceProof", n)' =>
             Carried(u, v, "AnnounceProof", n) \/ (u = b /\ v = a /\ n = k)
  BY <1>1, <1>2, <1>3, AnswerProofs
<1> HIDE DEF a, b, k
<1>5. CASE pending[a][b] = k /\ Carried(b, a, "AnnounceProof", k)'
  <2>1. b \in Outstanding[a]
    BY <1>1, <1>5, OutstandingMember
  <2>2. Outstanding' = Outstanding
    BY <1>3, OutstandingMember, OutstandingNext, SameSets
  <2>3. \A x, y \in Nodes :
          y \in SignedOutstanding'[x] <=> y \in SignedOutstanding[x] \/ (x = a /\ y = b)
    BY <1>1, <1>3, <1>4, <1>5, OutstandingMember, OutstandingNext
  <2>4. /\ SignedOutstanding'[a] = SignedOutstanding[a] \cup {b}
        /\ \A x \in Nodes : x # a => SignedOutstanding'[x] = SignedOutstanding[x]
    BY <1>1, <2>3, OutstandingType
  <2>5. SignedOutstanding' = [SignedOutstanding EXCEPT ![a] = @ \cup {b}]
    BY <1>1, <2>4, OutstandingType
  <2> QED
    BY <1>3, <2>1, <2>2, <2>5 DEF Announces!Sign, a, b
<1>6. CASE ~(pending[a][b] = k /\ Carried(b, a, "AnnounceProof", k)')
  <2>1. \A x, y \in Nodes : y \in SignedOutstanding'[x] => y \in SignedOutstanding[x]
    BY <1>3, <1>4, <1>6, OutstandingMember, OutstandingNext
  <2>2. Outstanding' = Outstanding
    BY <1>3, OutstandingMember, OutstandingNext, SameSets
  <2> QED
    BY <1>3, <2>1, <2>2, OutstandingNext DEF Announces!Lose, Announces!Fewer
<1> QED
  BY <1>5, <1>6

LEMMA RefineProof ==
  ASSUME SessionInv, SessionInv', ProofInv, NEW m \in msgs, HandleProof(m)
  PROVE  Announces!Accept(m.to, m.from) \/ Announces!Lose
<1> DEFINE a == m.to
           b == m.from
           k == m.body.nonce
<1>1. /\ a \in Nodes /\ b \in Nodes /\ k \in Conns /\ m.body.type = "AnnounceProof"
  BY MessageType DEF SessionInv, ProofInv, BodiesInv, Signatures, HandleProof, Handles
<1>2. Carried(b, a, "AnnounceProof", k)
  BY <1>1 DEF Carried
<1>3. msgs' = msgs \ {m} /\ loop' = loop
  BY DEF HandleProof, Dropped
<1>4. \A u, v \in Nodes, n \in Conns :
        /\ Carried(u, v, "AnnounceProof", n)' => Carried(u, v, "AnnounceProof", n)
        /\ Carried(u, v, "AnnounceProof", n) =>
             Carried(u, v, "AnnounceProof", n)' \/ (u = b /\ v = a)
  BY <1>3 DEF Carried
<1>5. CASE pending[a][b] = k
  <2>1. /\ announced' = [announced EXCEPT ![a] = @ \cup {b}]
        /\ pending'[a][b] = Absent
        /\ \A x, y \in Nodes : x # a \/ y # b => pending'[x][y] = pending[x][y]
    BY <1>1, <1>5
       DEF HandleProof, Verifies, Remembered, Challenged, SessionInv, SessionsTypeOK
  <2> HIDE DEF a, b, k
  <2>2. b \in SignedOutstanding[a]
    BY <1>1, <1>2, <1>5, OutstandingMember
  <2>3. Outstanding' = [Outstanding EXCEPT ![a] = @ \ {b}]
    <3>1. \A x, y \in Nodes : y \in Outstanding'[x] <=> y \in Outstanding[x] /\ ~(x = a /\ y = b)
      BY <1>1, <2>1, OutstandingMember, OutstandingNext
    <3>2. /\ Outstanding'[a] = Outstanding[a] \ {b}
          /\ \A x \in Nodes : x # a => Outstanding'[x] = Outstanding[x]
      BY <1>1, <3>1, OutstandingType
    <3> QED
      BY <1>1, <3>2, OutstandingType
  <2>4. SignedOutstanding' = [SignedOutstanding EXCEPT ![a] = @ \ {b}]
    <3>1. \A x, y \in Nodes :
            y \in SignedOutstanding'[x] <=> y \in SignedOutstanding[x] /\ ~(x = a /\ y = b)
      BY <1>1, <1>4, <2>1, OutstandingMember, OutstandingNext, SessionAssumption
    <3>2. /\ SignedOutstanding'[a] = SignedOutstanding[a] \ {b}
          /\ \A x \in Nodes : x # a => SignedOutstanding'[x] = SignedOutstanding[x]
      BY <1>1, <3>1, OutstandingType
    <3> QED
      BY <1>1, <3>2, OutstandingType
  <2> QED
    BY <2>1, <2>2, <2>3, <2>4 DEF Announces!Accept, a, b
<1>6. CASE pending[a][b] # k
  <2>1. pending' = pending /\ announced' = announced
    BY <1>6 DEF HandleProof, Verifies
  <2> QED
    BY <1>4, <2>1, ProofsLost
<1> QED
  BY <1>5, <1>6

\* A connection id that is used again was the nonce of challenges nobody can answer any more.
LEMMA RefineDial ==
  ASSUME SessionInv, SessionInv', NEW x \in Nodes, NEW y \in Nodes, NEW c \in Conns, Dial(x, y, c)
  PROVE  Announces!Withdraw
<1>1. /\ msgs' = msgs /\ loop' = loop /\ announced' = announced
      /\ \A u, v \in Nodes :
           pending'[u][v] = IF pending[u][v] = c THEN Absent ELSE pending[u][v]
  BY DEF Dial
<1>2. \A u, v \in Nodes, n \in Conns :
        Carried(u, v, "AnnounceProof", n)' <=> Carried(u, v, "AnnounceProof", n)
  BY <1>1 DEF Carried
<1>3. \A u, v \in Nodes : ~Carried(u, v, "AnnounceProof", c)
  BY DEF Dial, Unused, Carried
<1>4. \A u, v \in Nodes : v \in Outstanding'[u] => v \in Outstanding[u]
  BY <1>1, OutstandingMember, OutstandingNext
<1>5. \A u, v \in Nodes : v \in SignedOutstanding'[u] <=> v \in SignedOutstanding[u]
  BY <1>1, <1>2, <1>3, OutstandingMember, OutstandingNext, SessionAssumption
<1>6. SignedOutstanding' = SignedOutstanding
  BY <1>5, OutstandingMember, OutstandingNext, SameSets
<1>7. \A u, v \in Nodes : v \in SignedOutstanding[u] => v \in Outstanding'[u]
  BY <1>5, OutstandingNext, SessionAssumption
<1> QED
  BY <1>1, <1>4, <1>6, <1>7, OutstandingMember, OutstandingNext
     DEF Announces!Withdraw, Announces!Fewer

LEMMA RefineReaderEnds ==
  ASSUME SessionInv, SessionInv', NEW x \in Nodes, NEW y \in Nodes, NEW c \in Conns,
         ReaderEnds(x, y, c)
  PROVE  Announces!Forget(x, y)
<1>1. /\ msgs' = msgs /\ loop' = loop /\ pending' = pending
      /\ announced' = [announced EXCEPT ![x] = @ \ {y}]
  BY DEF ReaderEnds
<1>2. \A u, v \in Nodes, n \in Conns :
        Carried(u, v, "AnnounceProof", n)' <=> Carried(u, v, "AnnounceProof", n)
  BY <1>1 DEF Carried
<1>3. Outstanding' = Outstanding
  BY <1>1, OutstandingMember, OutstandingNext, SameSets
<1>4. \A u, v \in Nodes : v \in SignedOutstanding'[u] <=> v \in SignedOutstanding[u]
  BY <1>1, <1>2, OutstandingMember, OutstandingNext
<1>5. SignedOutstanding' = SignedOutstanding
  BY <1>4, OutstandingMember, OutstandingNext, SameSets
<1> QED
  BY <1>1, <1>3, <1>5 DEF Announces!Forget

\* The event loop of x dials for one reply at a time: a restart loses at most one proof of x.
LEMMA RefineRestart ==
  ASSUME SessionInv, SessionInv', NEW x \in Nodes, Restart(x)
  PROVE  Announces!Restart(x)
<1>1. /\ msgs' = {m \in msgs : m.to # x}
      /\ \A u \in Nodes \ {x} : loop'[u] = loop[u]
      /\ announced' = [announced EXCEPT ![x] = {}]
      /\ \A v \in Nodes : pending'[x][v] = Absent
      /\ \A u, v \in Nodes : u # x => pending'[u][v] = pending[u][v]
  BY DEF Restart, SessionInv, SessionsTypeOK
<1>2. \A u, v \in Nodes, n \in Conns : Carried(u, v, "AnnounceProof", n)' => Carried(u, v, "AnnounceProof", n)
  <2>1. \A u \in Nodes : loop'[u] \in {loop[u], Absent}
    BY DEF Restart, SessionInv, SessionsTypeOK
  <2> QED
    BY <1>1, <2>1 DEF Carried
<1>3. \A u, v \in Nodes, n \in Conns :
        v # x /\ Carried(u, v, "AnnounceProof", n) =>
          Carried(u, v, "AnnounceProof", n)' \/ (u = x /\ loop[x].to = v)
  BY <1>1 DEF Carried
<1>4. Outstanding' = [Outstanding EXCEPT ![x] = {}]
  <2>1. \A u, v \in Nodes : v \in Outstanding'[u] <=> v \in Outstanding[u] /\ u # x
    BY <1>1, OutstandingMember, OutstandingNext
  <2>2. Outstanding'[x] = {} /\ \A u \in Nodes : u # x => Outstanding'[u] = Outstanding[u]
    BY <2>1, OutstandingType
  <2> QED
    BY <2>2, OutstandingType
<1>5. \A v \in Nodes : v \notin SignedOutstanding'[x]
  BY <1>1, OutstandingNext, SessionAssumption
<1>6. \A u, v \in Nodes : u # x =>
        /\ v \in SignedOutstanding'[u] => v \in SignedOutstanding[u]
        /\ v \in SignedOutstanding[u] => v \in SignedOutstanding'[u] \/ (v = x /\ loop[x].to = u)
  BY <1>1, <1>2, <1>3, OutstandingMember, OutstandingNext
<1> DEFINE Lost(w) == [u \in Nodes |-> {v \in SignedOutstanding[u] : u # x /\ <<u, v>> # <<w, x>>}]
<1>7. \E w \in Nodes : SignedOutstanding' = Lost(w)
  <2>1. ASSUME NEW w \in Nodes,
               \A u, v \in Nodes : v \in SignedOutstanding'[u] <=>
                 v \in SignedOutstanding[u] /\ u # x /\ ~(u = w /\ v = x)
        PROVE  SignedOutstanding' = Lost(w)
    <3>1. Lost(w) \in [Nodes -> SUBSET Nodes]
      BY OutstandingType
    <3>2. \A u, v \in Nodes : v \in Lost(w)[u] <=> v \in SignedOutstanding'[u]
      BY <2>1, OutstandingType
    <3> HIDE DEF Lost
    <3> QED
      BY <3>1, <3>2, OutstandingType, SameSets
  <2> HIDE DEF Lost
  <2>2. ASSUME NEW w \in Nodes, w # x, x \in SignedOutstanding[w], x \notin SignedOutstanding'[w]
        PROVE  SignedOutstanding' = Lost(w)
    <3>1. loop[x].to = w
      BY <1>6, <2>2
    <3>2. \A u, v \in Nodes : v \in SignedOutstanding'[u] <=>
            v \in SignedOutstanding[u] /\ u # x /\ ~(u = w /\ v = x)
      BY <1>5, <1>6, <2>2, <3>1
    <3> QED
      BY <2>1, <3>2
  <2>3. CASE \A w \in Nodes : w # x /\ x \in SignedOutstanding[w] => x \in SignedOutstanding'[w]
    <3>1. \A u, v \in Nodes : v \in SignedOutstanding'[u] <=>
            v \in SignedOutstanding[u] /\ u # x /\ ~(u = x /\ v = x)
      BY <1>5, <1>6, <2>3
    <3> QED
      BY <2>1, <3>1
  <2> QED
    BY <2>2, <2>3
<1> QED
  BY <1>1, <1>4, <1>7 DEF Announces!Restart

LEMMA LoopSendBody ==
  ASSUME NEW x \in Nodes, LoopSend(x)
  PROVE  /\ loop[x] # Absent
         /\ \A k \in msgs' : k \in msgs \/ (k.from = x /\ k.to = loop[x].to /\ k.body = loop[x].body)
BY DEF LoopSend, Sent

\* Steps that no challenge and no answer is part of, and steps that lose answers.
LEMMA RefineOther ==
  ASSUME SessionInv, SessionInv',
         \/ \E x, y \in Nodes, c \in Conns : Take(x, y, c) \/ Activate(x, y, c)
         \/ \E x \in Nodes : LoopSend(x) \/ LoopFail(x) \/ Expire(x) \/ Administer(x)
         \/ \E x, y \in Nodes : Poll(x, y)
         \/ \E c \in Conns : Fail(c) \/ Lose(c)
         \/ UNCHANGED vars
  PROVE  Announces!Lose
<1>1. pending' = pending /\ announced' = announced
  BY DEF Take, Activate, LoopSend, LoopFail, Expire, Administer, Poll, Fail, Lose, vars, identityVars
<1>2. \A u \in Nodes : loop'[u] \in {loop[u], Absent}
  BY DEF Take, Activate, LoopSend, LoopFail, Expire, Administer, Poll, Fail, Lose, vars,
         SessionInv, SessionsTypeOK
<1> DEFINE Old(k) ==
             \/ k \in msgs
             \/ k.body.type # "AnnounceProof"
             \/ loop[k.from] # Absent /\ loop[k.from].to = k.to /\ loop[k.from].body = k.body
<1>3. \A k \in msgs' : Old(k)
  <2>1. ASSUME NEW x \in Nodes, NEW y \in Nodes, NEW c \in Conns, Activate(x, y, c)
        PROVE  \A k \in msgs' : Old(k)
    BY <2>1 DEF Activate, Sent, Plain
  <2>2. ASSUME NEW x \in Nodes, NEW y \in Nodes, NEW c \in Conns, Take(x, y, c)
        PROVE  \A k \in msgs' : Old(k)
    BY <2>2 DEF Take
  <2>3. ASSUME NEW x \in Nodes, LoopSend(x) PROVE \A k \in msgs' : Old(k)
    <3>1. /\ loop[x] # Absent
          /\ \A k \in msgs' : k \in msgs \/ (k.from = x /\ k.to = loop[x].to /\ k.body = loop[x].body)
      BY <2>3, LoopSendBody
    <3> QED
      BY <3>1
  <2>4. ASSUME NEW x \in Nodes, NEW y \in Nodes, Poll(x, y) PROVE \A k \in msgs' : Old(k)
    BY <2>4 DEF Poll, Sent, Carrying
  <2>5. ASSUME NEW x \in Nodes, LoopFail(x) \/ Expire(x) \/ Administer(x) PROVE \A k \in msgs' : Old(k)
    BY <2>5 DEF LoopFail, Expire, Administer
  <2>6. ASSUME NEW c \in Conns, Fail(c) \/ Lose(c) PROVE \A k \in msgs' : Old(k)
    BY <2>6 DEF Fail, Lose
  <2>7. CASE UNCHANGED vars
    BY <2>7 DEF vars
  <2> HIDE DEF Old
  <2> QED
    BY <2>1, <2>2, <2>3, <2>4, <2>5, <2>6, <2>7
<1>4. \A u, v \in Nodes, n \in Conns :
        Carried(u, v, "AnnounceProof", n)' => Carried(u, v, "AnnounceProof", n)
  BY <1>2, <1>3, ProofsKept
<1> QED
  BY <1>1, <1>4, ProofsLost

\* A dial that is cut short takes the messages to its side with it.
LEMMA RefineCancel ==
  ASSUME SessionInv, SessionInv', NEW x \in Nodes, NEW y \in Nodes, NEW c \in Conns, Cancel(x, y, c)
  PROVE  Announces!Lose
<1>1. /\ pending' = pending /\ announced' = announced
      /\ loop' = loop /\ msgs' \subseteq msgs
  BY DEF Cancel, identityVars
<1>2. \A u, v \in Nodes, n \in Conns :
        Carried(u, v, "AnnounceProof", n)' => Carried(u, v, "AnnounceProof", n)
  BY <1>1 DEF Carried
<1> QED
  BY <1>1, <1>2, ProofsLost

LEMMA RefineMember ==
  ASSUME SessionInv, SessionInv', NEW m \in msgs, HandleRequest(m) \/ HandleResponse(m)
  PROVE  Announces!Lose
<1>1. /\ pending' = pending /\ announced' = announced
      /\ loop[m.to] = Absent /\ m.body.type # "AnnounceProof"
  BY DEF HandleRequest, HandleResponse, Handles, identityVars
<1>2. ASSUME NEW tok \in Token, Answer(m, Carrying("NetworkConfigResponse", tok))
      PROVE  \A u, v \in Nodes, n \in Conns :
               Carried(u, v, "AnnounceProof", n)' => Carried(u, v, "AnnounceProof", n)
  <2>1. /\ Carrying("NetworkConfigResponse", tok) \in Body
        /\ Carrying("NetworkConfigResponse", tok).type # "AnnounceProof"
    BY CarryingType DEF Carrying, ControlMessage
  <2> QED
    BY <1>1, <1>2, <2>1, AnswerProofs
<1>3. ASSUME Dropped(m)
      PROVE  \A u, v \in Nodes, n \in Conns :
               Carried(u, v, "AnnounceProof", n)' => Carried(u, v, "AnnounceProof", n)
  BY <1>3 DEF Dropped, Carried
<1>4. Dropped(m) \/ \E tok \in Token : Answer(m, Carrying("NetworkConfigResponse", tok))
  BY DEF HandleRequest, HandleResponse, Token
<1> QED
  BY <1>1, <1>2, <1>3, <1>4, ProofsLost

LEMMA RefineInit == Init => Announces!Init
<1> SUFFICES ASSUME Init PROVE Announces!Init
  OBVIOUS
<1>1. SessionInv
  BY SessionInit
<1>2. \A x, y \in Nodes : y \notin Outstanding[x] /\ y \notin SignedOutstanding[x]
  BY <1>1, OutstandingMember, SessionAssumption DEF Init
<1> QED
  BY <1>1, <1>2, OutstandingMember DEF Init, Announces!Init, Announces!Nobody

LEMMA RefineStep ==
  SessionInv /\ ProofInv /\ [Next]_vars => [Announces!Next]_(Announces!vars)
<1> SUFFICES ASSUME SessionInv, ProofInv, [Next]_vars PROVE Announces!Next
  OBVIOUS
<1>1. SessionInv'
  BY SessionStep
<1>2. ASSUME NEW x \in Nodes, Session(x) PROVE Announces!Next
  BY <1>1, <1>2, RefineDial, RefineReaderEnds, RefineOther DEF Session, Announces!Next
<1>3. ASSUME NEW m \in msgs, Handle(m) PROVE Announces!Next
  <2>1. m.from \in Nodes /\ m.to \in Nodes
    BY MessageType DEF SessionInv
  <2> QED
    BY <1>1, <1>3, <2>1, RefineAnnounce, RefineChallenge, RefineProof, RefineMember
       DEF Handle, Announces!Next
<1>4. CASE Environment \/ UNCHANGED vars
  BY <1>1, <1>4, RefineRestart, RefineOther, RefineCancel DEF Environment, Announces!Next
<1> QED
  BY <1>2, <1>3, <1>4 DEF Next

(* The sessions implement ChallengeResponse: for any nodes, dials, faults   *)
(* and restarts, however late and on whichever session messages arrive, a  *)
(* remote becomes known only by an answer to the challenge that is         *)
(* outstanding for it, and every answer is accepted at most once.          *)
THEOREM ImplementsChallengeResponseCorrect == Spec => ImplementsChallengeResponse
<1>1. Init => SessionInv /\ ProofInv
  BY SessionInit, ProofInit
<1>2. SessionInv /\ ProofInv /\ [Next]_vars => (SessionInv /\ ProofInv)'
  BY SessionStep, ProofStep
<1> QED
  BY <1>1, <1>2, RefineInit, RefineStep, PTL
     DEF Spec, ImplementsChallengeResponse, Announces!Spec
=============================================================================
