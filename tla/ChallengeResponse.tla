-------------------------- MODULE ChallengeResponse --------------------------
(***************************************************************************)
(* What the announce protocol promises, whatever sessions carry it: a node *)
(* comes to know a remote in one way only, by an answer to the challenge   *)
(* it has outstanding for that remote, and the answer uses the challenge   *)
(* up.  A new challenge voids the answers to the one before; answers may   *)
(* be lost at any time; a restart forgets challenges and remotes alike.    *)
(***************************************************************************)

CONSTANT Nodes

VARIABLES
  outstanding,  \* outstanding[x]: the remotes of which x expects an answer
  signed,       \* signed[x]: those of them whose answer is under way
  known         \* known[x]: the remotes that x knows by their address

vars == <<outstanding, signed, known>>

Nobody == [x \in Nodes |-> {}]

\* What may be left of f when some of it is lost.
Fewer(f) == {g \in [Nodes -> SUBSET Nodes] : \A x \in Nodes : g[x] \subseteq f[x]}

Init == outstanding = Nobody /\ signed = Nobody /\ known = Nobody

Challenge(x, y) ==
  /\ outstanding' = [outstanding EXCEPT ![x] = @ \cup {y}]
  /\ signed' = [signed EXCEPT ![x] = @ \ {y}]
  /\ UNCHANGED known

\* y answers the challenge that x has outstanding now.
Sign(x, y) ==
  /\ y \in outstanding[x]
  /\ signed' = [signed EXCEPT ![x] = @ \cup {y}]
  /\ UNCHANGED <<outstanding, known>>

Accept(x, y) ==
  /\ y \in signed[x]
  /\ outstanding' = [outstanding EXCEPT ![x] = @ \ {y}]
  /\ signed' = [signed EXCEPT ![x] = @ \ {y}]
  /\ known' = [known EXCEPT ![x] = @ \cup {y}]

\* A session of x with y ended.
Forget(x, y) ==
  /\ known' = [known EXCEPT ![x] = @ \ {y}]
  /\ UNCHANGED <<outstanding, signed>>

\* Answers are lost with the connection that carried them, or with a dial that failed.
Lose ==
  /\ signed' \in Fewer(signed)
  /\ UNCHANGED <<outstanding, known>>

\* Challenges that nobody answered, and that nobody can answer any more, are dropped.
Withdraw ==
  /\ outstanding' \in Fewer(outstanding)
  /\ signed \in Fewer(outstanding')
  /\ UNCHANGED <<signed, known>>

\* x starts again; the answer to one y that it was about to send may be lost with it.
Restart(x) ==
  /\ outstanding' = [outstanding EXCEPT ![x] = {}]
  /\ \E y \in Nodes :
       signed' = [z \in Nodes |-> {v \in signed[z] : z # x /\ <<z, v>> # <<y, x>>}]
  /\ known' = [known EXCEPT ![x] = {}]

Next ==
  \/ \E x, y \in Nodes : Challenge(x, y) \/ Sign(x, y) \/ Accept(x, y) \/ Forget(x, y)
  \/ \E x \in Nodes : Restart(x)
  \/ Lose
  \/ Withdraw

Spec == Init /\ [][Next]_vars
=============================================================================
