---------------------------- MODULE DurableTable ----------------------------
(***************************************************************************)
(* What the client's network table promises, whatever its files look like: *)
(* a table in memory and the copy of it that a restart brings back.  A     *)
(* change reaches the copy in one step, and a crash loses at most the      *)
(* change in progress.  The table makes two exceptions:                    *)
(*   - removing an entry may pass through a default entry on its way out;  *)
(*   - two changes of one entry at once may leave anything in the copy of  *)
(*     that entry, until the next change that has it for itself.           *)
(***************************************************************************)

CONSTANTS
  Keys,       \* network ids
  Values,     \* entries
  None,       \* no entry
  Default     \* the entry a restart makes up for a network it knows only by name

VARIABLES
  live,   \* live[k]: what a restart keeps of the entry in memory, or None
  saved,  \* saved[k]: the entry a restart would load now, or None
  mode    \* mode[k]: is the entry "settled", or is one change ("changing") or are several
          \* ("contested") on their way to its copy, which several left "unknown"?

vars == <<live, saved, mode>>

Init ==
  /\ live = [k \in Keys |-> None]
  /\ saved = [k \in Keys |-> None]
  /\ mode = [k \in Keys |-> "settled"]

\* The entry changes in memory, or is removed from it.
Change(k) ==
  /\ \E v \in Values \cup {None} : live' = [live EXCEPT ![k] = v]
  /\ mode' = [mode EXCEPT ![k] = IF @ \in {"settled", "unknown"} THEN "changing" ELSE "contested"]
  /\ UNCHANGED saved

\* The change becomes durable, all of it at once; its call may go on for a while.
Commit(k) ==
  /\ mode[k] = "changing"
  /\ saved' = [saved EXCEPT ![k] = live[k]]
  /\ mode' \in {mode, [mode EXCEPT ![k] = "settled"]}
  /\ UNCHANGED live

\* A removal half done.
Expose(k) ==
  /\ mode[k] = "changing"
  /\ live[k] = None
  /\ saved[k] # None
  /\ saved' = [saved EXCEPT ![k] = Default]
  /\ UNCHANGED <<live, mode>>

\* Several changes of k meet on disk.
Collide(k) ==
  /\ mode[k] = "contested"
  /\ \E v \in Values \cup {None} : saved' = [saved EXCEPT ![k] = v]
  /\ mode' \in {mode, [mode EXCEPT ![k] = "unknown"]}
  /\ UNCHANGED live

Crash ==
  /\ live' = saved
  /\ mode' = [k \in Keys |-> "settled"]
  /\ UNCHANGED saved

Next ==
  \/ \E k \in Keys : Change(k) \/ Commit(k) \/ Expose(k) \/ Collide(k)
  \/ Crash

Spec == Init /\ [][Next]_vars
=============================================================================
