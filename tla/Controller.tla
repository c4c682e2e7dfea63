----------------------------- MODULE Controller -----------------------------
(***************************************************************************)
(* The embedded network controller (src/src/controller.rs): the networks   *)
(* it owns, their members, the addresses it gives them, and the files      *)
(* controller.d/network/<nwid>.json and <nwid>/member/<id>.json that a     *)
(* restart loads them from.                                                *)
(*                                                                         *)
(* Calls come from tasks that run in parallel: REST requests of an         *)
(* administrator, and the QUIC and UDP loops, which register the joins of  *)
(* nodes.  Two locks protect the two maps.  Most calls take a lock to      *)
(* read, let it go, make a record from what they read, write its file and  *)
(* only then take the lock again to store it; three hold a lock while they *)
(* write or remove files.                                                  *)
(*                                                                         *)
(* Simplifications: a record keeps what decides about authorization and    *)
(* addresses; auto_assign_ips_for_member() reads the network and its       *)
(* members in one step; remove_dir_all() is one step.                      *)
(***************************************************************************)
EXTENDS Files, Naturals

CONSTANTS
  Networks,    \* network ids
  Members,     \* node addresses
  Tasks,       \* tasks that call the controller
  V4Pool,      \* the IPv4 addresses of the assignment pools, in the order they are tried
  V6Probes,    \* V6Probes[n][m]: the RFC 7217 candidates of m in n, in the order they are tried
  Patches,     \* partial member payloads an administrator may post
  NetPatches,  \* partial network payloads an administrator may post
  Overlap,     \* may calls overlap?
  MayCrash     \* bound: may the process die?

VARIABLES
  nets,     \* nets[n]: the configuration of network n, or Absent
  members,  \* members[n][m]: the record of member m, or Absent
  netFile,  \* netFile[n]: the file of network n, or Absent
  memFile,  \* memFile[n][m]: the file of member m, or Absent
  dir,      \* dir[n]: does the directory of the member files exist?
  netLock,  \* the task that holds the networks lock across steps, or Absent
  memLock,  \* the task that holds the members lock across steps, or Absent
  pc,       \* pc[t]: where task t is inside its call
  loc,      \* loc[t]: the locals of that call
  granted   \* granted[n]: history: who was ever authorized for n, by an administrator
            \* or by joining while n was public

disk  == <<netFile, memFile, dir>>
maps  == <<nets, members>>
locks == <<netLock, memLock>>
vars  == <<maps, disk, locks, pc, loc, granted>>

Modes == {"v4", "v6", "6plane", "rfc4193"}   \* v4AssignMode.zt and v6AssignMode.*

Derived == {"6plane", "rfc4193"}   \* addresses that are functions of network and member

Elements(seq) == {seq[i] : i \in DOMAIN seq}

V4 == Elements(V4Pool)

V6 == UNION {Elements(V6Probes[n][m]) : n \in Networks, m \in Members}

Address == V4 \cup V6 \cup (Derived \X Members)

NetRec == [private: BOOLEAN, modes: SUBSET Modes]

MemRec == [authorized: BOOLEAN, noAuto: BOOLEAN, ips: SUBSET Address]

Flag == {"keep", "on", "off"}   \* a key that is missing, true, false

NetPatch == [private: Flag, modes: {Absent} \cup SUBSET Modes]

Patch == [authorized: Flag, noAuto: Flag, ips: {Absent} \cup SUBSET Address]

NetFile == [data: NetRec \cup {Empty, Garbled}, fds: SUBSET Tasks]

MemFile == [data: MemRec \cup {Empty, Garbled}, fds: SUBSET Tasks]

Steps == {"idle", "assign", "mkdir", "open", "fill", "insert", "known", "record",
          "merge", "recheck", "netopen", "netfill", "netinsert", "prune", "pruneopen",
          "prunefill", "rmnet", "rmdir", "rmmembers", "rmmember"}

Local == [nwid: Networks, mem: Members \cup {Absent}, rec: MemRec \cup {Absent},
          cfg: NetRec \cup {Absent}, upd: NetPatch \cup {Absent},
          todo: SUBSET Members]

ASSUME ControllerAssumption ==
  /\ Patches \subseteq Patch
  /\ NetPatches \subseteq NetPatch
  /\ Overlap \in BOOLEAN /\ MayCrash \in BOOLEAN
  /\ Absent \notin Networks /\ Absent \notin Members /\ Absent \notin Tasks
  /\ Absent \notin NetRec /\ Absent \notin MemRec /\ Absent \notin NetPatch
  /\ Absent \notin NetFile /\ Absent \notin MemFile /\ Absent \notin Local
  /\ \A s \in (SUBSET Modes) \cup (SUBSET Address) : s # Absent
  /\ Empty \notin NetRec /\ Garbled \notin NetRec /\ Empty \notin MemRec /\ Garbled \notin MemRec

ControllerTypeOK ==
  /\ nets \in [Networks -> NetRec \cup {Absent}]
  /\ members \in [Networks -> [Members -> MemRec \cup {Absent}]]
  /\ netFile \in [Networks -> NetFile \cup {Absent}]
  /\ memFile \in [Networks -> [Members -> MemFile \cup {Absent}]]
  /\ dir \in [Networks -> BOOLEAN]
  /\ netLock \in Tasks \cup {Absent} /\ memLock \in Tasks \cup {Absent}
  /\ pc \in [Tasks -> Steps]
  /\ loc \in [Tasks -> Local \cup {Absent}]
  /\ granted \in [Networks -> SUBSET Members]

-----------------------------------------------------------------------------
(* Records *)

Choice(flag, old) == IF flag = "keep" THEN old ELSE flag = "on"

\* A partial payload is merged over the record, or stands on serde's defaults.
Patched(r, p) ==
  LET old == IF r = Absent THEN [authorized |-> FALSE, noAuto |-> FALSE, ips |-> {}] ELSE r
  IN  [authorized |-> Choice(p.authorized, old.authorized),
       noAuto |-> Choice(p.noAuto, old.noAuto),
       ips |-> IF p.ips = Absent THEN old.ips ELSE p.ips]

\* A network without a v4AssignMode assigns IPv4, one without a v6AssignMode no IPv6.
Merged(c, p) ==
  LET old == IF c = Absent THEN [private |-> FALSE, modes |-> {"v4"}] ELSE c
  IN  [private |-> Choice(p.private, old.private),
       modes |-> IF p.modes = Absent THEN old.modes ELSE p.modes]

Managed(r) == r.authorized /\ ~r.noAuto

-----------------------------------------------------------------------------
(* Addresses *)

\* Mutant: the addresses of members that are not authorized count as free.
UsedByAuthorized(n) ==
  UNION {members[n][m].ips : m \in {k \in Members : /\ members[n][k] # Absent
                                                    /\ members[n][k].authorized}}

Used(n) == UNION {members[n][m].ips : m \in {k \in Members : members[n][k] # Absent}}

\* next_free_ip() and next_free_ipv6(): the first candidate nobody has, none when all are taken.
FirstFree(candidates, used) ==
  LET free == {i \in DOMAIN candidates : candidates[i] \notin used}
  IN  {candidates[i] : i \in {k \in free : \A j \in free : k <= j}}

\* Mutant: an address derived from the network alone.
DerivedFromNetwork(n, m, modes) == (modes \cap Derived) \X {n}

\* compute_6plane_ip() and compute_rfc4193_ip(): an injective function of the pair.
DerivedIps(n, m, modes) == (modes \cap Derived) \X {m}

\* A derived address that an administrator copied from another member stays, too.
WithDerived(n, m, modes, ips) == (ips \cap (modes \X Members)) \cup DerivedIps(n, m, modes)

\* auto_assign_ips_for_member(): without a network it leaves the addresses alone.
AutoAssigned(n, m, ips) ==
  LET modes == nets[n].modes
      Has(mode, class, candidates) ==
        IF mode \notin modes THEN {}
        ELSE IF ips \cap class # {} THEN ips \cap class
        ELSE FirstFree(candidates, Used(n))
  IN  IF nets[n] = Absent THEN ips
      ELSE Has("v4", V4, V4Pool) \cup Has("v6", V6, V6Probes[n][m])
             \cup WithDerived(n, m, modes, ips)

\* What a network update does to a member it assigns addresses to: nothing new from the pools.
Pruned(n, c, m, r) ==
  IF ~Managed(r) THEN r
  ELSE [r EXCEPT !.ips = (IF "v4" \in c.modes THEN @ \cap V4 ELSE {})
                           \cup (IF "v6" \in c.modes THEN @ \cap V6 ELSE {})
                           \cup WithDerived(n, m, c.modes, @)]

\* get_effective_member(): what the controller serves, on top of what it stored.
Served(n, m) ==
  LET r == members[n][m]
  IN  IF Managed(r) THEN AutoAssigned(n, m, r.ips) ELSE r.ips

-----------------------------------------------------------------------------
(* Calls *)

Begin(t) == pc[t] = "idle" /\ (Overlap \/ \A s \in Tasks : pc[s] = "idle")

Goto(t, step) == pc' = [pc EXCEPT ![t] = step]

Call(t, step, l) == Goto(t, step) /\ loc' = [loc EXCEPT ![t] = l]

Return(t) == Call(t, "idle", Absent)

MemberCall(n, m, r) ==
  [nwid |-> n, mem |-> m, rec |-> r, cfg |-> Absent, upd |-> Absent, todo |-> {}]

NetworkCall(n, c, p) ==
  [nwid |-> n, mem |-> Absent, rec |-> Absent, cfg |-> c, upd |-> p, todo |-> {}]

Grant(n, m) == granted' = [granted EXCEPT ![n] = @ \cup {m}]

\* Addresses are assigned to authorized members only; the file comes next in any case.
AfterRecord(r) == IF Managed(r) THEN "assign" ELSE "mkdir"

-----------------------------------------------------------------------------
(* save_member() *)

\* POST of a partial payload.  Whether the network exists is not asked.
SaveMember(t, n, m, p) ==
  LET r == Patched(members[n][m], p) IN
  /\ Begin(t)
  /\ memLock = Absent
  /\ Call(t, AfterRecord(r), MemberCall(n, m, r))
  /\ IF p.authorized = "on" THEN Grant(n, m) ELSE UNCHANGED granted
  /\ UNCHANGED <<maps, disk, locks>>

AssignMember(t) ==
  LET l == loc[t] IN
  /\ pc[t] = "assign"
  /\ netLock = Absent /\ memLock = Absent
  /\ Call(t, "mkdir", [l EXCEPT !.rec.ips = AutoAssigned(l.nwid, l.mem, @)])
  /\ UNCHANGED <<maps, disk, locks, granted>>

MakeDir(t) ==
  /\ pc[t] = "mkdir"
  /\ dir' = [dir EXCEPT ![loc[t].nwid] = TRUE]
  /\ Goto(t, "open")
  /\ UNCHANGED <<maps, netFile, memFile, locks, loc, granted>>

\* The call fails when the directory was removed again.
OpenMember(t) ==
  LET l == loc[t] IN
  /\ pc[t] = "open"
  /\ \/ /\ dir[l.nwid]
        /\ memFile' = [memFile EXCEPT ![l.nwid][l.mem] = Truncated(@, t)]
        /\ Goto(t, "fill")
        /\ UNCHANGED loc
     \/ /\ ~dir[l.nwid]
        /\ Return(t)
        /\ UNCHANGED memFile
  /\ UNCHANGED <<maps, netFile, dir, locks, granted>>

\* A file that was removed meanwhile is written to no effect.
WriteMember(t, n, m, r) ==
  LET file == memFile[n][m] IN
  \/ /\ HasOpen(file, t)
     /\ \E d \in Overwrites(file.data, r) :
          memFile' = [memFile EXCEPT ![n][m] = Wrote(file, t, d)]
  \/ /\ ~HasOpen(file, t)
     /\ UNCHANGED memFile

FillMember(t) ==
  LET l == loc[t] IN
  /\ pc[t] = "fill"
  /\ WriteMember(t, l.nwid, l.mem, l.rec)
  /\ Goto(t, "insert")
  /\ UNCHANGED <<maps, netFile, dir, locks, loc, granted>>

InsertMember(t) ==
  LET l == loc[t] IN
  /\ pc[t] = "insert"
  /\ memLock = Absent
  /\ members' = [members EXCEPT ![l.nwid][l.mem] = l.rec]
  /\ Return(t)
  /\ UNCHANGED <<nets, disk, locks, granted>>

-----------------------------------------------------------------------------
(* register_join_request(); its record is then assigned, written and stored like any other *)

Join(t, n, m) ==
  /\ Begin(t)
  /\ netLock = Absent
  /\ nets[n] # Absent
  /\ Call(t, "known", MemberCall(n, m, Absent))
  /\ UNCHANGED <<maps, disk, locks, granted>>

JoinKnown(t) ==
  LET l == loc[t] IN
  /\ pc[t] = "known"
  /\ memLock = Absent
  /\ IF members[l.nwid][l.mem] = Absent THEN Goto(t, "record") /\ UNCHANGED loc ELSE Return(t)
  /\ UNCHANGED <<maps, disk, locks, granted>>

\* Mutant: a network that is gone by now counts as public.
JoinRecordPublic(t) ==
  LET l == loc[t]
      public == nets[l.nwid] = Absent \/ ~nets[l.nwid].private
      r == [authorized |-> public, noAuto |-> FALSE, ips |-> {}]
  IN
  /\ pc[t] = "record"
  /\ netLock = Absent
  /\ Call(t, AfterRecord(r), [l EXCEPT !.rec = r])
  /\ IF nets[l.nwid] # Absent /\ public THEN Grant(l.nwid, l.mem) ELSE UNCHANGED granted
  /\ UNCHANGED <<maps, disk, locks>>

\* The network is read again; one that is gone by now counts as private.
JoinRecord(t) ==
  LET l == loc[t]
      public == nets[l.nwid] # Absent /\ ~nets[l.nwid].private
      r == [authorized |-> public, noAuto |-> FALSE, ips |-> {}]
  IN
  /\ pc[t] = "record"
  /\ netLock = Absent
  /\ Call(t, AfterRecord(r), [l EXCEPT !.rec = r])
  /\ IF public THEN Grant(l.nwid, l.mem) ELSE UNCHANGED granted
  /\ UNCHANGED <<maps, disk, locks>>

-----------------------------------------------------------------------------
(* save_network() *)

\* A payload that names a network, known or not.
SaveNetwork(t, n, p) ==
  /\ Begin(t)
  /\ netLock = Absent
  /\ Call(t, "netopen", NetworkCall(n, Merged(nets[n], p), Absent))
  /\ UNCHANGED <<maps, disk, locks, granted>>

\* A payload that does not: next_network_id() draws an id that is free.
CreateNetwork(t, p) ==
  /\ Begin(t)
  /\ netLock = Absent
  /\ \E n \in Networks : nets[n] = Absent /\ Call(t, "merge", NetworkCall(n, Absent, p))
  /\ UNCHANGED <<maps, disk, locks, granted>>

MergeNetwork(t) ==
  LET l == loc[t] IN
  /\ pc[t] = "merge"
  /\ netLock = Absent
  /\ Call(t, "recheck", NetworkCall(l.nwid, Merged(nets[l.nwid], l.upd), Absent))
  /\ UNCHANGED <<maps, disk, locks, granted>>

\* The id is checked again under the write lock, which is then dropped.
RecheckId(t) ==
  LET l == loc[t] IN
  /\ pc[t] = "recheck"
  /\ netLock = Absent
  /\ \E n \in Networks : /\ nets[n] = Absent
                         /\ n # l.nwid => nets[l.nwid] # Absent
                         /\ Call(t, "netopen", [l EXCEPT !.nwid = n])
  /\ UNCHANGED <<maps, disk, locks, granted>>

OpenNetwork(t) ==
  /\ pc[t] = "netopen"
  /\ netFile' = [netFile EXCEPT ![loc[t].nwid] = Truncated(@, t)]
  /\ Goto(t, "netfill")
  /\ UNCHANGED <<maps, memFile, dir, locks, loc, granted>>

FillNetwork(t) ==
  LET n == loc[t].nwid IN
  /\ pc[t] = "netfill"
  /\ \/ /\ HasOpen(netFile[n], t)
        /\ \E d \in Overwrites(netFile[n].data, loc[t].cfg) :
             netFile' = [netFile EXCEPT ![n] = Wrote(@, t, d)]
     \/ /\ ~HasOpen(netFile[n], t)
        /\ UNCHANGED netFile
  /\ Goto(t, "netinsert")
  /\ UNCHANGED <<maps, memFile, dir, locks, loc, granted>>

InsertNetwork(t) ==
  /\ pc[t] = "netinsert"
  /\ netLock = Absent
  /\ nets' = [nets EXCEPT ![loc[t].nwid] = loc[t].cfg]
  /\ Goto(t, "prune")
  /\ UNCHANGED <<members, disk, locks, loc, granted>>

\* Mutant: a member is handed to auto_assign_ips_for_member() under the guard of the members.
PruneAssigns(t) ==
  LET n == loc[t].nwid
      managed == {m \in Members : members[n][m] # Absent /\ Managed(members[n][m])}
  IN
  /\ pc[t] = "prune"
  /\ memLock = Absent
  /\ \/ managed = {} /\ Return(t) /\ UNCHANGED memLock
     \/ /\ \E m \in managed : Call(t, "assign", MemberCall(n, m, members[n][m]))
        /\ memLock' = t
  /\ UNCHANGED <<maps, disk, netLock, granted>>

\* The assignments of all members are reconciled at once; the members lock stays held ...
PruneMembers(t) ==
  LET n == loc[t].nwid
      new == [m \in Members |-> IF members[n][m] = Absent THEN Absent
                                ELSE Pruned(n, loc[t].cfg, m, members[n][m])]
      changed == {m \in Members : new[m] # members[n][m]}
  IN
  /\ pc[t] = "prune"
  /\ memLock = Absent
  /\ members' = [members EXCEPT ![n] = new]
  /\ \/ changed = {} /\ Return(t) /\ UNCHANGED memLock
     \/ /\ changed # {}
        /\ Call(t, "pruneopen", [loc[t] EXCEPT !.todo = changed])
        /\ memLock' = t
  /\ UNCHANGED <<nets, disk, netLock, granted>>

\* ... until the file of each that changed is written.
NextPruned(t, m) ==
  LET rest == loc[t].todo \ {m} IN
  \/ rest = {} /\ Return(t) /\ memLock' = Absent
  \/ rest # {} /\ Call(t, "pruneopen", [loc[t] EXCEPT !.todo = rest]) /\ UNCHANGED memLock

\* Mutant: the network is read while the members lock is held.
PruneReadsNetwork(t) ==
  /\ netLock = Absent
  /\ pc[t] = "pruneopen"
  /\ \E m \in loc[t].todo : NextPruned(t, m)
  /\ UNCHANGED <<maps, disk, netLock, granted>>

\* Mutant: the members' files are left as they were.
PruneNoFile(t) ==
  /\ pc[t] = "pruneopen"
  /\ \E m \in loc[t].todo : NextPruned(t, m)
  /\ UNCHANGED <<maps, disk, netLock, granted>>

PruneOpen(t) ==
  LET n == loc[t].nwid IN
  /\ pc[t] = "pruneopen"
  /\ \E m \in loc[t].todo :
       \/ /\ dir[n]
          /\ memFile' = [memFile EXCEPT ![n][m] = Truncated(@, t)]
          /\ Call(t, "prunefill", [loc[t] EXCEPT !.mem = m])
          /\ UNCHANGED memLock
       \/ /\ ~dir[n]
          /\ NextPruned(t, m)
          /\ UNCHANGED memFile
  /\ UNCHANGED <<maps, netFile, dir, netLock, granted>>

PruneFill(t) ==
  LET l == loc[t] IN
  /\ pc[t] = "prunefill"
  /\ WriteMember(t, l.nwid, l.mem, members[l.nwid][l.mem])
  /\ NextPruned(t, l.mem)
  /\ UNCHANGED <<maps, netFile, dir, netLock, granted>>

-----------------------------------------------------------------------------
(* delete_network(): the networks lock is held throughout *)

DeleteNetwork(t, n) ==
  /\ Begin(t)
  /\ netLock = Absent
  /\ nets[n] # Absent
  /\ nets' = [nets EXCEPT ![n] = Absent]
  /\ netLock' = t
  /\ Call(t, "rmnet", NetworkCall(n, Absent, Absent))
  /\ UNCHANGED <<members, disk, memLock, granted>>

RemoveNetFile(t) ==
  /\ pc[t] = "rmnet"
  /\ netFile' = [netFile EXCEPT ![loc[t].nwid] = Absent]
  /\ Goto(t, "rmdir")
  /\ UNCHANGED <<maps, memFile, dir, locks, loc, granted>>

RemoveDir(t) ==
  /\ pc[t] = "rmdir"
  /\ memFile' = [memFile EXCEPT ![loc[t].nwid] = [m \in Members |-> Absent]]
  /\ dir' = [dir EXCEPT ![loc[t].nwid] = FALSE]
  /\ Goto(t, "rmmembers")
  /\ UNCHANGED <<maps, netFile, locks, loc, granted>>

RemoveMembers(t) ==
  /\ pc[t] = "rmmembers"
  /\ memLock = Absent
  /\ members' = [members EXCEPT ![loc[t].nwid] = [m \in Members |-> Absent]]
  /\ netLock' = Absent
  /\ Return(t)
  /\ UNCHANGED <<nets, disk, memLock, granted>>

(* delete_member(): the members lock is held throughout *)

DeleteMember(t, n, m) ==
  /\ Begin(t)
  /\ memLock = Absent
  /\ members[n][m] # Absent
  /\ members' = [members EXCEPT ![n][m] = Absent]
  /\ memLock' = t
  /\ Call(t, "rmmember", MemberCall(n, m, Absent))
  /\ UNCHANGED <<nets, disk, netLock, granted>>

RemoveMember(t) ==
  /\ pc[t] = "rmmember"
  /\ memFile' = [memFile EXCEPT ![loc[t].nwid][loc[t].mem] = Absent]
  /\ memLock' = Absent
  /\ Return(t)
  /\ UNCHANGED <<maps, netFile, dir, netLock, granted>>

-----------------------------------------------------------------------------
(* Crash and init() *)

NetOnDisk(n) ==
  IF netFile[n] # Absent /\ netFile[n].data \in NetRec THEN netFile[n].data ELSE Absent

\* Members are loaded with their network only.
MemberOnDisk(n, m) ==
  IF NetOnDisk(n) # Absent /\ memFile[n][m] # Absent /\ memFile[n][m].data \in MemRec
  THEN memFile[n][m].data ELSE Absent

Crash ==
  /\ MayCrash
  /\ nets' = [n \in Networks |-> NetOnDisk(n)]
  /\ members' = [n \in Networks |-> [m \in Members |-> MemberOnDisk(n, m)]]
  /\ netFile' = [n \in Networks |-> Closed(netFile[n])]
  /\ memFile' = [n \in Networks |-> [m \in Members |-> Closed(memFile[n][m])]]
  /\ netLock' = Absent /\ memLock' = Absent
  /\ pc' = [t \in Tasks |-> "idle"]
  /\ loc' = [t \in Tasks |-> Absent]
  /\ UNCHANGED <<dir, granted>>

-----------------------------------------------------------------------------

Init ==
  /\ nets = [n \in Networks |-> Absent]
  /\ members = [n \in Networks |-> [m \in Members |-> Absent]]
  /\ netFile = [n \in Networks |-> Absent]
  /\ memFile = [n \in Networks |-> [m \in Members |-> Absent]]
  /\ dir = [n \in Networks |-> FALSE]
  /\ netLock = Absent /\ memLock = Absent
  /\ pc = [t \in Tasks |-> "idle"]
  /\ loc = [t \in Tasks |-> Absent]
  /\ granted = [n \in Networks |-> {}]

Start(t) ==
  \/ \E n \in Networks, m \in Members :
       \/ \E p \in Patches : SaveMember(t, n, m, p)
       \/ Join(t, n, m)
       \/ DeleteMember(t, n, m)
  \/ \E p \in NetPatches : CreateNetwork(t, p) \/ \E n \in Networks : SaveNetwork(t, n, p)
  \/ \E n \in Networks : DeleteNetwork(t, n)

Step(t) ==
  \/ AssignMember(t) \/ MakeDir(t) \/ OpenMember(t) \/ FillMember(t) \/ InsertMember(t)
  \/ JoinKnown(t) \/ JoinRecord(t)
  \/ MergeNetwork(t) \/ RecheckId(t) \/ OpenNetwork(t) \/ FillNetwork(t) \/ InsertNetwork(t)
  \/ PruneMembers(t) \/ PruneOpen(t) \/ PruneFill(t)
  \/ RemoveNetFile(t) \/ RemoveDir(t) \/ RemoveMembers(t) \/ RemoveMember(t)

Next == (\E t \in Tasks : Start(t) \/ Step(t)) \/ Crash

Spec == Init /\ [][Next]_vars

(* Fairness: the runtime runs every task that can take a step, and tokio's *)
(* RwLock is fair, so that a task that waits for a lock gets it.           *)
FairSpec == Spec /\ \A t \in Tasks : SF_vars(Step(t))

-----------------------------------------------------------------------------
(* Properties *)

(* No two members of a network hold the same address (MATRIX.md:33,        *)
(* "automatic conflict-free IP assignment"; next_free_ip() excludes what   *)
(* any member holds, authorized or not).  Holds when calls do not overlap: *)
(* the address is chosen under a lock that is dropped before it is taken.  *)
AddressesUnique ==
  \A n \in Networks : \A m, k \in Members :
    m # k /\ members[n][m] # Absent /\ members[n][k] # Absent
      => members[n][m].ips \cap members[n][k].ips = {}

(* The same of what the controller serves: get_effective_member() adds the *)
(* addresses a member still lacks to its answer, without storing them.     *)
ServedUnique ==
  \A n \in Networks : \A m, k \in Members :
    m # k /\ members[n][m] # Absent /\ members[n][k] # Absent
      => Served(n, m) \cap Served(n, k) = {}

(* Between calls the directory holds what the maps hold, so that a restart *)
(* changes nothing about a network that exists (README.md:36, "full FileDB *)
(* persistence").                                                          *)
FilesMatch ==
  (\A t \in Tasks : pc[t] = "idle")
    => \A n \in Networks :
         /\ NetOnDisk(n) = nets[n]
         /\ nets[n] # Absent => \A m \in Members : MemberOnDisk(n, m) = members[n][m]

(* No interleaving of calls, no stale record and no crash authorizes a     *)
(* member that no administrator ever authorized and that never joined the  *)
(* network while it was public: not in memory, not in a file.              *)
OnlyGranted ==
  \A n \in Networks, m \in Members :
    LET Allowed(r) == r # Absent /\ r.authorized => m \in granted[n]
    IN  Allowed(members[n][m]) /\ Allowed(MemberOnDisk(n, m))

\* The step t takes next begins with a lock that is held.
Blocked(t) ==
  \/ pc[t] \in {"assign", "record", "merge", "recheck", "netinsert"} /\ netLock # Absent
  \/ pc[t] \in {"assign", "known", "insert", "prune", "rmmembers"} /\ memLock # Absent

(* While a call waits for a lock, a call that holds one is not blocked:    *)
(* delete_network(), which waits for the members with the networks locked  *)
(* (controller.rs:403-411), is the only one that does, and whoever has the *)
(* members locked (controller.rs:334-395, 838-850) waits for nothing.      *)
HoldersGoOn ==
  \A t \in Tasks : Blocked(t) =>
    \E s \in {netLock, memLock} \ {Absent} : pc[s] # "idle" /\ ~Blocked(s)

(* Every call returns: the calls that hold a lock while they wait for the  *)
(* file system or for the other lock never wait for one another.  Drawing  *)
(* an id again is left out: it ends as long as one of 2^24 is free.        *)
CallsReturn ==
  \A t \in Tasks : pc[t] \notin {"idle", "recheck"} ~> pc[t] \in {"idle", "recheck"}
=============================================================================
