-------------------------- MODULE ControllerProofs --------------------------
(***************************************************************************)
(* Proofs about the embedded controller, for any networks, members, pools, *)
(* payloads and tasks, with calls that overlap and crashes at any point:   *)
(* its types, and that nobody is authorized whom nobody authorized.        *)
(***************************************************************************)
EXTENDS Controller, TLAPS

-----------------------------------------------------------------------------
(* Type correctness *)

MemberSteps == {"assign", "mkdir", "open", "fill", "insert"}

NetworkSteps == {"recheck", "netopen", "netfill", "netinsert", "prune"}

LockedSteps == {"pruneopen", "prunefill", "rmmember"}

\* The locals a call has at each of its steps.
Well(step, l) ==
  /\ step # "idle" => l \in Local
  /\ step \in MemberSteps => l.mem # Absent /\ l.rec # Absent
  /\ step \in {"known", "record", "rmmember"} => l.mem # Absent
  /\ step = "merge" => l.upd # Absent
  /\ step \in NetworkSteps => l.cfg # Absent
  /\ step = "prunefill" => l.mem \in l.todo

\* A task that writes the files of pruned members, or removes one, holds the members lock:
\* the members it has yet to write are still there.
Locked(t) ==
  pc[t] \in LockedSteps
    => memLock = t /\ \A m \in loc[t].todo : members[loc[t].nwid][m] # Absent

TypeInv ==
  /\ ControllerTypeOK
  /\ \A t \in Tasks : Well(pc[t], loc[t])
  /\ \A t \in Tasks : Locked(t)

LEMMA InitType == Init => TypeInv
BY DEF Init, TypeInv, ControllerTypeOK, Well, Locked, Steps, MemberSteps, NetworkSteps, LockedSteps

\* What a step of t has to keep of the control part, when it leaves the other tasks alone.
LEMMA Control ==
  ASSUME TypeInv, NEW t \in Tasks, NEW step \in Steps, NEW l \in Local \cup {Absent},
         pc' = [pc EXCEPT ![t] = step], loc' = [loc EXCEPT ![t] = l],
         Well(step, l),
         step \in LockedSteps => memLock' = t /\ \A m \in l.todo : members'[l.nwid][m] # Absent,
         \A s \in Tasks : s # t /\ memLock = s => memLock' = s /\ members' = members
  PROVE  /\ pc' \in [Tasks -> Steps]
         /\ loc' \in [Tasks -> Local \cup {Absent}]
         /\ \A s \in Tasks : Well(pc'[s], loc'[s])
         /\ \A s \in Tasks : Locked(s)'
<1>1. pc' \in [Tasks -> Steps] /\ loc' \in [Tasks -> Local \cup {Absent}]
  BY DEF TypeInv, ControllerTypeOK
<1>2. pc'[t] = step /\ loc'[t] = l
  BY DEF TypeInv, ControllerTypeOK
<1>3. \A s \in Tasks : s # t => pc'[s] = pc[s] /\ loc'[s] = loc[s]
  BY DEF TypeInv, ControllerTypeOK
<1>4. \A s \in Tasks : Well(pc'[s], loc'[s])
  <2>1. TAKE s \in Tasks
  <2>2. CASE s = t
    BY <1>2, <2>2
  <2>3. CASE s # t
    BY <1>3, <2>3 DEF TypeInv
  <2>4. QED
    BY <2>2, <2>3
<1>5. \A s \in Tasks : Locked(s)'
  BY <1>2, <1>3 DEF TypeInv, Locked
<1>6. QED
  BY <1>1, <1>4, <1>5

\* The same for a step that leaves the locals alone.
LEMMA ControlGoto ==
  ASSUME TypeInv, NEW t \in Tasks, NEW step \in Steps,
         Goto(t, step), loc' = loc, Well(step, loc[t]),
         step \in LockedSteps
           => memLock' = t /\ \A m \in loc[t].todo : members'[loc[t].nwid][m] # Absent,
         \A s \in Tasks : s # t /\ memLock = s => memLock' = s /\ members' = members
  PROVE  /\ pc' \in [Tasks -> Steps]
         /\ loc' \in [Tasks -> Local \cup {Absent}]
         /\ \A s \in Tasks : Well(pc'[s], loc'[s])
         /\ \A s \in Tasks : Locked(s)'
<1>1. loc' = [loc EXCEPT ![t] = loc[t]] /\ loc[t] \in Local \cup {Absent}
  BY DEF TypeInv, ControllerTypeOK
<1>2. pc' = [pc EXCEPT ![t] = step]
  BY DEF Goto
<1> QED
  BY <1>1, <1>2, Control

\* And for a step that ends the call.
LEMMA ControlReturn ==
  ASSUME TypeInv, NEW t \in Tasks, Return(t),
         \A s \in Tasks : s # t /\ memLock = s => memLock' = s /\ members' = members
  PROVE  /\ pc' \in [Tasks -> Steps]
         /\ loc' \in [Tasks -> Local \cup {Absent}]
         /\ \A s \in Tasks : Well(pc'[s], loc'[s])
         /\ \A s \in Tasks : Locked(s)'
<1>1. /\ pc' = [pc EXCEPT ![t] = "idle"]
      /\ loc' = [loc EXCEPT ![t] = Absent]
  BY DEF Return, Call, Goto
<1>2. "idle" \in Steps /\ "idle" \notin LockedSteps /\ Well("idle", Absent)
  BY DEF Steps, LockedSteps, Well, MemberSteps, NetworkSteps
<1>3. Absent \in Local \cup {Absent}
  OBVIOUS
<1> QED
  BY <1>1, <1>2, <1>3, Control

\* Records and addresses.
LEMMA PatchedType ==
  ASSUME NEW r \in MemRec \cup {Absent}, NEW p \in Patch
  PROVE  Patched(r, p) \in MemRec
BY ControllerAssumption DEF Patched, MemRec, Patch, Choice, Flag

LEMMA MergedType ==
  ASSUME NEW c \in NetRec \cup {Absent}, NEW p \in NetPatch
  PROVE  Merged(c, p) \in NetRec
BY ControllerAssumption DEF Merged, NetRec, NetPatch, Choice, Flag, Modes

LEMMA DerivedType ==
  ASSUME NEW n \in Networks, NEW m \in Members, NEW modes \in SUBSET Modes,
         NEW ips \in SUBSET Address
  PROVE  WithDerived(n, m, modes, ips) \in SUBSET Address
BY DEF WithDerived, DerivedIps, Address

LEMMA FirstFreeType ==
  ASSUME NEW n \in Networks, NEW m \in Members, NEW used
  PROVE  /\ FirstFree(V4Pool, used) \subseteq V4
         /\ FirstFree(V6Probes[n][m], used) \subseteq V6
<1>1. ASSUME NEW c PROVE FirstFree(c, used) \subseteq Elements(c)
  BY DEF FirstFree, Elements
<1>2. Elements(V6Probes[n][m]) \in {Elements(V6Probes[k][l]) : k \in Networks, l \in Members}
  OBVIOUS
<1>3. Elements(V6Probes[n][m]) \subseteq V6
  BY <1>2 DEF V6
<1> QED
  BY <1>1, <1>3 DEF V4

LEMMA AssignedType ==
  ASSUME TypeInv, NEW n \in Networks, NEW m \in Members, NEW ips \in SUBSET Address
  PROVE  AutoAssigned(n, m, ips) \in SUBSET Address
<1>1. CASE nets[n] = Absent
  BY <1>1 DEF AutoAssigned
<1>2. CASE nets[n] # Absent
  <2>1. nets[n] \in NetRec
    BY <1>2 DEF TypeInv, ControllerTypeOK
  <2>2. WithDerived(n, m, nets[n].modes, ips) \in SUBSET Address
    BY <2>1, DerivedType DEF NetRec
  <2>3. V4 \subseteq Address /\ V6 \subseteq Address
    BY DEF Address
  <2>4. QED
    BY <1>2, <2>2, <2>3, FirstFreeType DEF AutoAssigned
<1>3. QED
  BY <1>1, <1>2

LEMMA PrunedType ==
  ASSUME NEW n \in Networks, NEW m \in Members, NEW c \in NetRec, NEW r \in MemRec
  PROVE  /\ Pruned(n, c, m, r) \in MemRec
         /\ Pruned(n, c, m, r).authorized = r.authorized
<1>1. WithDerived(n, m, c.modes, r.ips) \in SUBSET Address
  BY DerivedType DEF NetRec, MemRec
<1>2. V4 \subseteq Address /\ V6 \subseteq Address
  BY DEF Address
<1>3. QED
  BY <1>1, <1>2 DEF Pruned, MemRec

\* Files.
LEMMA MemFileType ==
  ASSUME NEW file \in MemFile \cup {Absent}, NEW t \in Tasks
  PROVE  /\ Truncated(file, t) \in MemFile
         /\ Closed(file) \in MemFile \cup {Absent}
         /\ \A r \in MemRec : \A d \in Overwrites(file.data, r) :
               HasOpen(file, t) => Wrote(file, t, d) \in MemFile
BY DEF Truncated, Closed, Overwrites, HasOpen, Wrote, MemFile

LEMMA NetFileType ==
  ASSUME NEW file \in NetFile \cup {Absent}, NEW t \in Tasks
  PROVE  /\ Truncated(file, t) \in NetFile
         /\ Closed(file) \in NetFile \cup {Absent}
         /\ \A c \in NetRec : \A d \in Overwrites(file.data, c) :
               HasOpen(file, t) => Wrote(file, t, d) \in NetFile
BY DEF Truncated, Closed, Overwrites, HasOpen, Wrote, NetFile

\* Locals.
LEMMA MemberLocal ==
  ASSUME NEW n \in Networks, NEW m \in Members, NEW r \in MemRec \cup {Absent}
  PROVE  /\ MemberCall(n, m, r) \in Local
         /\ MemberCall(n, m, r).mem # Absent
         /\ MemberCall(n, m, r).rec = r
         /\ MemberCall(n, m, r).nwid = n
BY ControllerAssumption DEF MemberCall, Local

LEMMA NetworkLocal ==
  ASSUME NEW n \in Networks, NEW c \in NetRec \cup {Absent}, NEW p \in NetPatch \cup {Absent}
  PROVE  /\ NetworkCall(n, c, p) \in Local
         /\ NetworkCall(n, c, p).cfg = c
         /\ NetworkCall(n, c, p).upd = p
         /\ NetworkCall(n, c, p).rec = Absent
         /\ NetworkCall(n, c, p).nwid = n
BY DEF NetworkCall, Local

LEMMA AfterRecordStep ==
  ASSUME NEW r
  PROVE  AfterRecord(r) \in MemberSteps /\ AfterRecord(r) \in Steps /\ AfterRecord(r) \notin LockedSteps
BY DEF AfterRecord, MemberSteps, Steps, LockedSteps

\* A member step needs a member and a record, a network step a configuration.
LEMMA WellMember ==
  ASSUME NEW l \in Local, l.mem # Absent, l.rec # Absent, NEW step \in MemberSteps
  PROVE  Well(step, l)
BY DEF Well, MemberSteps, NetworkSteps

LEMMA WellNetwork ==
  ASSUME NEW l \in Local, l.cfg # Absent, NEW step \in NetworkSteps
  PROVE  Well(step, l)
BY DEF Well, MemberSteps, NetworkSteps

\* A task inside a call has its locals.
LEMMA LocOf ==
  ASSUME TypeInv, NEW t \in Tasks, pc[t] # "idle"
  PROVE  /\ loc[t] \in Local
         /\ loc[t].nwid \in Networks
         /\ pc[t] \in MemberSteps => loc[t].mem \in Members /\ loc[t].rec \in MemRec
         /\ pc[t] \in {"known", "record", "rmmember"} => loc[t].mem \in Members
         /\ pc[t] = "merge" => loc[t].upd \in NetPatch
         /\ pc[t] \in NetworkSteps => loc[t].cfg \in NetRec
BY DEF TypeInv, Well, Local

-----------------------------------------------------------------------------

LEMMA StartType ==
  ASSUME TypeInv, NEW t \in Tasks, Start(t)
  PROVE  TypeInv'
<1>1. ASSUME NEW n \in Networks, NEW m \in Members, NEW p \in Patches, SaveMember(t, n, m, p)
      PROVE  TypeInv'
  <2> DEFINE r == Patched(members[n][m], p)
  <2>1. members[n][m] \in MemRec \cup {Absent} /\ p \in Patch
    BY ControllerAssumption DEF TypeInv, ControllerTypeOK
  <2>2. r \in MemRec /\ r # Absent
    BY <2>1, PatchedType, ControllerAssumption
  <2> HIDE DEF r
  <2>3. Well(AfterRecord(r), MemberCall(n, m, r))
    BY <2>2, MemberLocal, AfterRecordStep, WellMember
  <2>4. /\ pc' = [pc EXCEPT ![t] = AfterRecord(r)]
        /\ loc' = [loc EXCEPT ![t] = MemberCall(n, m, r)]
    BY <1>1 DEF SaveMember, Call, Goto, r
  <2>5. /\ pc' \in [Tasks -> Steps]
        /\ loc' \in [Tasks -> Local \cup {Absent}]
        /\ \A s \in Tasks : Well(pc'[s], loc'[s])
        /\ \A s \in Tasks : Locked(s)'
    BY <1>1, <2>2, <2>3, <2>4, MemberLocal, AfterRecordStep, Control DEF SaveMember, maps, locks
  <2>6. granted' \in [Networks -> SUBSET Members]
    BY <1>1 DEF SaveMember, Grant, TypeInv, ControllerTypeOK
  <2>7. QED
    BY <1>1, <2>5, <2>6 DEF SaveMember, maps, disk, locks, TypeInv, ControllerTypeOK
<1>2. ASSUME NEW n \in Networks, NEW m \in Members, Join(t, n, m)
      PROVE  TypeInv'
  <2>1. Well("known", MemberCall(n, m, Absent))
    BY MemberLocal DEF Well, MemberSteps, NetworkSteps
  <2>2. /\ pc' = [pc EXCEPT ![t] = "known"]
        /\ loc' = [loc EXCEPT ![t] = MemberCall(n, m, Absent)]
    BY <1>2 DEF Join, Call, Goto
  <2>3. "known" \in Steps /\ "known" \notin LockedSteps
    BY DEF Steps, LockedSteps
  <2>4. /\ pc' \in [Tasks -> Steps]
        /\ loc' \in [Tasks -> Local \cup {Absent}]
        /\ \A s \in Tasks : Well(pc'[s], loc'[s])
        /\ \A s \in Tasks : Locked(s)'
    BY <1>2, <2>1, <2>2, <2>3, MemberLocal, Control DEF Join, maps, locks
  <2>5. QED
    BY <1>2, <2>4 DEF Join, maps, disk, locks, TypeInv, ControllerTypeOK
<1>3. ASSUME NEW n \in Networks, NEW m \in Members, DeleteMember(t, n, m)
      PROVE  TypeInv'
  <2>1. Well("rmmember", MemberCall(n, m, Absent))
    BY MemberLocal DEF Well, MemberSteps, NetworkSteps
  <2>2. /\ pc' = [pc EXCEPT ![t] = "rmmember"]
        /\ loc' = [loc EXCEPT ![t] = MemberCall(n, m, Absent)]
    BY <1>3 DEF DeleteMember, Call, Goto
  <2>3. /\ "rmmember" \in Steps
        /\ memLock' = t /\ MemberCall(n, m, Absent).todo = {}
    BY <1>3 DEF Steps, DeleteMember, MemberCall
  <2>4. /\ pc' \in [Tasks -> Steps]
        /\ loc' \in [Tasks -> Local \cup {Absent}]
        /\ \A s \in Tasks : Well(pc'[s], loc'[s])
        /\ \A s \in Tasks : Locked(s)'
    BY <1>3, <2>1, <2>2, <2>3, MemberLocal, Control, ControllerAssumption DEF DeleteMember
  <2>5. members' \in [Networks -> [Members -> MemRec \cup {Absent}]]
    BY <1>3 DEF DeleteMember, TypeInv, ControllerTypeOK
  <2>6. QED
    BY <1>3, <2>4, <2>5 DEF DeleteMember, disk, TypeInv, ControllerTypeOK
<1>4. ASSUME NEW p \in NetPatches, CreateNetwork(t, p)
      PROVE  TypeInv'
  <2>1. PICK n \in Networks : Call(t, "merge", NetworkCall(n, Absent, p))
    BY <1>4 DEF CreateNetwork
  <2>2. p \in NetPatch /\ p # Absent
    BY ControllerAssumption
  <2>3. Well("merge", NetworkCall(n, Absent, p))
    BY <2>2, NetworkLocal DEF Well, MemberSteps, NetworkSteps
  <2>4. /\ pc' = [pc EXCEPT ![t] = "merge"]
        /\ loc' = [loc EXCEPT ![t] = NetworkCall(n, Absent, p)]
    BY <2>1 DEF Call, Goto
  <2>5. "merge" \in Steps /\ "merge" \notin LockedSteps
    BY DEF Steps, LockedSteps
  <2>6. /\ pc' \in [Tasks -> Steps]
        /\ loc' \in [Tasks -> Local \cup {Absent}]
        /\ \A s \in Tasks : Well(pc'[s], loc'[s])
        /\ \A s \in Tasks : Locked(s)'
    BY <1>4, <2>2, <2>3, <2>4, <2>5, NetworkLocal, Control DEF CreateNetwork, maps, locks
  <2>7. QED
    BY <1>4, <2>6 DEF CreateNetwork, maps, disk, locks, TypeInv, ControllerTypeOK
<1>5. ASSUME NEW p \in NetPatches, NEW n \in Networks, SaveNetwork(t, n, p)
      PROVE  TypeInv'
  <2> DEFINE c == Merged(nets[n], p)
  <2>1. nets[n] \in NetRec \cup {Absent} /\ p \in NetPatch
    BY ControllerAssumption DEF TypeInv, ControllerTypeOK
  <2>2. c \in NetRec /\ c # Absent
    BY <2>1, MergedType, ControllerAssumption
  <2> HIDE DEF c
  <2>3. "netopen" \in NetworkSteps /\ "netopen" \in Steps /\ "netopen" \notin LockedSteps
    BY DEF NetworkSteps, Steps, LockedSteps
  <2>4. Well("netopen", NetworkCall(n, c, Absent))
    BY <2>2, <2>3, NetworkLocal, WellNetwork
  <2>5. /\ pc' = [pc EXCEPT ![t] = "netopen"]
        /\ loc' = [loc EXCEPT ![t] = NetworkCall(n, c, Absent)]
    BY <1>5 DEF SaveNetwork, Call, Goto, c
  <2>6. /\ pc' \in [Tasks -> Steps]
        /\ loc' \in [Tasks -> Local \cup {Absent}]
        /\ \A s \in Tasks : Well(pc'[s], loc'[s])
        /\ \A s \in Tasks : Locked(s)'
    BY <1>5, <2>2, <2>3, <2>4, <2>5, NetworkLocal, Control DEF SaveNetwork, maps, locks
  <2>7. QED
    BY <1>5, <2>6 DEF SaveNetwork, maps, disk, locks, TypeInv, ControllerTypeOK
<1>6. ASSUME NEW n \in Networks, DeleteNetwork(t, n)
      PROVE  TypeInv'
  <2>1. "rmnet" \in Steps /\ "rmnet" \notin LockedSteps
    BY DEF Steps, LockedSteps
  <2>2. Well("rmnet", NetworkCall(n, Absent, Absent))
    BY NetworkLocal DEF Well, MemberSteps, NetworkSteps
  <2>3. /\ pc' = [pc EXCEPT ![t] = "rmnet"]
        /\ loc' = [loc EXCEPT ![t] = NetworkCall(n, Absent, Absent)]
    BY <1>6 DEF DeleteNetwork, Call, Goto
  <2>4. /\ pc' \in [Tasks -> Steps]
        /\ loc' \in [Tasks -> Local \cup {Absent}]
        /\ \A s \in Tasks : Well(pc'[s], loc'[s])
        /\ \A s \in Tasks : Locked(s)'
    BY <1>6, <2>1, <2>2, <2>3, NetworkLocal, Control DEF DeleteNetwork
  <2>5. nets' \in [Networks -> NetRec \cup {Absent}]
    BY <1>6 DEF DeleteNetwork, TypeInv, ControllerTypeOK
  <2>6. QED
    BY <1>6, <2>4, <2>5 DEF DeleteNetwork, disk, TypeInv, ControllerTypeOK
<1>7. QED
  BY <1>1, <1>2, <1>3, <1>4, <1>5, <1>6 DEF Start

-----------------------------------------------------------------------------

LEMMA StoredMemberFile ==
  ASSUME TypeInv, NEW n \in Networks, NEW m \in Members, NEW file \in MemFile \cup {Absent},
         memFile' = [memFile EXCEPT ![n][m] = file]
  PROVE  memFile' \in [Networks -> [Members -> MemFile \cup {Absent}]]
BY DEF TypeInv, ControllerTypeOK

LEMMA WriteMemberType ==
  ASSUME TypeInv, NEW t \in Tasks, NEW n \in Networks, NEW m \in Members, NEW r \in MemRec,
         WriteMember(t, n, m, r)
  PROVE  memFile' \in [Networks -> [Members -> MemFile \cup {Absent}]]
<1>1. memFile[n][m] \in MemFile \cup {Absent}
  BY DEF TypeInv, ControllerTypeOK
<1>2. CASE ~HasOpen(memFile[n][m], t)
  BY <1>2 DEF WriteMember, TypeInv, ControllerTypeOK
<1>3. CASE HasOpen(memFile[n][m], t)
  <2>1. PICK d \in Overwrites(memFile[n][m].data, r) :
          memFile' = [memFile EXCEPT ![n][m] = Wrote(memFile[n][m], t, d)]
    BY <1>3 DEF WriteMember
  <2>2. Wrote(memFile[n][m], t, d) \in MemFile
    BY <1>1, <1>3, MemFileType
  <2>3. QED
    BY <2>1, <2>2 DEF TypeInv, ControllerTypeOK
<1>4. QED
  BY <1>2, <1>3

\* The steps of save_member() and register_join_request().
LEMMA MemberStepType ==
  ASSUME TypeInv, NEW t \in Tasks,
         \/ AssignMember(t) \/ MakeDir(t) \/ OpenMember(t) \/ FillMember(t) \/ InsertMember(t)
         \/ JoinKnown(t) \/ JoinRecord(t)
  PROVE  TypeInv'
<1> DEFINE l == loc[t]
<1>0. /\ {"mkdir", "open", "fill", "insert"} \subseteq MemberSteps
      /\ {"mkdir", "open", "fill", "insert", "record"} \subseteq Steps
      /\ {"mkdir", "open", "fill", "insert", "record"} \cap LockedSteps = {}
  BY DEF MemberSteps, Steps, LockedSteps
<1>l. ASSUME pc[t] \in MemberSteps
      PROVE  /\ l \in Local /\ l.nwid \in Networks /\ l.mem \in Members /\ l.rec \in MemRec
             /\ l.mem # Absent /\ l.rec # Absent
             /\ \A step \in MemberSteps : Well(step, l)
  <2>1. pc[t] # "idle"
    BY <1>l DEF MemberSteps
  <2>2. l \in Local /\ l.nwid \in Networks /\ l.mem \in Members /\ l.rec \in MemRec
    BY <1>l, <2>1, LocOf
  <2>3. l.mem # Absent /\ l.rec # Absent
    BY <2>2, ControllerAssumption
  <2>4. QED
    BY <2>2, <2>3, WellMember
<1>1. CASE AssignMember(t)
  <2> DEFINE a == [l EXCEPT !.rec.ips = AutoAssigned(l.nwid, l.mem, @)]
  <2>1. pc[t] \in MemberSteps
    BY <1>1 DEF AssignMember, MemberSteps
  <2>2. l \in Local /\ l.nwid \in Networks /\ l.mem \in Members /\ l.rec \in MemRec /\ l.mem # Absent
    BY <2>1, <1>l
  <2>3. AutoAssigned(l.nwid, l.mem, l.rec.ips) \in SUBSET Address
    BY <2>2, AssignedType DEF MemRec
  <2>4. a \in Local /\ a.mem = l.mem /\ a.rec \in MemRec
    BY <2>2, <2>3 DEF Local, MemRec
  <2>5. a.mem # Absent /\ a.rec # Absent
    BY <2>2, <2>4, ControllerAssumption
  <2>6. pc' = [pc EXCEPT ![t] = "mkdir"] /\ loc' = [loc EXCEPT ![t] = a]
    BY <1>1 DEF AssignMember, Call, Goto
  <2> HIDE DEF a, l
  <2>7. Well("mkdir", a)
    BY <2>4, <2>5, <1>0, WellMember
  <2>8. /\ pc' \in [Tasks -> Steps]
        /\ loc' \in [Tasks -> Local \cup {Absent}]
        /\ \A s \in Tasks : Well(pc'[s], loc'[s])
        /\ \A s \in Tasks : Locked(s)'
    BY <1>0, <1>1, <2>4, <2>6, <2>7, Control DEF AssignMember, maps, locks
  <2>9. QED
    BY <1>1, <2>8 DEF AssignMember, maps, disk, locks, TypeInv, ControllerTypeOK
<1>2. CASE MakeDir(t)
  <2>1. pc[t] \in MemberSteps
    BY <1>2 DEF MakeDir, MemberSteps
  <2>2. /\ pc' \in [Tasks -> Steps]
        /\ loc' \in [Tasks -> Local \cup {Absent}]
        /\ \A s \in Tasks : Well(pc'[s], loc'[s])
        /\ \A s \in Tasks : Locked(s)'
    BY <1>0, <1>l, <1>2, <2>1, ControlGoto DEF MakeDir, maps, locks
  <2>3. QED
    BY <1>2, <2>2 DEF MakeDir, maps, locks, TypeInv, ControllerTypeOK
<1>3. CASE OpenMember(t)
  <2>1. pc[t] \in MemberSteps
    BY <1>3 DEF OpenMember, MemberSteps
  <2>2. l.nwid \in Networks /\ l.mem \in Members
    BY <2>1, <1>l
  <2>3. Truncated(memFile[l.nwid][l.mem], t) \in MemFile
    BY <2>2, MemFileType DEF TypeInv, ControllerTypeOK
  <2>a. \/ memFile' = memFile
        \/ memFile' = [memFile EXCEPT ![l.nwid][l.mem] = Truncated(memFile[l.nwid][l.mem], t)]
    BY <1>3 DEF OpenMember
  <2> HIDE DEF l
  <2>4. memFile' \in [Networks -> [Members -> MemFile \cup {Absent}]]
    BY <2>a, <2>2, <2>3, StoredMemberFile DEF TypeInv, ControllerTypeOK
  <2> USE DEF l
  <2>5. /\ pc' \in [Tasks -> Steps]
        /\ loc' \in [Tasks -> Local \cup {Absent}]
        /\ \A s \in Tasks : Well(pc'[s], loc'[s])
        /\ \A s \in Tasks : Locked(s)'
    <3>1. CASE Goto(t, "fill") /\ loc' = loc
      BY <3>1, <1>0, <1>l, <1>3, <2>1, ControlGoto DEF OpenMember, maps, locks
    <3>2. CASE Return(t)
      BY <3>2, <1>3, ControlReturn DEF OpenMember, maps, locks
    <3>3. QED
      BY <1>3, <3>1, <3>2 DEF OpenMember
  <2>6. QED
    BY <1>3, <2>4, <2>5 DEF OpenMember, maps, locks, TypeInv, ControllerTypeOK
<1>4. CASE FillMember(t)
  <2>1. pc[t] \in MemberSteps
    BY <1>4 DEF FillMember, MemberSteps
  <2>2. memFile' \in [Networks -> [Members -> MemFile \cup {Absent}]]
    BY <1>4, <2>1, <1>l, WriteMemberType DEF FillMember
  <2>3. /\ pc' \in [Tasks -> Steps]
        /\ loc' \in [Tasks -> Local \cup {Absent}]
        /\ \A s \in Tasks : Well(pc'[s], loc'[s])
        /\ \A s \in Tasks : Locked(s)'
    BY <1>0, <1>l, <1>4, <2>1, ControlGoto DEF FillMember, maps, locks
  <2>4. QED
    BY <1>4, <2>2, <2>3 DEF FillMember, maps, locks, TypeInv, ControllerTypeOK
<1>5. CASE InsertMember(t)
  <2>1. pc[t] \in MemberSteps
    BY <1>5 DEF InsertMember, MemberSteps
  <2>2. members' \in [Networks -> [Members -> MemRec \cup {Absent}]]
    BY <1>5, <2>1, <1>l DEF InsertMember, TypeInv, ControllerTypeOK
  <2>3. /\ pc' \in [Tasks -> Steps]
        /\ loc' \in [Tasks -> Local \cup {Absent}]
        /\ \A s \in Tasks : Well(pc'[s], loc'[s])
        /\ \A s \in Tasks : Locked(s)'
    BY <1>5, ControlReturn, ControllerAssumption DEF InsertMember, locks
  <2>4. QED
    BY <1>5, <2>2, <2>3 DEF InsertMember, disk, locks, TypeInv, ControllerTypeOK
<1>6. CASE JoinKnown(t)
  <2>1. pc[t] = "known" /\ pc[t] # "idle"
    BY <1>6 DEF JoinKnown
  <2>2. l \in Local /\ l.mem # Absent
    BY <2>1, LocOf, ControllerAssumption
  <2>3. Well("record", l)
    BY <2>2 DEF Well, MemberSteps, NetworkSteps
  <2>4. /\ pc' \in [Tasks -> Steps]
        /\ loc' \in [Tasks -> Local \cup {Absent}]
        /\ \A s \in Tasks : Well(pc'[s], loc'[s])
        /\ \A s \in Tasks : Locked(s)'
    <3>1. CASE Goto(t, "record") /\ loc' = loc
      BY <3>1, <1>0, <1>6, <2>3, ControlGoto DEF JoinKnown, maps, locks
    <3>2. CASE Return(t)
      BY <3>2, <1>6, ControlReturn DEF JoinKnown, maps, locks
    <3>3. QED
      BY <1>6, <3>1, <3>2 DEF JoinKnown
  <2>5. QED
    BY <1>6, <2>4 DEF JoinKnown, maps, disk, locks, TypeInv, ControllerTypeOK
<1>7. CASE JoinRecord(t)
  <2> DEFINE public == nets[l.nwid] # Absent /\ ~nets[l.nwid].private
             r == [authorized |-> public, noAuto |-> FALSE, ips |-> {}]
             k == [l EXCEPT !.rec = r]
  <2>1. pc[t] = "record" /\ pc[t] # "idle"
    BY <1>7 DEF JoinRecord
  <2>2. l \in Local /\ l.mem \in Members /\ l.mem # Absent /\ l.nwid \in Networks
    BY <2>1, LocOf, ControllerAssumption
  <2>3. public \in BOOLEAN
    BY <2>2 DEF TypeInv, ControllerTypeOK, NetRec
  <2>p. pc' = [pc EXCEPT ![t] = AfterRecord(r)] /\ loc' = [loc EXCEPT ![t] = k]
    BY <1>7 DEF JoinRecord, Call, Goto
  <2>a. granted' = granted \/ granted' = [granted EXCEPT ![l.nwid] = @ \cup {l.mem}]
    BY <1>7 DEF JoinRecord, Grant
  <2> HIDE DEF public
  <2>4. r \in MemRec
    BY <2>3 DEF MemRec
  <2> HIDE DEF r, l
  <2>g. granted' \in [Networks -> SUBSET Members]
    BY <2>a, <2>2 DEF TypeInv, ControllerTypeOK
  <2>5. k \in Local /\ k.mem = l.mem /\ k.rec = r
    BY <2>2, <2>4 DEF Local
  <2>6. k.rec # Absent
    BY <2>4, <2>5, ControllerAssumption
  <2> HIDE DEF k
  <2>7. Well(AfterRecord(r), k)
    BY <2>2, <2>5, <2>6, AfterRecordStep, WellMember
  <2>8. /\ pc' \in [Tasks -> Steps]
        /\ loc' \in [Tasks -> Local \cup {Absent}]
        /\ \A s \in Tasks : Well(pc'[s], loc'[s])
        /\ \A s \in Tasks : Locked(s)'
    BY <1>7, <2>p, <2>5, <2>7, AfterRecordStep, Control DEF JoinRecord, maps, locks
  <2>9. QED
    BY <1>7, <2>g, <2>8 DEF JoinRecord, maps, disk, locks, TypeInv, ControllerTypeOK
<1>8. QED
  BY <1>1, <1>2, <1>3, <1>4, <1>5, <1>6, <1>7

\* The steps of save_network() up to the pruning of the members.
LEMMA NetworkStepType ==
  ASSUME TypeInv, NEW t \in Tasks,
         \/ MergeNetwork(t) \/ RecheckId(t) \/ OpenNetwork(t) \/ FillNetwork(t)
         \/ InsertNetwork(t)
  PROVE  TypeInv'
<1> DEFINE l == loc[t]
<1>0. /\ NetworkSteps \subseteq Steps
      /\ {"netopen", "netfill", "netinsert", "prune", "recheck"} = NetworkSteps
      /\ NetworkSteps \cap LockedSteps = {}
  BY DEF NetworkSteps, Steps, LockedSteps
<1>l. ASSUME pc[t] \in NetworkSteps
      PROVE  /\ l \in Local /\ l.nwid \in Networks /\ l.cfg \in NetRec /\ l.cfg # Absent
             /\ \A step \in NetworkSteps : Well(step, l)
  <2>1. pc[t] # "idle"
    BY <1>l DEF NetworkSteps
  <2>2. l \in Local /\ l.nwid \in Networks /\ l.cfg \in NetRec
    BY <1>l, <2>1, LocOf
  <2>3. l.cfg # Absent
    BY <2>2, ControllerAssumption
  <2>4. QED
    BY <2>2, <2>3, WellNetwork
<1>1. CASE MergeNetwork(t)
  <2> DEFINE c == Merged(nets[l.nwid], l.upd)
  <2>1. pc[t] = "merge" /\ pc[t] # "idle"
    BY <1>1 DEF MergeNetwork
  <2>2. l.nwid \in Networks /\ l.upd \in NetPatch
    BY <2>1, LocOf
  <2>a. nets[l.nwid] \in NetRec \cup {Absent}
    BY <2>2 DEF TypeInv, ControllerTypeOK
  <2>3. c \in NetRec /\ c # Absent
    BY <2>a, <2>2, MergedType, ControllerAssumption
  <2>4. /\ pc' = [pc EXCEPT ![t] = "recheck"]
        /\ loc' = [loc EXCEPT ![t] = NetworkCall(l.nwid, c, Absent)]
    BY <1>1 DEF MergeNetwork, Call, Goto
  <2> HIDE DEF c, l
  <2>5. Well("recheck", NetworkCall(l.nwid, c, Absent))
    BY <1>0, <2>2, <2>3, NetworkLocal, WellNetwork
  <2>6. /\ pc' \in [Tasks -> Steps]
        /\ loc' \in [Tasks -> Local \cup {Absent}]
        /\ \A s \in Tasks : Well(pc'[s], loc'[s])
        /\ \A s \in Tasks : Locked(s)'
    BY <1>0, <1>1, <2>2, <2>3, <2>4, <2>5, NetworkLocal, Control DEF MergeNetwork, maps, locks
  <2>7. QED
    BY <1>1, <2>6 DEF MergeNetwork, maps, disk, locks, TypeInv, ControllerTypeOK
<1>2. CASE RecheckId(t)
  <2>1. pc[t] \in NetworkSteps
    BY <1>2, <1>0 DEF RecheckId
  <2>2. PICK n \in Networks : Call(t, "netopen", [l EXCEPT !.nwid = n])
    BY <1>2 DEF RecheckId
  <2> DEFINE k == [l EXCEPT !.nwid = n]
  <2>3. k \in Local /\ k.cfg = l.cfg
    BY <2>1, <1>l DEF Local
  <2>4. pc' = [pc EXCEPT ![t] = "netopen"] /\ loc' = [loc EXCEPT ![t] = k]
    BY <2>2 DEF Call, Goto
  <2> HIDE DEF k
  <2>5. Well("netopen", k)
    BY <1>0, <1>l, <2>1, <2>3, WellNetwork
  <2>6. /\ pc' \in [Tasks -> Steps]
        /\ loc' \in [Tasks -> Local \cup {Absent}]
        /\ \A s \in Tasks : Well(pc'[s], loc'[s])
        /\ \A s \in Tasks : Locked(s)'
    BY <1>0, <1>2, <2>3, <2>4, <2>5, Control DEF RecheckId, maps, locks
  <2>7. QED
    BY <1>2, <2>6 DEF RecheckId, maps, disk, locks, TypeInv, ControllerTypeOK
<1>3. CASE OpenNetwork(t)
  <2>1. pc[t] \in NetworkSteps
    BY <1>3, <1>0 DEF OpenNetwork
  <2>2. Truncated(netFile[l.nwid], t) \in NetFile
    BY <2>1, <1>l, NetFileType DEF TypeInv, ControllerTypeOK
  <2>3. netFile' \in [Networks -> NetFile \cup {Absent}]
    BY <1>3, <2>2 DEF OpenNetwork, TypeInv, ControllerTypeOK
  <2>4. /\ pc' \in [Tasks -> Steps]
        /\ loc' \in [Tasks -> Local \cup {Absent}]
        /\ \A s \in Tasks : Well(pc'[s], loc'[s])
        /\ \A s \in Tasks : Locked(s)'
    BY <1>0, <1>l, <1>3, <2>1, ControlGoto DEF OpenNetwork, maps, locks
  <2>5. QED
    BY <1>3, <2>3, <2>4 DEF OpenNetwork, maps, locks, TypeInv, ControllerTypeOK
<1>4. CASE FillNetwork(t)
  <2>1. pc[t] \in NetworkSteps
    BY <1>4, <1>0 DEF FillNetwork
  <2>2. netFile[l.nwid] \in NetFile \cup {Absent}
    BY <2>1, <1>l DEF TypeInv, ControllerTypeOK
  <2>3. netFile' \in [Networks -> NetFile \cup {Absent}]
    <3>1. CASE ~HasOpen(netFile[l.nwid], t)
      BY <3>1, <1>4 DEF FillNetwork, TypeInv, ControllerTypeOK
    <3>2. CASE HasOpen(netFile[l.nwid], t)
      <4>1. PICK d \in Overwrites(netFile[l.nwid].data, l.cfg) :
              netFile' = [netFile EXCEPT ![l.nwid] = Wrote(netFile[l.nwid], t, d)]
        BY <3>2, <1>4 DEF FillNetwork
      <4>2. Wrote(netFile[l.nwid], t, d) \in NetFile
        BY <2>1, <2>2, <3>2, <1>l, NetFileType
      <4>3. QED
        BY <4>1, <4>2 DEF TypeInv, ControllerTypeOK
    <3>3. QED
      BY <3>1, <3>2
  <2>4. /\ pc' \in [Tasks -> Steps]
        /\ loc' \in [Tasks -> Local \cup {Absent}]
        /\ \A s \in Tasks : Well(pc'[s], loc'[s])
        /\ \A s \in Tasks : Locked(s)'
    BY <1>0, <1>l, <1>4, <2>1, ControlGoto DEF FillNetwork, maps, locks
  <2>5. QED
    BY <1>4, <2>3, <2>4 DEF FillNetwork, maps, locks, TypeInv, ControllerTypeOK
<1>5. CASE InsertNetwork(t)
  <2>1. pc[t] \in NetworkSteps
    BY <1>5, <1>0 DEF InsertNetwork
  <2>2. nets' \in [Networks -> NetRec \cup {Absent}]
    BY <1>5, <2>1, <1>l DEF InsertNetwork, TypeInv, ControllerTypeOK
  <2>3. /\ pc' \in [Tasks -> Steps]
        /\ loc' \in [Tasks -> Local \cup {Absent}]
        /\ \A s \in Tasks : Well(pc'[s], loc'[s])
        /\ \A s \in Tasks : Locked(s)'
    BY <1>0, <1>l, <1>5, <2>1, ControlGoto DEF InsertNetwork, locks
  <2>4. QED
    BY <1>5, <2>2, <2>3 DEF InsertNetwork, disk, locks, TypeInv, ControllerTypeOK
<1>6. QED
  BY <1>1, <1>2, <1>3, <1>4, <1>5

\* A prune that goes on to the next file, or lets the lock go after the last.
LEMMA NextPrunedControl ==
  ASSUME TypeInv, NEW t \in Tasks, NEW m, pc[t] \in LockedSteps, members' = members,
         NextPruned(t, m)
  PROVE  /\ pc' \in [Tasks -> Steps]
         /\ loc' \in [Tasks -> Local \cup {Absent}]
         /\ memLock' \in Tasks \cup {Absent}
         /\ \A s \in Tasks : Well(pc'[s], loc'[s])
         /\ \A s \in Tasks : Locked(s)'
<1>1. memLock = t /\ \A k \in loc[t].todo : members[loc[t].nwid][k] # Absent
  BY DEF TypeInv, Locked
<1>2. \A s \in Tasks : s # t => memLock # s
  BY <1>1
<1>3. CASE Return(t) /\ memLock' = Absent
  BY <1>2, <1>3, ControlReturn
<1>4. CASE /\ Call(t, "pruneopen", [loc[t] EXCEPT !.todo = @ \ {m}])
           /\ memLock' = memLock
  <2> DEFINE k == [loc[t] EXCEPT !.todo = @ \ {m}]
  <2>1. pc[t] # "idle"
    BY DEF LockedSteps
  <2>2. loc[t] \in Local
    BY <2>1, LocOf
  <2>3. k \in Local /\ k.nwid = loc[t].nwid /\ k.todo \subseteq loc[t].todo
    BY <2>2 DEF Local
  <2>4. "pruneopen" \in Steps /\ Well("pruneopen", k)
    BY <2>3 DEF Steps, Well, MemberSteps, NetworkSteps
  <2>5. pc' = [pc EXCEPT ![t] = "pruneopen"] /\ loc' = [loc EXCEPT ![t] = k]
    BY <1>4 DEF Call, Goto
  <2>6. \A j \in k.todo : members'[k.nwid][j] # Absent
    BY <1>1, <2>3
  <2>7. memLock' = t
    BY <1>1, <1>4
  <2> HIDE DEF k
  <2>8. QED
    BY <1>2, <2>3, <2>4, <2>5, <2>6, <2>7, Control
<1>5. QED
  BY <1>3, <1>4 DEF NextPruned

LEMMA PruneStepType ==
  ASSUME TypeInv, NEW t \in Tasks,
         PruneMembers(t) \/ PruneOpen(t) \/ PruneFill(t)
  PROVE  TypeInv'
<1> DEFINE l == loc[t]
<1>0. "pruneopen" \in Steps /\ "prunefill" \in Steps
  BY DEF Steps
<1>l. ASSUME pc[t] \in LockedSteps
      PROVE  /\ l \in Local /\ l.nwid \in Networks /\ l.todo \subseteq Members
             /\ memLock = t /\ \A m \in l.todo : members[l.nwid][m] # Absent
             /\ \A s \in Tasks : s # t => memLock # s
  <2>1. pc[t] # "idle"
    BY <1>l DEF LockedSteps
  <2>2. l \in Local
    BY <2>1, LocOf
  <2>3. QED
    BY <1>l, <2>2 DEF TypeInv, Locked, Local
<1>1. CASE PruneMembers(t)
  <2> DEFINE n == l.nwid
             new == [m \in Members |-> IF members[n][m] = Absent THEN Absent
                                       ELSE Pruned(n, l.cfg, m, members[n][m])]
             changed == {m \in Members : new[m] # members[n][m]}
             k == [l EXCEPT !.todo = changed]
  <2>1. pc[t] = "prune" /\ pc[t] # "idle" /\ pc[t] \in NetworkSteps
    BY <1>1 DEF PruneMembers, NetworkSteps
  <2>2. l \in Local /\ n \in Networks /\ l.cfg \in NetRec
    BY <2>1, LocOf
  <2>3. \A m \in Members : members[n][m] \in MemRec \cup {Absent}
    BY <2>2 DEF TypeInv, ControllerTypeOK
  <2>4. \A m \in Members : members[n][m] # Absent => Pruned(n, l.cfg, m, members[n][m]) \in MemRec
    BY <2>2, <2>3, PrunedType
  <2>5. /\ new \in [Members -> MemRec \cup {Absent}]
        /\ \A m \in Members : members[n][m] # Absent => new[m] # Absent
    BY <2>4, ControllerAssumption
  <2>6. changed \subseteq Members /\ \A m \in changed : new[m] # Absent
    BY <2>5
  <2>7. members' = [members EXCEPT ![n] = new] /\ memLock = Absent
    BY <1>1 DEF PruneMembers
  <2>8. \/ Return(t) /\ memLock' = memLock
        \/ /\ pc' = [pc EXCEPT ![t] = "pruneopen"] /\ loc' = [loc EXCEPT ![t] = k]
           /\ memLock' = t
    BY <1>1 DEF PruneMembers, Call, Goto
  <2>9. /\ UNCHANGED <<nets, disk, netLock, granted>>
        /\ \A s \in Tasks : memLock # s
    BY <1>1, <2>7, ControllerAssumption DEF PruneMembers
  <2> HIDE DEF new, changed, n, l
  <2>10. k \in Local /\ k.nwid = n /\ k.todo = changed
    BY <2>2, <2>6 DEF Local, n
  <2> HIDE DEF k
  <2>11. members' \in [Networks -> [Members -> MemRec \cup {Absent}]] /\ members'[n] = new
    BY <2>2, <2>5, <2>7 DEF TypeInv, ControllerTypeOK
  <2>12. Well("pruneopen", k)
    BY <2>10 DEF Well, MemberSteps, NetworkSteps
  <2>13. /\ pc' \in [Tasks -> Steps]
         /\ loc' \in [Tasks -> Local \cup {Absent}]
         /\ memLock' \in Tasks \cup {Absent}
         /\ \A s \in Tasks : Well(pc'[s], loc'[s])
         /\ \A s \in Tasks : Locked(s)'
    <3>1. CASE Return(t) /\ memLock' = memLock
      BY <3>1, <2>7, <2>9, ControlReturn
    <3>2. CASE /\ pc' = [pc EXCEPT ![t] = "pruneopen"] /\ loc' = [loc EXCEPT ![t] = k]
               /\ memLock' = t
      <4>1. \A m \in k.todo : members'[k.nwid][m] # Absent
        BY <2>6, <2>10, <2>11
      <4>2. QED
        BY <1>0, <2>9, <2>10, <2>12, <3>2, <4>1, Control
    <3>3. QED
      BY <2>8, <3>1, <3>2
  <2>14. QED
    BY <2>9, <2>11, <2>13 DEF disk, TypeInv, ControllerTypeOK
<1>2. CASE PruneOpen(t)
  <2>1. pc[t] \in LockedSteps
    BY <1>2 DEF PruneOpen, LockedSteps
  <2>2. PICK m \in l.todo :
          \/ /\ memFile' = [memFile EXCEPT ![l.nwid][m] = Truncated(memFile[l.nwid][m], t)]
             /\ Call(t, "prunefill", [l EXCEPT !.mem = m])
             /\ UNCHANGED memLock
          \/ NextPruned(t, m) /\ UNCHANGED memFile
    BY <1>2 DEF PruneOpen
  <2>3. l \in Local /\ l.nwid \in Networks /\ m \in Members
    BY <1>l, <2>1
  <2>4. UNCHANGED <<maps, netFile, dir, netLock, granted>>
    BY <1>2 DEF PruneOpen
  <2>5. CASE NextPruned(t, m) /\ UNCHANGED memFile
    <3>1. members' = members
      BY <2>4 DEF maps
    <3>2. QED
      BY <2>1, <2>4, <2>5, <3>1, NextPrunedControl DEF maps, TypeInv, ControllerTypeOK
  <2>6. CASE /\ memFile' = [memFile EXCEPT ![l.nwid][m] = Truncated(memFile[l.nwid][m], t)]
             /\ Call(t, "prunefill", [l EXCEPT !.mem = m])
             /\ UNCHANGED memLock
    <3> DEFINE k == [l EXCEPT !.mem = m]
    <3>1. Truncated(memFile[l.nwid][m], t) \in MemFile
      BY <2>3, MemFileType DEF TypeInv, ControllerTypeOK
    <3>2. memFile' \in [Networks -> [Members -> MemFile \cup {Absent}]]
      BY <2>3, <2>6, <3>1, StoredMemberFile
    <3>3. k \in Local /\ k.mem = m /\ k.todo = l.todo /\ k.nwid = l.nwid
      BY <2>3 DEF Local
    <3>4. Well("prunefill", k)
      BY <3>3 DEF Well, MemberSteps, NetworkSteps
    <3>5. pc' = [pc EXCEPT ![t] = "prunefill"] /\ loc' = [loc EXCEPT ![t] = k]
      BY <2>6 DEF Call, Goto
    <3> HIDE DEF k
    <3>6. /\ memLock' = t /\ members' = members
          /\ \A j \in k.todo : members'[k.nwid][j] # Absent
          /\ \A s \in Tasks : s # t => memLock # s
      BY <1>l, <2>1, <2>4, <2>6, <3>3 DEF maps
    <3>7. /\ pc' \in [Tasks -> Steps]
          /\ loc' \in [Tasks -> Local \cup {Absent}]
          /\ \A s \in Tasks : Well(pc'[s], loc'[s])
          /\ \A s \in Tasks : Locked(s)'
      BY <1>0, <3>3, <3>4, <3>5, <3>6, Control
    <3>8. QED
      BY <2>4, <2>6, <3>2, <3>7 DEF maps, TypeInv, ControllerTypeOK
  <2>7. QED
    BY <2>2, <2>5, <2>6
<1>3. CASE PruneFill(t)
  <2>1. pc[t] = "prunefill" /\ pc[t] \in LockedSteps
    BY <1>3 DEF PruneFill, LockedSteps
  <2>2. l.mem \in l.todo
    BY <2>1 DEF TypeInv, Well
  <2>3. /\ WriteMember(t, l.nwid, l.mem, members[l.nwid][l.mem])
        /\ NextPruned(t, l.mem)
        /\ UNCHANGED <<maps, netFile, dir, netLock, granted>>
    BY <1>3 DEF PruneFill
  <2>4. members[l.nwid][l.mem] \in MemRec /\ l.nwid \in Networks /\ l.mem \in Members
    BY <1>l, <2>1, <2>2 DEF TypeInv, ControllerTypeOK
  <2>5. memFile' \in [Networks -> [Members -> MemFile \cup {Absent}]]
    BY <2>3, <2>4, WriteMemberType
  <2>6. members' = members
    BY <2>3 DEF maps
  <2>7. QED
    BY <2>1, <2>3, <2>5, <2>6, NextPrunedControl DEF maps, TypeInv, ControllerTypeOK
<1>4. QED
  BY <1>1, <1>2, <1>3

\* The steps of delete_network() and delete_member().
LEMMA DeleteStepType ==
  ASSUME TypeInv, NEW t \in Tasks,
         RemoveNetFile(t) \/ RemoveDir(t) \/ RemoveMembers(t) \/ RemoveMember(t)
  PROVE  TypeInv'
<1>0. /\ {"rmdir", "rmmembers"} \subseteq Steps
      /\ {"rmdir", "rmmembers"} \cap LockedSteps = {}
  BY DEF Steps, LockedSteps
<1>l. ASSUME pc[t] \in {"rmnet", "rmdir", "rmmembers", "rmmember"}
      PROVE  /\ loc[t] \in Local /\ loc[t].nwid \in Networks
             /\ Well("rmdir", loc[t]) /\ Well("rmmembers", loc[t])
  BY <1>l, LocOf DEF Well, MemberSteps, NetworkSteps
<1>1. CASE RemoveNetFile(t)
  <2>1. pc[t] = "rmnet"
    BY <1>1 DEF RemoveNetFile
  <2>2. /\ pc' \in [Tasks -> Steps]
        /\ loc' \in [Tasks -> Local \cup {Absent}]
        /\ \A s \in Tasks : Well(pc'[s], loc'[s])
        /\ \A s \in Tasks : Locked(s)'
    BY <1>0, <1>l, <1>1, <2>1, ControlGoto DEF RemoveNetFile, maps, locks
  <2>3. netFile' \in [Networks -> NetFile \cup {Absent}]
    BY <1>1 DEF RemoveNetFile, TypeInv, ControllerTypeOK
  <2>4. QED
    BY <1>1, <2>2, <2>3 DEF RemoveNetFile, maps, locks, TypeInv, ControllerTypeOK
<1>2. CASE RemoveDir(t)
  <2>1. pc[t] = "rmdir"
    BY <1>2 DEF RemoveDir
  <2>2. /\ pc' \in [Tasks -> Steps]
        /\ loc' \in [Tasks -> Local \cup {Absent}]
        /\ \A s \in Tasks : Well(pc'[s], loc'[s])
        /\ \A s \in Tasks : Locked(s)'
    BY <1>0, <1>l, <1>2, <2>1, ControlGoto DEF RemoveDir, maps, locks
  <2>3. memFile' \in [Networks -> [Members -> MemFile \cup {Absent}]]
    BY <1>2 DEF RemoveDir, TypeInv, ControllerTypeOK
  <2>4. QED
    BY <1>2, <2>2, <2>3 DEF RemoveDir, maps, locks, TypeInv, ControllerTypeOK
<1>3. CASE RemoveMembers(t)
  <2>1. /\ pc' \in [Tasks -> Steps]
        /\ loc' \in [Tasks -> Local \cup {Absent}]
        /\ \A s \in Tasks : Well(pc'[s], loc'[s])
        /\ \A s \in Tasks : Locked(s)'
    BY <1>3, ControlReturn, ControllerAssumption DEF RemoveMembers
  <2>2. members' \in [Networks -> [Members -> MemRec \cup {Absent}]]
    BY <1>3 DEF RemoveMembers, TypeInv, ControllerTypeOK
  <2>3. QED
    BY <1>3, <2>1, <2>2 DEF RemoveMembers, disk, TypeInv, ControllerTypeOK
<1>4. CASE RemoveMember(t)
  <2>1. pc[t] = "rmmember" /\ pc[t] # "idle"
    BY <1>4 DEF RemoveMember
  <2>2. loc[t].nwid \in Networks /\ loc[t].mem \in Members
    BY <2>1, LocOf
  <2>3. memLock = t /\ \A s \in Tasks : s # t => memLock # s
    BY <2>1 DEF TypeInv, Locked, LockedSteps
  <2>f. memFile' \in [Networks -> [Members -> MemFile \cup {Absent}]]
    BY <1>4, <2>2, StoredMemberFile DEF RemoveMember
  <2>4. /\ pc' \in [Tasks -> Steps]
        /\ loc' \in [Tasks -> Local \cup {Absent}]
        /\ \A s \in Tasks : Well(pc'[s], loc'[s])
        /\ \A s \in Tasks : Locked(s)'
    BY <1>4, <2>3, ControlReturn DEF RemoveMember, maps
  <2>5. QED
    BY <1>4, <2>f, <2>4 DEF RemoveMember, maps, TypeInv, ControllerTypeOK
<1>5. QED
  BY <1>1, <1>2, <1>3, <1>4

\* What a restart finds in the files.
LEMMA OnDiskType ==
  ASSUME TypeInv
  PROVE  /\ \A n \in Networks : NetOnDisk(n) \in NetRec \cup {Absent}
         /\ \A n \in Networks, m \in Members : MemberOnDisk(n, m) \in MemRec \cup {Absent}
BY DEF NetOnDisk, MemberOnDisk, TypeInv, ControllerTypeOK

LEMMA CrashType == TypeInv /\ Crash => TypeInv'
<1> SUFFICES ASSUME TypeInv, Crash PROVE TypeInv'
  OBVIOUS
<1>1. /\ nets' \in [Networks -> NetRec \cup {Absent}]
      /\ members' \in [Networks -> [Members -> MemRec \cup {Absent}]]
  BY OnDiskType DEF Crash
<1>2. ASSUME NEW f \in NetFile \cup {Absent} PROVE Closed(f) \in NetFile \cup {Absent}
  BY DEF Closed, NetFile
<1>3. netFile' \in [Networks -> NetFile \cup {Absent}]
  BY <1>2 DEF Crash, TypeInv, ControllerTypeOK
<1>4. ASSUME NEW f \in MemFile \cup {Absent} PROVE Closed(f) \in MemFile \cup {Absent}
  BY DEF Closed, MemFile
<1>5. memFile' \in [Networks -> [Members -> MemFile \cup {Absent}]]
  BY <1>4 DEF Crash, TypeInv, ControllerTypeOK
<1>6. /\ pc' = [t \in Tasks |-> "idle"] /\ loc' = [t \in Tasks |-> Absent]
      /\ netLock' = Absent /\ memLock' = Absent /\ dir' = dir /\ granted' = granted
  BY DEF Crash
<1>7. \A t \in Tasks : Well(pc'[t], loc'[t])
  BY <1>6 DEF Well, MemberSteps, NetworkSteps
<1>8. \A t \in Tasks : Locked(t)'
  BY <1>6 DEF Locked, LockedSteps
<1>9. pc' \in [Tasks -> Steps] /\ loc' \in [Tasks -> Local \cup {Absent}]
  BY <1>6 DEF Steps
<1>10. QED
  BY <1>1, <1>3, <1>5, <1>6, <1>7, <1>8, <1>9 DEF TypeInv, ControllerTypeOK

LEMMA NextType == TypeInv /\ [Next]_vars => TypeInv'
<1> SUFFICES ASSUME TypeInv, [Next]_vars PROVE TypeInv'
  OBVIOUS
<1>1. ASSUME NEW t \in Tasks, Start(t) PROVE TypeInv'
  BY <1>1, StartType
<1>2. ASSUME NEW t \in Tasks, Step(t) PROVE TypeInv'
  BY <1>2, MemberStepType, NetworkStepType, PruneStepType, DeleteStepType DEF Step
<1>3. CASE Crash
  BY <1>3, CrashType
<1>4. CASE UNCHANGED vars
  BY <1>4 DEF vars, maps, disk, locks, TypeInv, ControllerTypeOK, Locked
<1>5. QED
  BY <1>1, <1>2, <1>3, <1>4 DEF Next

(* The maps, the files and the locals of every call keep their types: in    *)
(* particular a call that waits for a lock always finds the member and the *)
(* record it was called with, and a member pruned under the members lock   *)
(* is still in the map when its file is written (controller.rs:333-395).   *)
THEOREM ControllerTypeCorrect == Spec => []ControllerTypeOK
<1>1. TypeInv => ControllerTypeOK
  BY DEF TypeInv
<1>2. QED
  BY InitType, NextType, <1>1, PTL DEF Spec

-----------------------------------------------------------------------------
(* Nobody is authorized whom nobody authorized.  OnlyGranted is not          *)
(* inductive: a record waits in the locals of a call, and a network's file   *)
(* may appear over member files that were left behind, so that all files     *)
(* count, whether a restart would read them or not.                          *)

Granted(n, m, r) == r \in MemRec /\ r.authorized => m \in granted[n]

GrantInv ==
  /\ \A n \in Networks, m \in Members : Granted(n, m, members[n][m])
  /\ \A n \in Networks, m \in Members :
       memFile[n][m] # Absent => Granted(n, m, memFile[n][m].data)
  /\ \A t \in Tasks :
       pc[t] \in MemberSteps => Granted(loc[t].nwid, loc[t].mem, loc[t].rec)

LEMMA InitGrant == Init => GrantInv
<1> SUFFICES ASSUME Init PROVE GrantInv
  OBVIOUS
<1>1. \A n \in Networks, m \in Members : members[n][m] = Absent /\ memFile[n][m] = Absent
  BY DEF Init
<1>2. \A t \in Tasks : pc[t] \notin MemberSteps
  BY DEF Init, MemberSteps
<1>3. Absent \notin MemRec
  BY ControllerAssumption
<1>4. QED
  BY <1>1, <1>2, <1>3 DEF GrantInv, Granted

\* A step of t keeps the part about locals when its own next step fits.
LEMMA GrantedCalls ==
  ASSUME TypeInv, GrantInv, NEW t \in Tasks, NEW step, NEW l,
         pc' = [pc EXCEPT ![t] = step], loc' = [loc EXCEPT ![t] = l],
         \A n \in Networks : granted[n] \subseteq granted'[n],
         step \in MemberSteps /\ l.rec \in MemRec /\ l.rec.authorized
           => l.mem \in granted'[l.nwid]
  PROVE  \A s \in Tasks :
           pc'[s] \in MemberSteps => Granted(loc[s].nwid, loc[s].mem, loc[s].rec)'
<1>1. TAKE s \in Tasks
<1>2. CASE s = t
  <2>1. pc'[s] = step /\ loc'[s] = l
    BY <1>2 DEF TypeInv, ControllerTypeOK
  <2>2. QED
    BY <2>1 DEF Granted
<1>3. CASE s # t
  <2>1. pc'[s] = pc[s] /\ loc'[s] = loc[s]
    BY <1>3 DEF TypeInv, ControllerTypeOK
  <2>2. HAVE pc'[s] \in MemberSteps
  <2>3. pc[s] # "idle" /\ pc[s] \in MemberSteps
    BY <2>1, <2>2 DEF MemberSteps
  <2>4. loc[s].nwid \in Networks
    BY <2>3, LocOf
  <2>5. Granted(loc[s].nwid, loc[s].mem, loc[s].rec)
    BY <2>3 DEF GrantInv
  <2>6. QED
    BY <2>1, <2>4, <2>5 DEF Granted
<1>4. QED
  BY <1>2, <1>3

\* The same when the call returns, or leaves its locals alone.
LEMMA GrantedReturn ==
  ASSUME TypeInv, GrantInv, NEW t \in Tasks, Return(t),
         \A n \in Networks : granted[n] \subseteq granted'[n]
  PROVE  \A s \in Tasks :
           pc'[s] \in MemberSteps => Granted(loc[s].nwid, loc[s].mem, loc[s].rec)'
<1>1. pc' = [pc EXCEPT ![t] = "idle"] /\ loc' = [loc EXCEPT ![t] = Absent]
  BY DEF Return, Call, Goto
<1>2. "idle" \notin MemberSteps
  BY DEF MemberSteps
<1> QED
  BY <1>1, <1>2, GrantedCalls

LEMMA GrantedGoto ==
  ASSUME TypeInv, GrantInv, NEW t \in Tasks, NEW step, Goto(t, step), loc' = loc,
         \A n \in Networks : granted[n] \subseteq granted'[n],
         step \in MemberSteps => pc[t] \in MemberSteps
  PROVE  \A s \in Tasks :
           pc'[s] \in MemberSteps => Granted(loc[s].nwid, loc[s].mem, loc[s].rec)'
<1>1. pc' = [pc EXCEPT ![t] = step]
  BY DEF Goto
<1>2. loc' = [loc EXCEPT ![t] = loc[t]]
  BY DEF TypeInv, ControllerTypeOK
<1>3. ASSUME step \in MemberSteps, loc[t].rec \in MemRec, loc[t].rec.authorized
      PROVE  loc[t].mem \in granted'[loc[t].nwid]
  <2>1. pc[t] \in MemberSteps /\ pc[t] # "idle"
    BY <1>3 DEF MemberSteps
  <2>2. loc[t].nwid \in Networks
    BY <2>1, LocOf
  <2>3. Granted(loc[t].nwid, loc[t].mem, loc[t].rec)
    BY <2>1 DEF GrantInv
  <2>4. QED
    BY <1>3, <2>2, <2>3 DEF Granted
<1> QED
  BY <1>1, <1>2, <1>3, GrantedCalls

\* Files: what a write leaves is the record written, or nothing that parses.
LEMMA GrantedWrite ==
  ASSUME TypeInv, GrantInv, granted' = granted,
         NEW t \in Tasks, NEW n \in Networks, NEW m \in Members, NEW r \in MemRec,
         Granted(n, m, r), WriteMember(t, n, m, r)
  PROVE  \A k \in Networks, j \in Members :
           memFile'[k][j] # Absent => Granted(k, j, memFile[k][j].data)'
<1>1. CASE memFile' = memFile
  BY <1>1 DEF GrantInv, Granted
<1>2. CASE HasOpen(memFile[n][m], t)
  <2>1. PICK d \in Overwrites(memFile[n][m].data, r) :
          memFile' = [memFile EXCEPT ![n][m] = Wrote(memFile[n][m], t, d)]
    BY <1>2 DEF WriteMember
  <2>2. d \in {r, Garbled}
    BY DEF Overwrites
  <2>3. d \in MemRec => d = r
    BY <2>2, ControllerAssumption
  <2>4. memFile'[n][m].data = d
    BY <2>1 DEF Wrote, TypeInv, ControllerTypeOK
  <2>5. \A k \in Networks, j \in Members : <<k, j>> # <<n, m>> => memFile'[k][j] = memFile[k][j]
    BY <2>1 DEF TypeInv, ControllerTypeOK
  <2>6. QED
    BY <2>3, <2>4, <2>5 DEF GrantInv, Granted
<1>3. QED
  BY <1>1, <1>2 DEF WriteMember

LEMMA GrantedOpen ==
  ASSUME TypeInv, GrantInv, granted' = granted,
         NEW t \in Tasks, NEW n \in Networks, NEW m \in Members,
         memFile' = [memFile EXCEPT ![n][m] = Truncated(memFile[n][m], t)]
  PROVE  \A k \in Networks, j \in Members :
           memFile'[k][j] # Absent => Granted(k, j, memFile[k][j].data)'
<1>1. memFile'[n][m].data \notin MemRec
  BY ControllerAssumption DEF Truncated, TypeInv, ControllerTypeOK
<1>2. \A k \in Networks, j \in Members : <<k, j>> # <<n, m>> => memFile'[k][j] = memFile[k][j]
  BY DEF TypeInv, ControllerTypeOK
<1>3. QED
  BY <1>1, <1>2 DEF GrantInv, Granted

LEMMA GrantMonotone ==
  ASSUME TypeInv, NEW n \in Networks, NEW m \in Members,
         Grant(n, m) \/ UNCHANGED granted
  PROVE  /\ \A k \in Networks : granted[k] \subseteq granted'[k]
         /\ Grant(n, m) => m \in granted'[n]
BY DEF Grant, TypeInv, ControllerTypeOK

\* The frame of a step that touches neither the members map nor their files.
LEMMA GrantedFrame ==
  ASSUME GrantInv, members' = members, memFile' = memFile,
         \A n \in Networks : granted[n] \subseteq granted'[n],
         \A s \in Tasks :
           pc'[s] \in MemberSteps => Granted(loc[s].nwid, loc[s].mem, loc[s].rec)'
  PROVE  GrantInv'
BY DEF GrantInv, Granted

LEMMA GrantStart ==
  ASSUME TypeInv, GrantInv, NEW t \in Tasks, Start(t)
  PROVE  GrantInv'
<1>0. {"known", "rmmember", "merge", "netopen", "rmnet"} \cap MemberSteps = {}
  BY DEF MemberSteps
<1>1. ASSUME NEW n \in Networks, NEW m \in Members, NEW p \in Patches, SaveMember(t, n, m, p)
      PROVE  GrantInv'
  <2> DEFINE r == Patched(members[n][m], p)
  <2>1. /\ pc' = [pc EXCEPT ![t] = AfterRecord(r)]
        /\ loc' = [loc EXCEPT ![t] = MemberCall(n, m, r)]
        /\ members' = members /\ memFile' = memFile
        /\ IF p.authorized = "on" THEN Grant(n, m) ELSE UNCHANGED granted
    BY <1>1 DEF SaveMember, Call, Goto, maps, disk
  <2>2. \A k \in Networks : granted[k] \subseteq granted'[k]
    BY <2>1, GrantMonotone
  <2>3. ASSUME r.authorized PROVE m \in granted'[n]
    <3>1. p.authorized = "on" \/ (p.authorized = "keep" /\ members[n][m] # Absent /\ members[n][m].authorized)
      BY <2>3 DEF Patched, Choice
    <3>2. CASE p.authorized = "on"
      BY <2>1, <3>2, GrantMonotone
    <3>3. CASE members[n][m] # Absent /\ members[n][m].authorized
      <4>1. members[n][m] \in MemRec
        BY <3>3 DEF TypeInv, ControllerTypeOK
      <4>2. QED
        BY <2>2, <3>3, <4>1 DEF GrantInv, Granted
    <3>4. QED
      BY <3>1, <3>2, <3>3
  <2>4. /\ MemberCall(n, m, r).rec = r /\ MemberCall(n, m, r).mem = m
        /\ MemberCall(n, m, r).nwid = n
    BY DEF MemberCall
  <2> HIDE DEF r
  <2>5. \A s \in Tasks :
          pc'[s] \in MemberSteps => Granted(loc[s].nwid, loc[s].mem, loc[s].rec)'
    BY <2>1, <2>2, <2>3, <2>4, GrantedCalls
  <2>6. QED
    BY <2>1, <2>2, <2>5, GrantedFrame
<1>2. ASSUME NEW n \in Networks, NEW m \in Members, Join(t, n, m)
      PROVE  GrantInv'
  <2>1. /\ pc' = [pc EXCEPT ![t] = "known"]
        /\ loc' = [loc EXCEPT ![t] = MemberCall(n, m, Absent)]
        /\ members' = members /\ memFile' = memFile /\ granted' = granted
    BY <1>2 DEF Join, Call, Goto, maps, disk
  <2>2. QED
    BY <1>0, <2>1, GrantedCalls, GrantedFrame
<1>3. ASSUME NEW n \in Networks, NEW m \in Members, DeleteMember(t, n, m)
      PROVE  GrantInv'
  <2>1. /\ pc' = [pc EXCEPT ![t] = "rmmember"]
        /\ loc' = [loc EXCEPT ![t] = MemberCall(n, m, Absent)]
        /\ members' = [members EXCEPT ![n][m] = Absent]
        /\ memFile' = memFile /\ granted' = granted
    BY <1>3 DEF DeleteMember, Call, Goto, disk
  <2>2. \A s \in Tasks :
          pc'[s] \in MemberSteps => Granted(loc[s].nwid, loc[s].mem, loc[s].rec)'
    BY <1>0, <2>1, GrantedCalls
  <2>3. \A k \in Networks, j \in Members :
          members'[k][j] = Absent \/ members'[k][j] = members[k][j]
    BY <2>1 DEF TypeInv, ControllerTypeOK
  <2>4. Absent \notin MemRec
    BY ControllerAssumption
  <2>5. QED
    BY <2>1, <2>2, <2>3, <2>4 DEF GrantInv, Granted
<1>4. ASSUME NEW p \in NetPatches, CreateNetwork(t, p)
      PROVE  GrantInv'
  <2>1. PICK n \in Networks : Call(t, "merge", NetworkCall(n, Absent, p))
    BY <1>4 DEF CreateNetwork
  <2>2. /\ pc' = [pc EXCEPT ![t] = "merge"]
        /\ loc' = [loc EXCEPT ![t] = NetworkCall(n, Absent, p)]
        /\ members' = members /\ memFile' = memFile /\ granted' = granted
    BY <1>4, <2>1 DEF CreateNetwork, Call, Goto, maps, disk
  <2>3. QED
    BY <1>0, <2>2, GrantedCalls, GrantedFrame
<1>5. ASSUME NEW p \in NetPatches, NEW n \in Networks, SaveNetwork(t, n, p)
      PROVE  GrantInv'
  <2>1. /\ pc' = [pc EXCEPT ![t] = "netopen"]
        /\ loc' = [loc EXCEPT ![t] = NetworkCall(n, Merged(nets[n], p), Absent)]
        /\ members' = members /\ memFile' = memFile /\ granted' = granted
    BY <1>5 DEF SaveNetwork, Call, Goto, maps, disk
  <2>2. QED
    BY <1>0, <2>1, GrantedCalls, GrantedFrame
<1>6. ASSUME NEW n \in Networks, DeleteNetwork(t, n)
      PROVE  GrantInv'
  <2>1. /\ pc' = [pc EXCEPT ![t] = "rmnet"]
        /\ loc' = [loc EXCEPT ![t] = NetworkCall(n, Absent, Absent)]
        /\ members' = members /\ memFile' = memFile /\ granted' = granted
    BY <1>6 DEF DeleteNetwork, Call, Goto, disk
  <2>2. QED
    BY <1>0, <2>1, GrantedCalls, GrantedFrame
<1>7. QED
  BY <1>1, <1>2, <1>3, <1>4, <1>5, <1>6 DEF Start

\* The call of a member step may write its record to the file or to the map.
LEMMA GrantedLocals ==
  ASSUME TypeInv, GrantInv, NEW t \in Tasks, pc[t] \in MemberSteps
  PROVE  /\ loc[t].nwid \in Networks /\ loc[t].mem \in Members /\ loc[t].rec \in MemRec
         /\ Granted(loc[t].nwid, loc[t].mem, loc[t].rec)
<1>1. pc[t] # "idle"
  BY DEF MemberSteps
<1>2. QED
  BY <1>1, LocOf DEF GrantInv

LEMMA GrantMemberStep ==
  ASSUME TypeInv, GrantInv, NEW t \in Tasks,
         \/ AssignMember(t) \/ MakeDir(t) \/ OpenMember(t) \/ FillMember(t) \/ InsertMember(t)
         \/ JoinKnown(t) \/ JoinRecord(t)
  PROVE  GrantInv'
<1> DEFINE l == loc[t]
<1>0. {"assign", "mkdir", "open", "fill", "insert"} = MemberSteps /\ "record" \notin MemberSteps
  BY DEF MemberSteps
<1>1. CASE AssignMember(t)
  <2> DEFINE a == [l EXCEPT !.rec.ips = AutoAssigned(l.nwid, l.mem, @)]
  <2>1. pc[t] \in MemberSteps /\ pc[t] # "idle"
    BY <1>0, <1>1 DEF AssignMember
  <2>2. l \in Local /\ l.nwid \in Networks /\ l.rec \in MemRec /\ Granted(l.nwid, l.mem, l.rec)
    BY <2>1, GrantedLocals, LocOf
  <2>3. a.mem = l.mem /\ a.nwid = l.nwid /\ a.rec.authorized = l.rec.authorized
    BY <2>2 DEF Local, MemRec
  <2>4. /\ pc' = [pc EXCEPT ![t] = "mkdir"] /\ loc' = [loc EXCEPT ![t] = a]
        /\ members' = members /\ memFile' = memFile /\ granted' = granted
    BY <1>1 DEF AssignMember, Call, Goto, maps, disk
  <2> HIDE DEF a
  <2>5. a.rec.authorized => a.mem \in granted'[a.nwid]
    BY <2>2, <2>3, <2>4 DEF Granted
  <2>6. \A s \in Tasks :
          pc'[s] \in MemberSteps => Granted(loc[s].nwid, loc[s].mem, loc[s].rec)'
    BY <2>4, <2>5, GrantedCalls
  <2>7. QED
    BY <2>4, <2>6, GrantedFrame
<1>2. CASE MakeDir(t)
  <2>1. /\ Goto(t, "open") /\ loc' = loc /\ pc[t] \in MemberSteps
        /\ members' = members /\ memFile' = memFile /\ granted' = granted
    BY <1>0, <1>2 DEF MakeDir, maps
  <2>2. QED
    BY <2>1, GrantedGoto, GrantedFrame
<1>3. CASE OpenMember(t)
  <2>1. pc[t] \in MemberSteps /\ members' = members /\ granted' = granted
    BY <1>0, <1>3 DEF OpenMember, maps
  <2>2. l.nwid \in Networks /\ l.mem \in Members
    BY <2>1, GrantedLocals
  <2>3. CASE /\ memFile' = [memFile EXCEPT ![l.nwid][l.mem] = Truncated(memFile[l.nwid][l.mem], t)]
             /\ Goto(t, "fill") /\ loc' = loc
    <3>1. \A s \in Tasks :
            pc'[s] \in MemberSteps => Granted(loc[s].nwid, loc[s].mem, loc[s].rec)'
      BY <2>1, <2>3, GrantedGoto
    <3>2. \A k \in Networks, j \in Members :
            memFile'[k][j] # Absent => Granted(k, j, memFile[k][j].data)'
      BY <2>1, <2>2, <2>3, GrantedOpen
    <3>3. QED
      BY <2>1, <3>1, <3>2 DEF GrantInv, Granted
  <2>4. CASE Return(t) /\ memFile' = memFile
    BY <2>1, <2>4, GrantedReturn, GrantedFrame
  <2>5. QED
    BY <1>3, <2>3, <2>4 DEF OpenMember
<1>4. CASE FillMember(t)
  <2>1. /\ pc[t] \in MemberSteps /\ members' = members /\ granted' = granted
        /\ WriteMember(t, l.nwid, l.mem, l.rec) /\ Goto(t, "insert") /\ loc' = loc
    BY <1>0, <1>4 DEF FillMember, maps
  <2>2. \A s \in Tasks :
          pc'[s] \in MemberSteps => Granted(loc[s].nwid, loc[s].mem, loc[s].rec)'
    BY <2>1, GrantedGoto
  <2>3. \A k \in Networks, j \in Members :
          memFile'[k][j] # Absent => Granted(k, j, memFile[k][j].data)'
    BY <2>1, GrantedLocals, GrantedWrite
  <2>4. QED
    BY <2>1, <2>2, <2>3 DEF GrantInv, Granted
<1>5. CASE InsertMember(t)
  <2>1. /\ pc[t] \in MemberSteps /\ memFile' = memFile /\ granted' = granted /\ Return(t)
        /\ members' = [members EXCEPT ![l.nwid][l.mem] = l.rec]
    BY <1>0, <1>5 DEF InsertMember, disk
  <2>2. \A s \in Tasks :
          pc'[s] \in MemberSteps => Granted(loc[s].nwid, loc[s].mem, loc[s].rec)'
    BY <2>1, GrantedReturn
  <2>3. Granted(l.nwid, l.mem, l.rec) /\ l.nwid \in Networks /\ l.mem \in Members
    BY <2>1, GrantedLocals
  <2> HIDE DEF l
  <2>4. \A k \in Networks, j \in Members :
          \/ members'[k][j] = members[k][j]
          \/ k = l.nwid /\ j = l.mem /\ members'[k][j] = l.rec
    BY <2>1 DEF TypeInv, ControllerTypeOK
  <2>5. \A k \in Networks, j \in Members : Granted(k, j, members[k][j])'
    BY <2>1, <2>3, <2>4 DEF GrantInv, Granted
  <2>6. QED
    BY <2>1, <2>2, <2>5 DEF GrantInv, Granted
<1>6. CASE JoinKnown(t)
  <2>1. members' = members /\ memFile' = memFile /\ granted' = granted
    BY <1>6 DEF JoinKnown, maps, disk
  <2>2. (Goto(t, "record") /\ loc' = loc) \/ Return(t)
    BY <1>6 DEF JoinKnown
  <2>3. \A s \in Tasks :
          pc'[s] \in MemberSteps => Granted(loc[s].nwid, loc[s].mem, loc[s].rec)'
    BY <1>0, <2>1, <2>2, GrantedGoto, GrantedReturn
  <2>4. QED
    BY <2>1, <2>3, GrantedFrame
<1>7. CASE JoinRecord(t)
  <2> DEFINE public == nets[l.nwid] # Absent /\ ~nets[l.nwid].private
             r == [authorized |-> public, noAuto |-> FALSE, ips |-> {}]
             k == [l EXCEPT !.rec = r]
  <2>1. pc[t] = "record" /\ pc[t] # "idle"
    BY <1>7 DEF JoinRecord
  <2>2. l \in Local /\ l.nwid \in Networks /\ l.mem \in Members
    BY <2>1, LocOf
  <2>3. /\ pc' = [pc EXCEPT ![t] = AfterRecord(r)] /\ loc' = [loc EXCEPT ![t] = k]
        /\ members' = members /\ memFile' = memFile
        /\ IF public THEN Grant(l.nwid, l.mem) ELSE UNCHANGED granted
    BY <1>7 DEF JoinRecord, Call, Goto, maps, disk
  <2>4. r.authorized = public
    OBVIOUS
  <2>5. k.rec = r /\ k.mem = l.mem /\ k.nwid = l.nwid
    BY <2>2 DEF Local
  <2> HIDE DEF public, r, k
  <2>6. \A n \in Networks : granted[n] \subseteq granted'[n]
    BY <2>2, <2>3, GrantMonotone
  <2>7. k.rec.authorized => k.mem \in granted'[k.nwid]
    BY <2>2, <2>3, <2>4, <2>5, GrantMonotone
  <2>8. \A s \in Tasks :
          pc'[s] \in MemberSteps => Granted(loc[s].nwid, loc[s].mem, loc[s].rec)'
    BY <2>3, <2>6, <2>7, GrantedCalls
  <2>9. QED
    BY <2>3, <2>6, <2>8, GrantedFrame
<1>8. QED
  BY <1>1, <1>2, <1>3, <1>4, <1>5, <1>6, <1>7

\* save_network() moves no authorization: pruning keeps that of every member.
LEMMA GrantNetworkStep ==
  ASSUME TypeInv, GrantInv, NEW t \in Tasks,
         \/ MergeNetwork(t) \/ RecheckId(t) \/ OpenNetwork(t) \/ FillNetwork(t)
         \/ InsertNetwork(t)
  PROVE  GrantInv'
<1>0. NetworkSteps \cap MemberSteps = {} /\ {"recheck", "netopen", "netfill", "netinsert", "prune"} = NetworkSteps
  BY DEF MemberSteps, NetworkSteps
<1>1. members' = members /\ memFile' = memFile /\ granted' = granted
  BY DEF MergeNetwork, RecheckId, OpenNetwork, FillNetwork, InsertNetwork, maps, disk
<1>2. \E step \in NetworkSteps :
        Goto(t, step) /\ (loc' = loc \/ \E l : loc' = [loc EXCEPT ![t] = l])
  BY <1>0 DEF MergeNetwork, RecheckId, OpenNetwork, FillNetwork, InsertNetwork, Call
<1>3. PICK step \in NetworkSteps :
        Goto(t, step) /\ (loc' = loc \/ \E l : loc' = [loc EXCEPT ![t] = l])
  BY <1>2
<1>4. step \notin MemberSteps
  BY <1>0
<1>5. \A s \in Tasks :
        pc'[s] \in MemberSteps => Granted(loc[s].nwid, loc[s].mem, loc[s].rec)'
  <2>1. CASE loc' = loc
    BY <1>1, <1>3, <1>4, <2>1, GrantedGoto
  <2>2. CASE \E l : loc' = [loc EXCEPT ![t] = l]
    <3>1. PICK l : loc' = [loc EXCEPT ![t] = l]
      BY <2>2
    <3>2. QED
      BY <1>1, <1>3, <1>4, <3>1, GrantedCalls DEF Goto
  <2>3. QED
    BY <1>3, <2>1, <2>2
<1>6. QED
  BY <1>1, <1>5, GrantedFrame

LEMMA GrantPruneStep ==
  ASSUME TypeInv, GrantInv, NEW t \in Tasks,
         PruneMembers(t) \/ PruneOpen(t) \/ PruneFill(t)
  PROVE  GrantInv'
<1> DEFINE l == loc[t]
<1>0. "pruneopen" \notin MemberSteps /\ "prunefill" \notin MemberSteps
  BY DEF MemberSteps
<1>1. granted' = granted
  BY DEF PruneMembers, PruneOpen, PruneFill
<1>2. ASSUME NEW m, NextPruned(t, m)
      PROVE  \A s \in Tasks :
               pc'[s] \in MemberSteps => Granted(loc[s].nwid, loc[s].mem, loc[s].rec)'
  BY <1>0, <1>1, <1>2, GrantedReturn, GrantedCalls DEF NextPruned, Call, Goto
<1>3. CASE PruneMembers(t)
  <2> DEFINE n == l.nwid
             new == [m \in Members |-> IF members[n][m] = Absent THEN Absent
                                       ELSE Pruned(n, l.cfg, m, members[n][m])]
  <2>1. pc[t] \in NetworkSteps /\ pc[t] # "idle"
    BY <1>3 DEF PruneMembers, NetworkSteps
  <2>2. n \in Networks /\ l.cfg \in NetRec
    BY <2>1, LocOf
  <2>3. \A s \in Tasks :
          pc'[s] \in MemberSteps => Granted(loc[s].nwid, loc[s].mem, loc[s].rec)'
    <3>1. CASE Return(t)
      BY <1>1, <3>1, GrantedReturn
    <3>2. CASE \E k : Call(t, "pruneopen", k)
      BY <1>0, <1>1, <3>2, GrantedCalls DEF Call, Goto
    <3>3. QED
      BY <1>3, <3>1, <3>2 DEF PruneMembers
  <2>4. members' = [members EXCEPT ![n] = new] /\ memFile' = memFile
    BY <1>3 DEF PruneMembers, disk
  <2>5. \A m \in Members : members[n][m] # Absent
          => Pruned(n, l.cfg, m, members[n][m]).authorized = members[n][m].authorized
    BY <2>2, PrunedType DEF TypeInv, ControllerTypeOK
  <2>6. \A m \in Members :
          Granted(n, m, members[n][m]) => (new[m] \in MemRec /\ new[m].authorized => m \in granted[n])
    <3>1. TAKE m \in Members
    <3>2. HAVE Granted(n, m, members[n][m])
    <3>3. CASE members[n][m] = Absent
      BY <3>3, ControllerAssumption
    <3>4. CASE members[n][m] # Absent
      <4>1. members[n][m] \in MemRec
        BY <2>2, <3>4 DEF TypeInv, ControllerTypeOK
      <4>2. QED
        BY <2>5, <3>2, <3>4, <4>1 DEF Granted
    <3>5. QED
      BY <3>3, <3>4
  <2> HIDE DEF new, n
  <2>7. \A k \in Networks, j \in Members :
          \/ members'[k][j] = members[k][j]
          \/ k = n /\ members'[k][j] = new[j]
    BY <2>2, <2>4 DEF TypeInv, ControllerTypeOK
  <2>8. \A k \in Networks, j \in Members : Granted(k, j, members[k][j])'
    BY <1>1, <2>2, <2>6, <2>7 DEF GrantInv, Granted
  <2>9. QED
    BY <1>1, <2>3, <2>4, <2>8 DEF GrantInv, Granted
<1>4. CASE PruneOpen(t)
  <2>1. pc[t] \in LockedSteps /\ pc[t] # "idle" /\ members' = members
    BY <1>4 DEF PruneOpen, LockedSteps, maps
  <2>2. l \in Local /\ l.nwid \in Networks /\ l.todo \subseteq Members
    BY <2>1, LocOf DEF Local
  <2>3. PICK m \in l.todo :
          \/ /\ memFile' = [memFile EXCEPT ![l.nwid][m] = Truncated(memFile[l.nwid][m], t)]
             /\ Call(t, "prunefill", [l EXCEPT !.mem = m])
          \/ NextPruned(t, m) /\ memFile' = memFile
    BY <1>4 DEF PruneOpen
  <2>4. CASE NextPruned(t, m) /\ memFile' = memFile
    BY <1>1, <1>2, <2>1, <2>4, GrantedFrame
  <2>5. CASE /\ memFile' = [memFile EXCEPT ![l.nwid][m] = Truncated(memFile[l.nwid][m], t)]
             /\ Call(t, "prunefill", [l EXCEPT !.mem = m])
    <3>1. \A s \in Tasks :
            pc'[s] \in MemberSteps => Granted(loc[s].nwid, loc[s].mem, loc[s].rec)'
      BY <1>0, <1>1, <2>5, GrantedCalls DEF Call, Goto
    <3>2. \A k \in Networks, j \in Members :
            memFile'[k][j] # Absent => Granted(k, j, memFile[k][j].data)'
      BY <1>1, <2>2, <2>3, <2>5, GrantedOpen
    <3>3. QED
      BY <1>1, <2>1, <3>1, <3>2 DEF GrantInv, Granted
  <2>6. QED
    BY <2>3, <2>4, <2>5
<1>5. CASE PruneFill(t)
  <2>1. pc[t] = "prunefill" /\ pc[t] \in LockedSteps /\ pc[t] # "idle" /\ members' = members
    BY <1>5 DEF PruneFill, LockedSteps, maps
  <2>2. l.nwid \in Networks /\ l.mem \in Members
    BY <2>1, LocOf DEF TypeInv, Well, Local
  <2>3. members[l.nwid][l.mem] \in MemRec
    BY <2>1, <2>2 DEF TypeInv, Well, Locked, ControllerTypeOK
  <2>4. Granted(l.nwid, l.mem, members[l.nwid][l.mem])
    BY <2>2 DEF GrantInv
  <2>5. WriteMember(t, l.nwid, l.mem, members[l.nwid][l.mem]) /\ NextPruned(t, l.mem)
    BY <1>5 DEF PruneFill
  <2>6. \A k \in Networks, j \in Members :
          memFile'[k][j] # Absent => Granted(k, j, memFile[k][j].data)'
    BY <1>1, <2>2, <2>3, <2>4, <2>5, GrantedWrite
  <2>7. QED
    BY <1>1, <1>2, <2>1, <2>5, <2>6 DEF GrantInv, Granted
<1>6. QED
  BY <1>3, <1>4, <1>5

LEMMA GrantDeleteStep ==
  ASSUME TypeInv, GrantInv, NEW t \in Tasks,
         RemoveNetFile(t) \/ RemoveDir(t) \/ RemoveMembers(t) \/ RemoveMember(t)
  PROVE  GrantInv'
<1>1. granted' = granted /\ Absent \notin MemRec
  BY ControllerAssumption DEF RemoveNetFile, RemoveDir, RemoveMembers, RemoveMember
<1>2. \A s \in Tasks :
        pc'[s] \in MemberSteps => Granted(loc[s].nwid, loc[s].mem, loc[s].rec)'
  <2>1. "rmdir" \notin MemberSteps /\ "rmmembers" \notin MemberSteps
    BY DEF MemberSteps
  <2>2. CASE RemoveNetFile(t) \/ RemoveDir(t)
    BY <1>1, <2>1, <2>2, GrantedGoto DEF RemoveNetFile, RemoveDir
  <2>3. CASE RemoveMembers(t) \/ RemoveMember(t)
    BY <1>1, <2>3, GrantedReturn DEF RemoveMembers, RemoveMember
  <2>4. QED
    BY <2>2, <2>3
<1>3. \A n \in Networks, m \in Members :
        /\ members'[n][m] \in {members[n][m], Absent}
        /\ memFile'[n][m] \in {memFile[n][m], Absent}
  <2>1. CASE RemoveNetFile(t)
    BY <2>1 DEF RemoveNetFile, maps
  <2>2. CASE RemoveDir(t)
    BY <2>2 DEF RemoveDir, maps, TypeInv, ControllerTypeOK
  <2>3. CASE RemoveMembers(t)
    BY <2>3 DEF RemoveMembers, disk, TypeInv, ControllerTypeOK
  <2>4. CASE RemoveMember(t)
    BY <2>4 DEF RemoveMember, maps, TypeInv, ControllerTypeOK
  <2>5. QED
    BY <2>1, <2>2, <2>3, <2>4
<1>4. QED
  BY <1>1, <1>2, <1>3 DEF GrantInv, Granted

LEMMA GrantCrash ==
  ASSUME TypeInv, GrantInv, Crash
  PROVE  GrantInv'
<1>1. granted' = granted /\ \A t \in Tasks : pc'[t] \notin MemberSteps
  BY DEF Crash, MemberSteps
<1>2. ASSUME NEW n \in Networks, NEW m \in Members PROVE Granted(n, m, MemberOnDisk(n, m))
  BY ControllerAssumption DEF MemberOnDisk, GrantInv, Granted
<1>3. \A n \in Networks, m \in Members : members'[n][m] = MemberOnDisk(n, m)
  BY DEF Crash
<1>4. \A n \in Networks, m \in Members : Granted(n, m, members[n][m])'
  BY <1>1, <1>2, <1>3 DEF Granted
<1>5. \A n \in Networks, m \in Members :
        memFile'[n][m] # Absent => memFile[n][m] # Absent /\ memFile'[n][m].data = memFile[n][m].data
  <2>1. TAKE n \in Networks, m \in Members
  <2>2. memFile'[n][m] = Closed(memFile[n][m]) /\ memFile[n][m] \in MemFile \cup {Absent}
    BY DEF Crash, TypeInv, ControllerTypeOK
  <2>3. QED
    BY <2>2 DEF Closed, MemFile
<1>6. QED
  BY <1>1, <1>4, <1>5 DEF GrantInv, Granted

LEMMA NextGrant == TypeInv /\ GrantInv /\ [Next]_vars => GrantInv'
<1> SUFFICES ASSUME TypeInv, GrantInv, [Next]_vars PROVE GrantInv'
  OBVIOUS
<1>1. ASSUME NEW t \in Tasks, Start(t) PROVE GrantInv'
  BY <1>1, GrantStart
<1>2. ASSUME NEW t \in Tasks, Step(t) PROVE GrantInv'
  BY <1>2, GrantMemberStep, GrantNetworkStep, GrantPruneStep, GrantDeleteStep DEF Step
<1>3. CASE Crash
  BY <1>3, GrantCrash
<1>4. CASE UNCHANGED vars
  BY <1>4 DEF vars, maps, disk, GrantInv, Granted
<1>5. QED
  BY <1>1, <1>2, <1>3, <1>4 DEF Next

(* However calls overlap, and wherever the process dies, a member that is   *)
(* authorized in memory or would be after a restart was once authorized by *)
(* an administrator or joined while its network was public: neither the    *)
(* second read of register_join_request() (controller.rs:530-531), nor a   *)
(* stale merge, nor a file written late authorizes anybody else.           *)
THEOREM OnlyGrantedCorrect == Spec => []OnlyGranted
<1>1. Init => TypeInv /\ GrantInv
  BY InitType, InitGrant
<1>2. TypeInv /\ GrantInv /\ [Next]_vars => (TypeInv /\ GrantInv)'
  BY NextType, NextGrant
<1>3. TypeInv /\ GrantInv => OnlyGranted
  <2>1. SUFFICES ASSUME TypeInv, GrantInv, NEW n \in Networks, NEW m \in Members
                 PROVE  /\ members[n][m] # Absent /\ members[n][m].authorized => m \in granted[n]
                        /\ MemberOnDisk(n, m) # Absent /\ MemberOnDisk(n, m).authorized
                             => m \in granted[n]
    BY DEF OnlyGranted
  <2>2. members[n][m] # Absent => members[n][m] \in MemRec
    BY <2>1 DEF TypeInv, ControllerTypeOK
  <2>3. MemberOnDisk(n, m) # Absent
          => memFile[n][m] # Absent /\ memFile[n][m].data \in MemRec
               /\ MemberOnDisk(n, m) = memFile[n][m].data
    BY DEF MemberOnDisk
  <2>4. QED
    BY <2>1, <2>2, <2>3 DEF GrantInv, Granted
<1>4. QED
  BY <1>1, <1>2, <1>3, PTL DEF Spec

-----------------------------------------------------------------------------
(* Calls that wait for each other *)

\* A lock that is held is held by a call at a step that holds it.
GuardInv ==
  /\ netLock # Absent => pc[netLock] \in {"rmnet", "rmdir", "rmmembers"}
  /\ memLock # Absent => pc[memLock] \in LockedSteps

\* A call at a step that neither holds a lock nor takes one moves no holder.
LEMMA GuardElsewhere ==
  ASSUME TypeInv, GuardInv, NEW t \in Tasks, NEW step, pc' = [pc EXCEPT ![t] = step],
         UNCHANGED locks, pc[t] \notin LockedSteps \cup {"rmnet", "rmdir", "rmmembers"}
  PROVE  GuardInv'
BY DEF GuardInv, TypeInv, ControllerTypeOK, locks

LEMMA GuardStart ==
  ASSUME TypeInv, GuardInv, NEW t \in Tasks, Start(t)
  PROVE  GuardInv'
<1>1. pc[t] = "idle" /\ pc \in [Tasks -> Steps] /\ netLock \in Tasks \cup {Absent} /\ memLock \in Tasks \cup {Absent}
  BY DEF Start, SaveMember, Join, DeleteMember, CreateNetwork, SaveNetwork, DeleteNetwork, Begin,
     TypeInv, ControllerTypeOK
<1>2. CASE (\E step : pc' = [pc EXCEPT ![t] = step]) /\ UNCHANGED locks
  BY <1>1, <1>2, GuardElsewhere DEF LockedSteps
<1>3. ASSUME NEW n \in Networks, DeleteNetwork(t, n) PROVE GuardInv'
  <2>1. netLock' = t /\ memLock' = memLock /\ pc' = [pc EXCEPT ![t] = "rmnet"]
    BY <1>3 DEF DeleteNetwork, Call, Goto
  <2> QED
    BY <1>1, <2>1 DEF GuardInv, LockedSteps
<1>4. ASSUME NEW n \in Networks, NEW m \in Members, DeleteMember(t, n, m) PROVE GuardInv'
  <2>1. memLock' = t /\ netLock' = netLock /\ pc' = [pc EXCEPT ![t] = "rmmember"]
    BY <1>4 DEF DeleteMember, Call, Goto
  <2> QED
    BY <1>1, <2>1 DEF GuardInv, LockedSteps
<1>5. CASE \E n \in Networks, m \in Members : (\E p \in Patches : SaveMember(t, n, m, p)) \/ Join(t, n, m)
  BY <1>2, <1>5 DEF SaveMember, Join, Call, Goto, locks
<1>6. CASE \E p \in NetPatches : CreateNetwork(t, p) \/ \E n \in Networks : SaveNetwork(t, n, p)
  BY <1>2, <1>6 DEF CreateNetwork, SaveNetwork, Call, Goto, locks
<1> QED
  BY <1>3, <1>4, <1>5, <1>6 DEF Start

LEMMA GuardStep ==
  ASSUME TypeInv, GuardInv, NEW t \in Tasks, Step(t)
  PROVE  GuardInv'
<1>1. pc \in [Tasks -> Steps] /\ netLock \in Tasks \cup {Absent} /\ memLock \in Tasks \cup {Absent}
  BY DEF TypeInv, ControllerTypeOK
<1>2. ASSUME NEW step, pc' = [pc EXCEPT ![t] = step], UNCHANGED locks,
             pc[t] \notin LockedSteps \cup {"rmnet", "rmdir", "rmmembers"}
      PROVE  GuardInv'
  BY <1>2, GuardElsewhere
<1>3. CASE AssignMember(t) \/ MakeDir(t) \/ OpenMember(t) \/ FillMember(t) \/ InsertMember(t)
           \/ JoinKnown(t) \/ JoinRecord(t)
  BY <1>2, <1>3 DEF AssignMember, MakeDir, OpenMember, FillMember, InsertMember, JoinKnown, JoinRecord,
     Call, Return, Goto, locks, LockedSteps
<1>4. CASE MergeNetwork(t) \/ RecheckId(t) \/ OpenNetwork(t) \/ FillNetwork(t) \/ InsertNetwork(t)
  BY <1>2, <1>4 DEF MergeNetwork, RecheckId, OpenNetwork, FillNetwork, InsertNetwork,
     Call, Goto, locks, LockedSteps
<1>5. CASE PruneMembers(t)
  <2>1. /\ pc[t] = "prune" /\ memLock = Absent /\ netLock' = netLock
        /\ \/ memLock' = memLock /\ pc' = [pc EXCEPT ![t] = "idle"]
           \/ memLock' = t /\ pc' = [pc EXCEPT ![t] = "pruneopen"]
    BY <1>5 DEF PruneMembers, Call, Return, Goto
  <2> QED
    BY <1>1, <2>1 DEF GuardInv, LockedSteps
<1>6. CASE PruneOpen(t) \/ PruneFill(t)
  <2>1. /\ pc[t] \in {"pruneopen", "prunefill"} /\ netLock' = netLock
        /\ \/ memLock' = Absent /\ pc' = [pc EXCEPT ![t] = "idle"]
           \/ memLock' = memLock /\ \E step \in {"pruneopen", "prunefill"} : pc' = [pc EXCEPT ![t] = step]
    BY <1>6 DEF PruneOpen, PruneFill, NextPruned, Call, Return, Goto
  <2> QED
    BY <1>1, <2>1 DEF GuardInv, LockedSteps
<1>7. CASE RemoveNetFile(t) \/ RemoveDir(t)
  <2>1. /\ pc[t] \in {"rmnet", "rmdir"} /\ netLock' = netLock /\ memLock' = memLock
        /\ \E step \in {"rmdir", "rmmembers"} : pc' = [pc EXCEPT ![t] = step]
    BY <1>7 DEF RemoveNetFile, RemoveDir, Goto, locks
  <2> QED
    BY <1>1, <2>1 DEF GuardInv, LockedSteps
<1>8. CASE RemoveMembers(t)
  <2>1. pc[t] = "rmmembers" /\ netLock' = Absent /\ memLock' = memLock /\ pc' = [pc EXCEPT ![t] = "idle"]
    BY <1>8 DEF RemoveMembers, Return, Call, Goto
  <2> QED
    BY <1>1, <2>1 DEF GuardInv, LockedSteps
<1>9. CASE RemoveMember(t)
  <2>1. pc[t] = "rmmember" /\ memLock' = Absent /\ netLock' = netLock /\ pc' = [pc EXCEPT ![t] = "idle"]
    BY <1>9 DEF RemoveMember, Return, Call, Goto
  <2> QED
    BY <1>1, <2>1 DEF GuardInv, LockedSteps
<1> QED
  BY <1>3, <1>4, <1>5, <1>6, <1>7, <1>8, <1>9 DEF Step

(* However many calls overlap, none waits in a circle: a call that waits    *)
(* for a lock waits for one that is not blocked, or for delete_network(),  *)
(* which waits for one that is not (controller.rs:402-418).                *)
THEOREM HoldersGoOnCorrect == Spec => []HoldersGoOn
<1>1. Init => TypeInv /\ GuardInv
  BY InitType DEF Init, GuardInv
<1>2. TypeInv /\ GuardInv /\ [Next]_vars => (TypeInv /\ GuardInv)'
  <2> SUFFICES ASSUME TypeInv, GuardInv, [Next]_vars PROVE TypeInv' /\ GuardInv'
    OBVIOUS
  <2>1. CASE Crash
    BY <2>1, NextType DEF Crash, GuardInv
  <2>2. CASE UNCHANGED vars
    BY <2>2, NextType DEF vars, locks, GuardInv
  <2>3. ASSUME NEW t \in Tasks, Start(t) \/ Step(t) PROVE GuardInv'
    BY <2>3, GuardStart, GuardStep
  <2> QED
    BY <2>1, <2>2, <2>3, NextType DEF Next
<1>3. TypeInv /\ GuardInv => HoldersGoOn
  <2> SUFFICES ASSUME TypeInv, GuardInv, NEW t \in Tasks, Blocked(t)
               PROVE  \E s \in {netLock, memLock} \ {Absent} : pc[s] # "idle" /\ ~Blocked(s)
    BY DEF HoldersGoOn
  <2>1. CASE memLock # Absent
    BY <2>1 DEF GuardInv, LockedSteps, Blocked
  <2>2. CASE memLock = Absent
    BY <2>2 DEF GuardInv, LockedSteps, Blocked
  <2> QED
    BY <2>1, <2>2
<1> QED
  BY <1>1, <1>2, <1>3, PTL DEF Spec
=============================================================================
