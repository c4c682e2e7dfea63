------------------------- MODULE NetworkStoreProofs -------------------------
(***************************************************************************)
(* Theorems about the network table, for any number of networks, tasks and *)
(* addresses, and for calls that overlap as they like.                     *)
(***************************************************************************)
EXTENDS NetworkStore, TLAPS

-----------------------------------------------------------------------------
(* Type correctness *)

\* The operators on records stay within Network.
LEMMA FreshType == Fresh \in Network
BY DEF Fresh, Network, Status

LEMMA RecordType ==
  ASSUME NEW r \in Network
  PROVE  /\ Joined(r) \in Network
         /\ Disconnected(r) \in Network
         /\ Connected(r) \in Network
BY DEF Joined, Disconnected, Connected, Network, Status

LEMMA UpdatedType ==
  ASSUME NEW r \in Network, NEW u \in SettingsUpdate
  PROVE  Updated(r, u) \in Network
<1> DEFINE s == [r EXCEPT !.allowManaged = Choice(u.allowManaged, @),
                          !.allowDefault = Choice(u.allowDefault, @)]
<1>1. s \in Network
  BY DEF Network, Choice, SettingsUpdate, Flag
<1>2. u.connected \in Flag
  BY DEF SettingsUpdate
<1>3. Joined(s) \in Network /\ Disconnected(s) \in Network
  BY <1>1, RecordType
<1> HIDE DEF s
<1>4. s \in Network /\ Updated(r, u) \in {s, Joined(s), Disconnected(s)}
  BY <1>1, <1>2 DEF Updated, Flag, s
<1> QED
  BY <1>3, <1>4

LEMMA RebootedType ==
  ASSUME NEW r \in Network
  PROVE  Rebooted(r) \in Network
BY StoreAssumption DEF Rebooted, Network, Status

\* What a restart loads is a record or nothing.
LEMMA OnDiskType ==
  ASSUME NEW n \in Networks
  PROVE  OnDisk(n) \in Network \cup {Absent}
BY RebootedType, FreshType DEF OnDisk

LEMMA FileType ==
  ASSUME NEW file \in File, NEW t \in Tasks, NEW d \in Network \cup {Garbled}
  PROVE  Wrote(file, t, d) \in File
BY DEF Wrote, File

\* A task that is inside a call knows its network and its record.
LEMMA ArgType ==
  ASSUME TypeOK, NEW t \in Tasks, pc[t] # "idle"
  PROVE  arg[t].nwid \in Networks /\ arg[t].net \in Network
BY DEF TypeOK, Call

LEMMA StoreType ==
  ASSUME TypeOK, NEW t \in Tasks, NEW n \in Networks, NEW r \in Network, Store(t, n, r)
  PROVE  TypeOK'
BY StoreAssumption DEF TypeOK, Store, Goto, Touch, diskVars, Call, Steps

LEMMA TypeInit == Init => TypeOK
BY DEF Init, TypeOK, Call, Steps

\* Every call on the table keeps the type.
LEMMA OperationType ==
  ASSUME TypeOK, NEW t \in Tasks, NEW n \in Networks, Operation(t, n)
  PROVE  TypeOK'
<1>1. ASSUME mem[n] # Absent PROVE mem[n] \in Network
  BY <1>1 DEF TypeOK
<1>2. CASE Join(t, n)
  <2>1. (IF mem[n] = Absent THEN Fresh ELSE Joined(mem[n])) \in Network
    BY <1>1, FreshType, RecordType
  <2> QED
    BY <1>2, <2>1, StoreType DEF Join
<1>3. CASE Disconnect(t, n)
  BY <1>1, <1>3, RecordType, StoreType DEF Disconnect
<1>4. CASE Connect(t, n)
  BY <1>1, <1>4, RecordType, StoreType DEF Connect
<1>5. ASSUME NEW u \in Updates, UpdateSettings(t, n, u) PROVE TypeOK'
  <2>1. Updated(mem[n], u) \in Network
    BY <1>1, <1>5, UpdatedType, StoreAssumption DEF UpdateSettings
  <2> QED
    BY <1>5, <2>1, StoreType DEF UpdateSettings
<1>6. CASE Get(t, n)
  BY <1>1, <1>6, StoreAssumption DEF TypeOK, Get, Goto, diskVars, historyVars, Call, Steps
<1>7. CASE Leave(t, n)
  BY <1>1, <1>7, StoreAssumption DEF TypeOK, Leave, Goto, Touch, diskVars, Call, Steps
<1> QED
  BY <1>2, <1>3, <1>4, <1>5, <1>6, <1>7 DEF Operation

LEMMA AnswerType ==
  ASSUME TypeOK, NEW t \in Tasks, Answer(t)
  PROVE  TypeOK'
<1>1. PICK s \in {"Ok", "AccessDenied"}, ips \in SUBSET Addresses, routes \in SUBSET Targets :
        UpdateNetwork(t, [arg[t].net EXCEPT !.status = s, !.ips = ips, !.routes = routes])
  BY DEF Answer
<1>2. pc[t] = "got"
  BY <1>1 DEF UpdateNetwork
<1>3. arg[t].nwid \in Networks /\ arg[t].net \in Network
  BY <1>2, ArgType
<1>4. [arg[t].net EXCEPT !.status = s, !.ips = ips, !.routes = routes] \in Network
  BY <1>3 DEF Network, Status
<1> QED
  BY <1>1, <1>3, <1>4, StoreType DEF UpdateNetwork

\* So does every system call.
LEMMA PersistType ==
  ASSUME TypeOK, NEW t \in Tasks, Persist(t) \/ Delete(t)
  PROVE  TypeOK'
<1> DEFINE n == arg[t].nwid
<1>1. pc[t] # "idle"
  BY DEF Persist, Delete, OpenTmp, Truncated, WriteTmp, HasOpen, RenameTmp, MarkConf, RemoveJson, RemoveConf
<1>2. n \in Networks /\ arg[t].net \in Network
  BY <1>1, ArgType
<1> HIDE DEF n
<1>3. CASE OpenTmp(t)
  <2>1. [data |-> Empty, fds |-> {t} \cup (IF tmp[n] = Absent THEN {} ELSE tmp[n].fds)] \in File
    BY <1>2 DEF TypeOK, File
  <2>2. tmp' \in [Networks -> File \cup {Absent}]
    BY <1>2, <1>3, <2>1 DEF OpenTmp, Truncated, TypeOK, n
  <2> QED
    BY <1>3, <2>2 DEF OpenTmp, Truncated, TypeOK, Goto, Steps, historyVars
<1>4. CASE WriteTmp(t)
  <2>1. \A old, r : r \in Network => Overwrites(old, r) \subseteq Network \cup {Garbled}
    BY DEF Overwrites
  <2>2. n \in Networks /\ tmp \in [Networks -> File \cup {Absent}] /\ json \in [Networks -> File \cup {Absent}]
    BY <1>2 DEF TypeOK
  <2>3. ASSUME NEW d \in Overwrites(tmp[n].data, arg[t].net), tmp[n] # Absent
        PROVE  [tmp EXCEPT ![n] = Wrote(@, t, d)] \in [Networks -> File \cup {Absent}]
    BY <1>2, <2>1, <2>2, <2>3, FileType
  <2>4. ASSUME NEW d \in Overwrites(json[n].data, arg[t].net), json[n] # Absent
        PROVE  [json EXCEPT ![n] = Wrote(@, t, d)] \in [Networks -> File \cup {Absent}]
    BY <1>2, <2>1, <2>2, <2>4, FileType
  <2>5. tmp' \in [Networks -> File \cup {Absent}] /\ json' \in [Networks -> File \cup {Absent}]
    BY <1>4, <2>2, <2>3, <2>4 DEF WriteTmp, HasOpen, n
  <2> QED
    BY <1>4, <2>5 DEF WriteTmp, HasOpen, TypeOK, Goto, Steps, historyVars
<1>5. CASE RenameTmp(t)
  BY <1>2, <1>5 DEF RenameTmp, TypeOK, Goto, Steps, n, historyVars
<1>6. CASE MarkConf(t)
  BY <1>2, <1>6 DEF MarkConf, TypeOK, Return, Goto, Steps, Call, n, historyVars
<1>7. CASE RemoveJson(t)
  BY <1>2, <1>7 DEF RemoveJson, TypeOK, Goto, Steps, n, historyVars
<1>8. CASE RemoveConf(t)
  BY <1>2, <1>8 DEF RemoveConf, TypeOK, Return, Goto, Steps, Call, n, historyVars
<1> QED
  BY <1>3, <1>4, <1>5, <1>6, <1>7, <1>8 DEF Persist, Delete

LEMMA RestartType ==
  ASSUME TypeOK, Restart
  PROVE  TypeOK'
<1>1. \A n \in Networks : Closed(json[n]) \in File \cup {Absent} /\ Closed(tmp[n]) \in File \cup {Absent}
  BY DEF TypeOK, Closed, File
<1> QED
  BY <1>1, OnDiskType DEF TypeOK, Restart, Call, Steps

LEMMA TypeStep == TypeOK /\ [Next]_storeVars => TypeOK'
<1> SUFFICES ASSUME TypeOK, [Next]_storeVars PROVE TypeOK'
  OBVIOUS
<1>1. ASSUME NEW t \in Tasks, NEW n \in Networks, Operation(t, n) PROVE TypeOK'
  BY <1>1, OperationType
<1>2. ASSUME NEW t \in Tasks, Answer(t) \/ Persist(t) \/ Delete(t) PROVE TypeOK'
  BY <1>2, AnswerType, PersistType
<1>3. CASE Restart
  BY <1>3, RestartType
<1>4. CASE UNCHANGED storeVars
  BY <1>4 DEF TypeOK, storeVars
<1> QED
  BY <1>1, <1>2, <1>3, <1>4 DEF Next

(* The type invariant of the network table: in particular, a task that is  *)
(* inside a call on the table always knows the network and the record it   *)
(* is working for, also after other tasks left or rewrote that network.    *)
THEOREM TypeCorrect == Spec => []TypeOK
<1> QED
  BY TypeInit, TypeStep, PTL DEF Spec

-----------------------------------------------------------------------------
(* Membership survives *)

\* The tasks that are on their way to the .conf marker of n.
Persisting(t, n) == pc[t] \in {"open", "write", "rename", "mark"} /\ arg[t].nwid = n

\* Something will make a restart load n, or is about to.
Recorded(n) ==
  \/ conf[n]
  \/ json[n] # Absent /\ json[n].data \in Network
  \/ \E t \in Tasks : Persisting(t, n)

(* Why membership survives: a network in the map that nobody left is       *)
(* recorded, and only a task that left its network deletes files.          *)
MembershipInv ==
  /\ \A n \in Networks : mem[n] # Absent /\ ~left[n] => Recorded(n)
  /\ \A t \in Tasks : pc[t] \in {"rmjson", "rmconf"} => left[arg[t].nwid]

LEMMA MembershipInit == Init => MembershipInv
BY DEF Init, MembershipInv

\* A step that keeps the marker and the .json files' contents keeps a record of n.
LEMMA StoreMembership ==
  ASSUME TypeOK, MembershipInv, NEW t \in Tasks, NEW n \in Networks, NEW r, Store(t, n, r),
         pc[t] \in {"idle", "got"}
  PROVE  MembershipInv'
<1>1. \A m \in Networks : m # n => mem'[m] = mem[m]
  BY DEF Store, TypeOK
<1>2. Persisting(t, n)'
  BY DEF Store, Goto, Persisting, TypeOK
<1>3. \A u \in Tasks : u # t => pc'[u] = pc[u] /\ arg'[u] = arg[u]
  BY DEF Store, Goto, TypeOK
<1>4. pc'[t] = "open"
  BY DEF Store, Goto, TypeOK
<1>5. UNCHANGED <<json, conf, left>>
  BY DEF Store, diskVars
<1>6. ASSUME NEW m \in Networks, m # n, Recorded(m) PROVE Recorded(m)'
  BY <1>3, <1>5, <1>6 DEF Recorded, Persisting
<1>7. Recorded(n)'
  BY <1>2 DEF Recorded
<1>8. \A u \in Tasks : pc'[u] \in {"rmjson", "rmconf"} => left'[arg'[u].nwid]
  BY <1>3, <1>4, <1>5 DEF MembershipInv
<1> QED
  BY <1>1, <1>5, <1>6, <1>7, <1>8 DEF MembershipInv

LEMMA OperationMembership ==
  ASSUME TypeOK, MembershipInv, NEW t \in Tasks, NEW n \in Networks, Operation(t, n)
  PROVE  MembershipInv'
<1>1. pc[t] = "idle"
  BY DEF Operation, Join, Disconnect, Connect, UpdateSettings, Get, Leave, Begin
<1>2. ASSUME NEW r, Store(t, n, r) PROVE MembershipInv'
  BY <1>1, <1>2, StoreMembership
<1>3. CASE Get(t, n)
  <2>1. \A u \in Tasks : u # t => pc'[u] = pc[u] /\ arg'[u] = arg[u]
    BY <1>3 DEF Get, Goto, TypeOK
  <2>2. pc'[t] = "got" /\ UNCHANGED <<mem, json, conf, left>>
    BY <1>3 DEF Get, Goto, TypeOK, diskVars, historyVars
  <2>3. \A m \in Networks : Recorded(m) => Recorded(m)'
    BY <1>1, <2>1, <2>2 DEF Recorded, Persisting
  <2> QED
    BY <2>1, <2>2, <2>3 DEF MembershipInv
<1>4. CASE Leave(t, n)
  <2>1. \A u \in Tasks : u # t => pc'[u] = pc[u] /\ arg'[u] = arg[u]
    BY <1>4 DEF Leave, Goto, TypeOK
  <2>2. pc'[t] = "rmjson" /\ arg'[t].nwid = n /\ UNCHANGED <<json, conf>>
    BY <1>4 DEF Leave, Goto, TypeOK, diskVars
  <2>3. /\ left'[n]
        /\ \A m \in Networks : m # n => left'[m] = left[m] /\ mem'[m] = mem[m]
        /\ \A m \in Networks : left[m] => left'[m]
    BY <1>4 DEF Leave, TypeOK
  <2>4. \A m \in Networks : Recorded(m) => Recorded(m)'
    BY <1>1, <2>1, <2>2 DEF Recorded, Persisting
  <2>5. \A u \in Tasks : pc[u] # "idle" => arg[u].nwid \in Networks
    BY ArgType
  <2> QED
    BY <2>1, <2>2, <2>3, <2>4, <2>5 DEF MembershipInv
<1> QED
  BY <1>2, <1>3, <1>4 DEF Operation, Join, Disconnect, Connect, UpdateSettings

\* A system call of t on its way to the marker leaves t recording its network.
LEMMA PersistMembership ==
  ASSUME TypeOK, MembershipInv, NEW t \in Tasks, Persist(t)
  PROVE  MembershipInv'
<1>0. PICK n \in Networks : n = arg[t].nwid
  BY ArgType DEF Persist, OpenTmp, Truncated, WriteTmp, HasOpen, RenameTmp, MarkConf
<1>1. pc[t] \in {"open", "write", "rename", "mark"}
  BY DEF Persist, OpenTmp, Truncated, WriteTmp, HasOpen, RenameTmp, MarkConf
<1>2. \A u \in Tasks : u # t => pc'[u] = pc[u] /\ arg'[u] = arg[u]
  BY DEF Persist, OpenTmp, Truncated, WriteTmp, HasOpen, RenameTmp, MarkConf, Return, Goto, TypeOK
<1>3. \A m \in Networks : m # n => json'[m] = json[m]
  BY <1>0, <1>1 DEF Persist, OpenTmp, Truncated, WriteTmp, HasOpen, RenameTmp, MarkConf, TypeOK
<1>4. (\A m \in Networks : conf[m] => conf'[m]) /\ UNCHANGED <<mem, left>>
  BY <1>0, <1>1 DEF Persist, OpenTmp, Truncated, WriteTmp, HasOpen, RenameTmp, MarkConf, TypeOK, historyVars
<1>5. Persisting(t, n)' \/ conf'[n]
  BY <1>0, <1>1 DEF Persist, OpenTmp, Truncated, WriteTmp, HasOpen, RenameTmp, MarkConf, Goto, TypeOK, Persisting
<1>6. pc'[t] \notin {"rmjson", "rmconf"}
  BY <1>0, <1>1 DEF Persist, OpenTmp, Truncated, WriteTmp, HasOpen, RenameTmp, MarkConf, Return, Goto, TypeOK
<1>7. Recorded(n)'
  BY <1>5 DEF Recorded
<1>8. ASSUME NEW m \in Networks, m # n, Recorded(m) PROVE Recorded(m)'
  BY <1>0, <1>2, <1>3, <1>4, <1>8 DEF Recorded, Persisting
<1> QED
  BY <1>2, <1>4, <1>6, <1>7, <1>8 DEF MembershipInv

LEMMA DeleteMembership ==
  ASSUME TypeOK, MembershipInv, NEW t \in Tasks, Delete(t)
  PROVE  MembershipInv'
<1> DEFINE n == arg[t].nwid
<1>1. pc[t] \in {"rmjson", "rmconf"} /\ n \in Networks
  BY ArgType DEF Delete, RemoveJson, RemoveConf
<1> HIDE DEF n
<1>2. left[n]
  BY <1>1 DEF MembershipInv, n
<1>3. \A u \in Tasks : u # t => pc'[u] = pc[u] /\ arg'[u] = arg[u]
  BY DEF Delete, RemoveJson, RemoveConf, Return, Goto, TypeOK
<1>4. \A m \in Networks : m # n => json'[m] = json[m] /\ conf'[m] = conf[m]
  BY <1>1 DEF Delete, RemoveJson, RemoveConf, TypeOK, n
<1>5. UNCHANGED <<mem, left>>
  BY DEF Delete, RemoveJson, RemoveConf, historyVars
<1>6. pc'[t] \in {"rmjson", "rmconf"} => arg'[t].nwid = n
  BY DEF Delete, RemoveJson, RemoveConf, Return, Goto, TypeOK, n
<1>7. ASSUME NEW m \in Networks, m # n, Recorded(m) PROVE Recorded(m)'
  BY <1>1, <1>3, <1>4, <1>7 DEF Recorded, Persisting
<1> QED
  BY <1>2, <1>3, <1>5, <1>6, <1>7 DEF MembershipInv

LEMMA RestartMembership ==
  ASSUME TypeOK, MembershipInv, Restart
  PROVE  MembershipInv'
<1>1. ASSUME NEW n \in Networks, OnDisk(n) # Absent
      PROVE  conf[n] \/ (json[n] # Absent /\ json[n].data \in Network)
  BY <1>1 DEF OnDisk
<1>2. ASSUME NEW n \in Networks, json[n] # Absent, json[n].data \in Network
      PROVE  json'[n] # Absent /\ json'[n].data \in Network
  <2>1. json[n] \in File
    BY <1>2 DEF TypeOK
  <2>2. Closed(json[n]) \in File /\ Closed(json[n]).data = json[n].data
    BY <1>2, <2>1 DEF Closed, File
  <2> QED
    BY <1>2, <2>2, StoreAssumption DEF Restart
<1>3. \A n \in Networks : mem'[n] # Absent => Recorded(n)'
  BY <1>1, <1>2 DEF Restart, Recorded
<1>4. \A t \in Tasks : pc'[t] = "idle"
  BY DEF Restart
<1> QED
  BY <1>3, <1>4 DEF MembershipInv

LEMMA MembershipStep == TypeOK /\ MembershipInv /\ [Next]_storeVars => MembershipInv'
<1> SUFFICES ASSUME TypeOK, MembershipInv, [Next]_storeVars PROVE MembershipInv'
  OBVIOUS
<1>1. ASSUME NEW t \in Tasks, NEW n \in Networks, Operation(t, n) PROVE MembershipInv'
  BY <1>1, OperationMembership
<1>2. ASSUME NEW t \in Tasks, Answer(t) PROVE MembershipInv'
  <2>1. PICK r : UpdateNetwork(t, r)
    BY <1>2 DEF Answer
  <2>2. pc[t] = "got" /\ arg[t].nwid \in Networks
    BY <2>1, ArgType DEF UpdateNetwork
  <2> QED
    BY <2>1, <2>2, StoreMembership DEF UpdateNetwork
<1>3. ASSUME NEW t \in Tasks, Persist(t) \/ Delete(t) PROVE MembershipInv'
  BY <1>3, PersistMembership, DeleteMembership
<1>4. CASE Restart
  BY <1>4, RestartMembership
<1>5. CASE UNCHANGED storeVars
  BY <1>5 DEF MembershipInv, Recorded, Persisting, storeVars
<1> QED
  BY <1>1, <1>2, <1>3, <1>4, <1>5 DEF Next

\* Between calls, a record of n is a file that a restart loads.
LEMMA RecordedIsLoaded ==
  ASSUME TypeOK, NEW n \in Networks, Recorded(n), ~Busy(n)
  PROVE  OnDisk(n) # Absent
<1>1. \A r \in Network : Rebooted(r) # Absent
  BY RebootedType, StoreAssumption
<1>2. Fresh # Absent
  BY FreshType, StoreAssumption
<1>3. conf[n] \/ (json[n] # Absent /\ json[n].data \in Network)
  BY DEF Recorded, Busy, Persisting
<1> QED
  BY <1>1, <1>2, <1>3 DEF OnDisk

(* A network the user joined and never left is loaded by every restart     *)
(* that comes between calls on it, even when calls on it overlapped before *)
(* and left its .json file garbled (network.rs drops the lock before it    *)
(* writes, and every call uses the same temporary file).                   *)
THEOREM MembershipCorrect == Spec => []MembershipSurvives
<1>1. TypeOK /\ MembershipInv => MembershipSurvives
  BY RecordedIsLoaded DEF MembershipInv, MembershipSurvives
<1> QED
  BY <1>1, TypeInit, TypeStep, MembershipInit, MembershipStep, PTL DEF Spec

-----------------------------------------------------------------------------
(* Durability of a change that is written undisturbed *)

DurableAt(n) == OnDisk(n) = Rebooted(mem[n])

\* t has changed n and is still working on its files.
Writes(t, n) == pc[t] \notin {"idle", "got"} /\ arg[t].nwid = n

\* What a change that has its files to itself has achieved, step by step.
Progress(t, n) ==
  /\ pc[t] \in {"open", "write", "rename", "mark"} => mem[n] = arg[t].net
  /\ pc[t] = "write" => tmp[n] # Absent /\ tmp[n].data = Empty /\ t \in tmp[n].fds
  /\ pc[t] = "rename" => tmp[n] # Absent /\ tmp[n].data = arg[t].net
  /\ pc[t] = "mark" => json[n] # Absent /\ json[n].data = arg[t].net
  /\ pc[t] \in {"rmjson", "rmconf"} => mem[n] = Absent
  /\ pc[t] = "rmconf" => json[n] = Absent

\* The files of n belong to the one task that writes them, or hold what the map holds.
Owned(n) ==
  /\ ~Writing(n) => DurableAt(n)
  /\ \A t \in Tasks : Writes(t, n) => Progress(t, n)
  /\ \A t, u \in Tasks : Writes(t, n) /\ Writes(u, n) => t = u

\* A descriptor is held by a task that is about to write, and on one file only.
WritersHold(file, n) ==
  file # Absent => \A t \in file.fds : t \in Tasks /\ pc[t] = "write" /\ arg[t].nwid = n

Descriptors ==
  \A n \in Networks :
     /\ WritersHold(json[n], n)
     /\ WritersHold(tmp[n], n)
     /\ json[n] # Absent /\ tmp[n] # Absent => json[n].fds \cap tmp[n].fds = {}

(* Why the table is durable: as long as no second change meets it, the     *)
(* temporary file belongs to the change in progress from the open to the   *)
(* rename, whatever it held before, so each system call finds what the one *)
(* before it left.                                                         *)
SerialInv ==
  /\ Descriptors
  /\ \A n \in Networks : alone[n] => Owned(n)

LEMMA RebootedTwice ==
  ASSUME NEW r \in Network \cup {Absent}
  PROVE  Rebooted(Rebooted(r)) = Rebooted(r)
<1>1. CASE r = Absent
  BY <1>1 DEF Rebooted
<1>2. CASE r \in Network
  BY <1>2, RebootedType, StoreAssumption DEF Rebooted, Network
<1> QED
  BY <1>1, <1>2

\* What a restart loads is not changed by one more restart.
LEMMA OnDiskRebooted ==
  ASSUME NEW n \in Networks
  PROVE  Rebooted(OnDisk(n)) = OnDisk(n)
<1>1. Rebooted(Fresh) = Fresh
  BY FreshType, StoreAssumption DEF Rebooted, Fresh
<1>2. Rebooted(Absent) = Absent
  BY DEF Rebooted
<1> QED
  BY <1>1, <1>2, RebootedTwice DEF OnDisk

\* A step of t that concerns n touches nothing of the other tasks and networks.
Frame(t, n) ==
  /\ \A u \in Tasks : u # t => pc'[u] = pc[u] /\ arg'[u] = arg[u]
  /\ \A m \in Networks : m # n =>
       /\ mem'[m] = mem[m] /\ json'[m] = json[m] /\ tmp'[m] = tmp[m] /\ conf'[m] = conf[m]
       /\ alone'[m] = alone[m]
  /\ pc[t] \notin {"idle", "got"} => arg[t].nwid = n
  /\ pc'[t] \notin {"idle", "got"} => arg'[t].nwid = n

LEMMA WritingFrame ==
  ASSUME NEW t \in Tasks, NEW n \in Networks, Frame(t, n), NEW m \in Networks, m # n
  PROVE  /\ \A u \in Tasks : Writes(u, m)' <=> Writes(u, m)
         /\ Writing(m)' <=> Writing(m)
<1>1. ASSUME NEW u \in Tasks PROVE Writes(u, m)' <=> Writes(u, m)
  BY <1>1 DEF Frame, Writes
<1>2. (Writing(m) <=> \E u \in Tasks : Writes(u, m)) /\ (Writing(m)' <=> \E u \in Tasks : Writes(u, m)')
  BY DEF Writing, Writes
<1> QED
  BY <1>1, <1>2

\* It is enough to look at n and, among the descriptors, at those of n.
LEMMA SerialFrame ==
  ASSUME TypeOK, SerialInv, NEW t \in Tasks, NEW n \in Networks, Frame(t, n),
         alone'[n] => Owned(n)',
         WritersHold(json[n], n)', WritersHold(tmp[n], n)',
         json'[n] # Absent /\ tmp'[n] # Absent => json'[n].fds \cap tmp'[n].fds = {}
  PROVE  SerialInv'
<1>1. ASSUME NEW m \in Networks, m # n, alone'[m] PROVE Owned(m)'
  <2>1. Owned(m)
    BY <1>1 DEF SerialInv, Frame
  <2>2. /\ mem'[m] = mem[m] /\ json'[m] = json[m] /\ tmp'[m] = tmp[m] /\ conf'[m] = conf[m]
    BY <1>1 DEF Frame
  <2>3. DurableAt(m)' <=> DurableAt(m)
    BY <2>2 DEF DurableAt, OnDisk
  <2>4. \A u \in Tasks : Writes(u, m)' <=> Writes(u, m)
    BY <1>1, WritingFrame
  <2>5. Writing(m)' <=> Writing(m)
    BY <1>1, WritingFrame
  <2>6. ASSUME NEW u \in Tasks, Writes(u, m)' PROVE Progress(u, m)'
    <3>1. Writes(u, m) /\ u # t
      BY <1>1, <2>4, <2>6 DEF Frame, Writes
    <3>2. pc'[u] = pc[u] /\ arg'[u] = arg[u]
      BY <3>1 DEF Frame
    <3>3. Progress(u, m)
      BY <2>1, <3>1 DEF Owned
    <3> QED
      BY <2>2, <3>2, <3>3 DEF Progress
  <2> QED
    BY <2>1, <2>3, <2>4, <2>5, <2>6 DEF Owned
<1>2. ASSUME NEW m \in Networks, m # n
      PROVE  /\ WritersHold(json[m], m)' /\ WritersHold(tmp[m], m)'
             /\ json'[m] # Absent /\ tmp'[m] # Absent => json'[m].fds \cap tmp'[m].fds = {}
  <2>1. json'[m] = json[m] /\ tmp'[m] = tmp[m]
    BY <1>2 DEF Frame
  <2>2. ASSUME NEW u \in Tasks, pc[u] = "write", arg[u].nwid = m
        PROVE  pc'[u] = "write" /\ arg'[u].nwid = m
    BY <1>2, <2>2 DEF Frame
  <2> QED
    BY <2>1, <2>2 DEF SerialInv, Descriptors, WritersHold
<1> QED
  BY <1>1, <1>2 DEF SerialInv, Descriptors

\* A change starts: it has the files to itself when nobody was writing them.
LEMMA TouchSerial ==
  ASSUME TypeOK, SerialInv, NEW t \in Tasks, NEW n \in Networks, Frame(t, n),
         pc[t] \in {"idle", "got"}, pc'[t] \in {"open", "rmjson"}, Touch(n),
         UNCHANGED diskVars,
         pc'[t] = "open" => mem'[n] = arg'[t].net,
         pc'[t] = "rmjson" => mem'[n] = Absent
  PROVE  SerialInv'
<1>1. ASSUME alone'[n] PROVE Owned(n)'
  <2>1. ~Writing(n)
    BY <1>1 DEF Touch, TypeOK
  <2>2. ASSUME NEW u \in Tasks, Writes(u, n)' PROVE u = t
    BY <2>1, <2>2 DEF Writing, Writes, Frame
  <2>3. Writes(t, n)'
    BY DEF Writes, Frame
  <2>4. Writing(n)'
    BY <2>3 DEF Writes, Writing
  <2>5. Progress(t, n)'
    BY DEF Progress
  <2> QED
    BY <2>2, <2>4, <2>5 DEF Owned
<1>2. json' = json /\ tmp' = tmp
  BY DEF diskVars
<1>3. ASSUME NEW u \in Tasks, pc[u] = "write" PROVE pc'[u] = "write" /\ arg'[u] = arg[u]
  BY <1>3 DEF Frame
<1>4. /\ WritersHold(json[n], n)' /\ WritersHold(tmp[n], n)'
      /\ json'[n] # Absent /\ tmp'[n] # Absent => json'[n].fds \cap tmp'[n].fds = {}
  BY <1>2, <1>3 DEF SerialInv, Descriptors, WritersHold
<1> QED
  BY <1>1, <1>4, SerialFrame

LEMMA StoreSerial ==
  ASSUME TypeOK, SerialInv, NEW t \in Tasks, NEW n \in Networks, NEW r, Store(t, n, r),
         pc[t] \in {"idle", "got"}
  PROVE  SerialInv'
<1>1. Frame(t, n)
  BY DEF Store, Goto, Touch, diskVars, TypeOK, Frame
<1>2. pc'[t] = "open" /\ arg'[t].net = r /\ mem'[n] = r
  BY DEF Store, Goto, TypeOK
<1>3. Touch(n) /\ UNCHANGED diskVars
  BY DEF Store
<1> QED
  BY <1>1, <1>2, <1>3, TouchSerial

LEMMA OperationSerial ==
  ASSUME TypeOK, SerialInv, NEW t \in Tasks, NEW n \in Networks, Operation(t, n)
  PROVE  SerialInv'
<1>1. pc[t] = "idle"
  BY DEF Operation, Join, Disconnect, Connect, UpdateSettings, Get, Leave, Begin
<1>2. ASSUME NEW r, Store(t, n, r) PROVE SerialInv'
  BY <1>1, <1>2, StoreSerial
<1>3. CASE Get(t, n)
  <2>1. Frame(t, n)
    BY <1>1, <1>3 DEF Get, Goto, diskVars, historyVars, TypeOK, Frame
  <2>2. UNCHANGED <<mem, json, tmp, conf, alone>> /\ pc'[t] = "got"
    BY <1>3 DEF Get, Goto, diskVars, historyVars, TypeOK
  <2>3. \A u \in Tasks : u # t => pc'[u] = pc[u] /\ arg'[u] = arg[u]
    BY <2>1 DEF Frame
  <2>4. \A u \in Tasks : Writes(u, n)' <=> Writes(u, n)
    BY <1>1, <2>2, <2>3 DEF Writes
  <2>5. Writing(n)' <=> Writing(n)
    BY <1>1, <2>2, <2>3 DEF Writing
  <2>6. ASSUME alone'[n] PROVE Owned(n)'
    <3>1. Owned(n)
      BY <2>2, <2>6 DEF SerialInv
    <3>2. DurableAt(n)' <=> DurableAt(n)
      BY <2>2 DEF DurableAt, OnDisk
    <3>3. ASSUME NEW u \in Tasks, Writes(u, n)' PROVE Progress(u, n)'
      <4>1. u # t /\ Progress(u, n)
        BY <2>2, <2>4, <3>1, <3>3 DEF Owned, Writes
      <4> QED
        BY <2>2, <2>3, <4>1 DEF Progress
    <3> QED
      BY <2>4, <2>5, <3>1, <3>2, <3>3 DEF Owned
  <2>7. ASSUME NEW u \in Tasks, pc[u] = "write" PROVE pc'[u] = "write" /\ arg'[u] = arg[u]
    BY <1>1, <2>3, <2>7
  <2>8. /\ WritersHold(json[n], n)' /\ WritersHold(tmp[n], n)'
        /\ json'[n] # Absent /\ tmp'[n] # Absent => json'[n].fds \cap tmp'[n].fds = {}
    BY <2>2, <2>7 DEF SerialInv, Descriptors, WritersHold
  <2> QED
    BY <2>1, <2>6, <2>8, SerialFrame
<1>4. CASE Leave(t, n)
  <2>1. Frame(t, n)
    BY <1>1, <1>4 DEF Leave, Goto, Touch, diskVars, TypeOK, Frame
  <2>2. pc'[t] = "rmjson" /\ mem'[n] = Absent /\ Touch(n) /\ UNCHANGED diskVars
    BY <1>4 DEF Leave, Goto, TypeOK
  <2> QED
    BY <1>1, <2>1, <2>2, TouchSerial
<1> QED
  BY <1>2, <1>3, <1>4 DEF Operation, Join, Disconnect, Connect, UpdateSettings

\* A system call of t: t goes on writing n, or is done with it.
LEMMA OwnedStep ==
  ASSUME TypeOK, SerialInv, NEW t \in Tasks, NEW n \in Networks, Frame(t, n), Writes(t, n),
         alone[n], pc'[t] # "got",
         pc'[t] # "idle" => Progress(t, n)',
         pc'[t] = "idle" => DurableAt(n)'
  PROVE  Owned(n)'
<1>1. \A u \in Tasks : Writes(u, n) => u = t
  BY DEF SerialInv, Owned
<1>2. ASSUME NEW u \in Tasks, Writes(u, n)' PROVE u = t
  BY <1>1, <1>2 DEF Frame, Writes
<1>3. Writes(t, n)' <=> pc'[t] # "idle"
  BY DEF Frame, Writes
<1>4. pc'[t] # "idle" => Writing(n)'
  BY <1>3 DEF Writes, Writing
<1> QED
  BY <1>2, <1>3, <1>4 DEF Owned

LEMMA PersistSerial ==
  ASSUME TypeOK, SerialInv, NEW t \in Tasks, Persist(t)
  PROVE  SerialInv'
<1>1. pc[t] \in {"open", "write", "rename", "mark"}
  BY DEF Persist, OpenTmp, Truncated, WriteTmp, HasOpen, RenameTmp, MarkConf
<1>2. PICK n \in Networks : n = arg[t].nwid
  BY <1>1, ArgType
<1>3. arg[t].net \in Network /\ Writes(t, n)
  BY <1>1, <1>2, ArgType DEF Writes
<1>4. Frame(t, n)
  BY <1>2 DEF Persist, OpenTmp, Truncated, WriteTmp, HasOpen, RenameTmp, MarkConf, Return, Goto,
              historyVars, TypeOK, Frame
<1>5. \A u \in Tasks : u # t => pc'[u] = pc[u] /\ arg'[u] = arg[u]
  BY <1>4 DEF Frame
<1>6. /\ WritersHold(json[n], n) /\ WritersHold(tmp[n], n)
      /\ json[n] # Absent /\ tmp[n] # Absent => json[n].fds \cap tmp[n].fds = {}
  BY DEF SerialInv, Descriptors
<1>7. alone[n] => Progress(t, n)
  BY <1>3 DEF SerialInv, Owned
<1>8. alone'[n] = alone[n]
  BY DEF Persist, OpenTmp, WriteTmp, RenameTmp, MarkConf, historyVars
<1>9. CASE OpenTmp(t)
  <2>1. tmp'[n] = [data |-> Empty, fds |-> {t} \cup (IF tmp[n] = Absent THEN {} ELSE tmp[n].fds)]
    BY <1>2, <1>9 DEF OpenTmp, Truncated, TypeOK
  <2>2. /\ tmp'[n].data = Empty
        /\ tmp'[n].fds = {t} \cup (IF tmp[n] = Absent THEN {} ELSE tmp[n].fds)
    BY <2>1
  <2>3. tmp'[n] # Absent
    BY <2>1, StoreAssumption, <1>9 DEF TypeOK, File
  <2>4. pc[t] = "open" /\ pc'[t] = "write" /\ arg'[t] = arg[t] /\ UNCHANGED <<mem, json>>
    BY <1>9 DEF OpenTmp, Goto, TypeOK
  <2>5. alone[n] => Progress(t, n)'
    BY <1>7, <2>2, <2>3, <2>4 DEF Progress
  <2>6. json[n] # Absent => t \notin json[n].fds
    BY <1>6, <2>4 DEF WritersHold
  <2>7. WritersHold(json[n], n)'
    BY <1>5, <1>6, <2>4, <2>6 DEF WritersHold
  <2>8. WritersHold(tmp[n], n)'
    BY <1>2, <1>5, <1>6, <2>2, <2>4 DEF WritersHold
  <2>9. json'[n] # Absent => json'[n].fds \cap tmp'[n].fds = {}
    BY <1>6, <2>2, <2>4, <2>6
  <2> QED
    BY <1>3, <1>4, <1>8, <2>4, <2>5, <2>7, <2>8, <2>9, OwnedStep, SerialFrame
<1>10. CASE WriteTmp(t)
  <2>1. pc[t] = "write" /\ pc'[t] = "rename" /\ arg'[t] = arg[t] /\ UNCHANGED mem
    BY <1>10 DEF WriteTmp, Goto, TypeOK
  <2>2. CASE HasOpen(tmp[n], t)
    <3>1. PICK d \in Overwrites(tmp[n].data, arg[t].net) :
            tmp' = [tmp EXCEPT ![n] = Wrote(@, t, d)] /\ UNCHANGED json
      BY <1>2, <1>6, <1>10, <2>2 DEF WriteTmp, HasOpen
    <3>2. tmp'[n] = Wrote(tmp[n], t, d) /\ d \in Network \cup {Garbled}
      BY <1>3, <3>1 DEF TypeOK, Overwrites
    <3>3. tmp'[n].data = d /\ tmp'[n].fds = tmp[n].fds \ {t}
      BY <3>2 DEF Wrote
    <3>4. tmp[n] \in File
      BY <2>2 DEF HasOpen, TypeOK
    <3>5. tmp'[n] # Absent
      BY <3>2, <3>4, FileType, StoreAssumption
    <3>6. alone[n] => d = arg[t].net
      BY <1>7, <2>1, <3>1 DEF Progress, Overwrites
    <3>7. alone[n] => Progress(t, n)'
      BY <1>7, <2>1, <3>3, <3>5, <3>6 DEF Progress
    <3>8. json[n] # Absent => t \notin json[n].fds
      BY <1>6, <2>2 DEF HasOpen
    <3>9. WritersHold(json[n], n)'
      BY <1>5, <1>6, <3>1, <3>8 DEF WritersHold
    <3>10. WritersHold(tmp[n], n)'
      BY <1>5, <1>6, <2>2, <3>3 DEF WritersHold, HasOpen
    <3>11. json'[n] # Absent => json'[n].fds \cap tmp'[n].fds = {}
      BY <1>6, <2>2, <3>1, <3>3 DEF HasOpen
    <3> QED
      BY <1>3, <1>4, <1>8, <2>1, <3>7, <3>9, <3>10, <3>11, OwnedStep, SerialFrame
  <2>3. CASE ~HasOpen(tmp[n], t)
    <3>1. ~alone[n]
      BY <1>7, <2>1, <2>3 DEF Progress, HasOpen
    <3>2. UNCHANGED tmp
      BY <1>2, <1>10, <2>3 DEF WriteTmp
    <3>3. WritersHold(tmp[n], n)'
      BY <1>5, <1>6, <2>3, <3>2 DEF WritersHold, HasOpen
    <3>4. CASE HasOpen(json[n], t)
      <4>1. PICK d \in Overwrites(json[n].data, arg[t].net) :
              json' = [json EXCEPT ![n] = Wrote(@, t, d)]
        BY <1>2, <1>10, <2>3, <3>4 DEF WriteTmp
      <4>2. json'[n] = Wrote(json[n], t, d)
        BY <4>1 DEF TypeOK
      <4>3. json'[n].fds = json[n].fds \ {t}
        BY <4>2 DEF Wrote
      <4>4. WritersHold(json[n], n)'
        BY <1>5, <1>6, <3>4, <4>3 DEF WritersHold, HasOpen
      <4>5. tmp'[n] # Absent => json'[n].fds \cap tmp'[n].fds = {}
        BY <1>6, <3>2, <3>4, <4>3 DEF HasOpen
      <4> QED
        BY <1>3, <1>4, <1>8, <3>1, <3>3, <4>4, <4>5, SerialFrame
    <3>5. CASE ~HasOpen(json[n], t)
      <4>1. UNCHANGED json
        BY <1>2, <1>10, <2>3, <3>5 DEF WriteTmp
      <4>2. WritersHold(json[n], n)'
        BY <1>5, <1>6, <3>5, <4>1 DEF WritersHold, HasOpen
      <4> QED
        BY <1>3, <1>4, <1>6, <1>8, <3>1, <3>2, <3>3, <4>1, <4>2, SerialFrame
    <3> QED
      BY <3>4, <3>5
  <2> QED
    BY <2>2, <2>3
<1>11. CASE RenameTmp(t)
  <2>1. pc[t] = "rename" /\ pc'[t] = "mark" /\ arg'[t] = arg[t] /\ UNCHANGED mem
    BY <1>11 DEF RenameTmp, Goto, TypeOK
  <2>2. json'[n] = (IF tmp[n] = Absent THEN json[n] ELSE tmp[n]) /\ tmp'[n] = Absent
    BY <1>2, <1>11 DEF RenameTmp, TypeOK
  <2>3. alone[n] => Progress(t, n)'
    BY <1>7, <2>1, <2>2 DEF Progress
  <2>4. ASSUME NEW u \in Tasks, pc[u] = "write", arg[u].nwid = n
        PROVE  pc'[u] = "write" /\ arg'[u].nwid = n
    BY <1>5, <2>1, <2>4
  <2>5. WritersHold(json[n], n)' /\ WritersHold(tmp[n], n)'
    BY <1>6, <2>2, <2>4 DEF WritersHold
  <2> QED
    BY <1>3, <1>4, <1>8, <2>1, <2>2, <2>3, <2>5, OwnedStep, SerialFrame
<1>12. CASE MarkConf(t)
  <2>1. pc[t] = "mark" /\ pc'[t] = "idle" /\ UNCHANGED <<mem, json, tmp>>
    BY <1>12 DEF MarkConf, Return, Goto, TypeOK
  <2>2. alone[n] => DurableAt(n)'
    BY <1>3, <1>7, <2>1 DEF Progress, DurableAt, OnDisk
  <2>3. ASSUME NEW u \in Tasks, pc[u] = "write" PROVE pc'[u] = "write" /\ arg'[u] = arg[u]
    BY <1>5, <2>1, <2>3
  <2>4. WritersHold(json[n], n)' /\ WritersHold(tmp[n], n)'
    BY <1>6, <2>1, <2>3 DEF WritersHold
  <2> QED
    BY <1>3, <1>4, <1>6, <1>8, <2>1, <2>2, <2>4, OwnedStep, SerialFrame
<1> QED
  BY <1>9, <1>10, <1>11, <1>12 DEF Persist

LEMMA DeleteSerial ==
  ASSUME TypeOK, SerialInv, NEW t \in Tasks, Delete(t)
  PROVE  SerialInv'
<1>1. pc[t] \in {"rmjson", "rmconf"}
  BY DEF Delete, RemoveJson, RemoveConf
<1>2. PICK n \in Networks : n = arg[t].nwid
  BY <1>1, ArgType
<1>3. Writes(t, n)
  BY <1>1, <1>2 DEF Writes
<1>4. Frame(t, n)
  BY <1>2 DEF Delete, RemoveJson, RemoveConf, Return, Goto, historyVars, TypeOK, Frame
<1>5. alone[n] => Progress(t, n)
  BY <1>3 DEF SerialInv, Owned
<1>6. UNCHANGED <<mem, tmp>> /\ alone'[n] = alone[n]
  BY DEF Delete, RemoveJson, RemoveConf, historyVars
<1>7. json'[n] = Absent \/ json'[n] = json[n]
  BY <1>2 DEF Delete, RemoveJson, RemoveConf, TypeOK
<1>8. ASSUME NEW u \in Tasks, pc[u] = "write" PROVE pc'[u] = "write" /\ arg'[u] = arg[u]
  BY <1>1, <1>4, <1>8 DEF Frame
<1>9. /\ WritersHold(json[n], n)' /\ WritersHold(tmp[n], n)'
      /\ json'[n] # Absent /\ tmp'[n] # Absent => json'[n].fds \cap tmp'[n].fds = {}
  BY <1>6, <1>7, <1>8 DEF SerialInv, Descriptors, WritersHold
<1>10. CASE RemoveJson(t)
  <2>1. pc[t] = "rmjson" /\ pc'[t] = "rmconf" /\ arg'[t] = arg[t] /\ json'[n] = Absent
    BY <1>2, <1>10 DEF RemoveJson, Goto, TypeOK
  <2>2. alone[n] => Progress(t, n)'
    BY <1>5, <1>6, <2>1 DEF Progress
  <2> QED
    BY <1>3, <1>4, <1>6, <1>9, <2>1, <2>2, OwnedStep, SerialFrame
<1>11. CASE RemoveConf(t)
  <2>1. pc[t] = "rmconf" /\ pc'[t] = "idle" /\ conf'[n] = FALSE /\ UNCHANGED json
    BY <1>2, <1>11 DEF RemoveConf, Return, Goto, TypeOK
  <2>2. alone[n] => DurableAt(n)'
    BY <1>5, <1>6, <2>1 DEF Progress, DurableAt, OnDisk, Rebooted
  <2> QED
    BY <1>3, <1>4, <1>6, <1>9, <2>1, <2>2, OwnedStep, SerialFrame
<1> QED
  BY <1>10, <1>11 DEF Delete

\* A restart closes the files and changes nothing in them.
LEMMA RestartKeepsDisk ==
  ASSUME TypeOK, Restart, NEW n \in Networks
  PROVE  OnDisk(n)' = OnDisk(n)
<1>1. json'[n] = Closed(json[n]) /\ conf'[n] = conf[n]
  BY DEF Restart
<1>2. json[n] = Absent => json'[n] = Absent
  BY <1>1 DEF Closed
<1>3. json[n] # Absent => json'[n] # Absent /\ json'[n].data = json[n].data
  <2> SUFFICES ASSUME json[n] # Absent PROVE json'[n] # Absent /\ json'[n].data = json[n].data
    OBVIOUS
  <2>1. json[n] \in File
    BY DEF TypeOK
  <2>2. Closed(json[n]) \in File /\ Closed(json[n]).data = json[n].data
    BY <2>1 DEF Closed, File
  <2> QED
    BY <1>1, <2>2, StoreAssumption
<1> QED
  BY <1>1, <1>2, <1>3 DEF OnDisk

LEMMA RestartSerial ==
  ASSUME TypeOK, SerialInv, Restart
  PROVE  SerialInv'
<1>1. \A t \in Tasks : pc'[t] = "idle"
  BY DEF Restart
<1>2. ASSUME NEW n \in Networks PROVE Owned(n)'
  <2>1. mem'[n] = OnDisk(n)
    BY DEF Restart
  <2>2. DurableAt(n)'
    BY <2>1, RestartKeepsDisk, OnDiskRebooted DEF DurableAt
  <2> QED
    BY <1>1, <2>2 DEF Owned, Writes
<1>3. ASSUME NEW file \in File PROVE Closed(file) = Absent \/ Closed(file).fds = {}
  BY <1>3 DEF Closed, File
<1>4. Descriptors'
  BY <1>3 DEF Descriptors, WritersHold, Restart, TypeOK, Closed
<1> QED
  BY <1>2, <1>4 DEF SerialInv

LEMMA SerialInit == Init => SerialInv
BY DEF Init, SerialInv, Owned, Descriptors, WritersHold, Writes, DurableAt, OnDisk, Rebooted

LEMMA SerialStep ==
  ASSUME TypeOK, SerialInv, [Next]_storeVars
  PROVE  SerialInv'
<1>1. ASSUME NEW t \in Tasks, NEW n \in Networks, Operation(t, n) PROVE SerialInv'
  BY <1>1, OperationSerial
<1>2. ASSUME NEW t \in Tasks, Answer(t) PROVE SerialInv'
  <2>1. PICK r : UpdateNetwork(t, r)
    BY <1>2 DEF Answer
  <2>2. pc[t] = "got" /\ arg[t].nwid \in Networks
    BY <2>1, ArgType DEF UpdateNetwork
  <2> QED
    BY <2>1, <2>2, StoreSerial DEF UpdateNetwork
<1>3. ASSUME NEW t \in Tasks, Persist(t) \/ Delete(t) PROVE SerialInv'
  BY <1>3, PersistSerial, DeleteSerial
<1>4. CASE Restart
  BY <1>4, RestartSerial
<1>5. CASE UNCHANGED storeVars
  BY <1>5 DEF SerialInv, Owned, Descriptors, WritersHold, Progress, Writes, Writing, DurableAt, OnDisk,
              storeVars
<1> QED
  BY <1>1, <1>2, <1>3, <1>4, <1>5 DEF Next

(* However calls overlap and whenever the process dies, a change that no   *)
(* other change of the same network met while it was being written is on   *)
(* disk when it is done: a restart then loads exactly what the map holds   *)
(* (network.rs:193, "Save a network atomically to disk").  What earlier    *)
(* changes left behind when they met is repaired by it.                    *)
THEOREM DurableCorrect == Spec => []Durable
<1>1. SerialInv => Durable
  BY DEF SerialInv, Owned, Durable, DurableAt
<1>2. TypeOK /\ SerialInv /\ [Next]_storeVars => SerialInv'
  BY SerialStep
<1> QED
  BY <1>1, <1>2, TypeInit, TypeStep, SerialInit, PTL DEF Spec

-----------------------------------------------------------------------------
(* The table implements DurableTable *)

live == [n \in Networks |-> Rebooted(mem[n])]

saved == [n \in Networks |-> OnDisk(n)]

mode == [n \in Networks |-> Mode(n)]

\* A step of t on n changes no other entry of the abstract table.
LEMMA TableFrame ==
  ASSUME NEW t \in Tasks, NEW n \in Networks, Frame(t, n)
  PROVE  /\ live' = [live EXCEPT ![n] = Rebooted(mem'[n])]
         /\ saved' = [saved EXCEPT ![n] = OnDisk(n)']
         /\ mode' = [mode EXCEPT ![n] = Mode(n)']
<1>1. \A m \in Networks : m # n => Rebooted(mem'[m]) = Rebooted(mem[m])
  BY DEF Frame
<1>2. \A m \in Networks : m # n => OnDisk(m)' = OnDisk(m)
  BY DEF Frame, OnDisk
<1>3. ASSUME NEW m \in Networks, m # n PROVE Mode(m)' = Mode(m)
  <2>1. (Writing(m)' <=> Writing(m)) /\ alone'[m] = alone[m]
    BY <1>3, WritingFrame DEF Frame
  <2> QED
    BY <2>1 DEF Mode
<1> QED
  BY <1>1, <1>2, <1>3 DEF live, saved, mode

\* A step that starts a change of n is a Change.
LEMMA ChangeStep ==
  ASSUME TypeOK, NEW t \in Tasks, NEW n \in Networks, NEW r \in Network \cup {Absent},
         Frame(t, n), Touch(n), mem' = [mem EXCEPT ![n] = r], UNCHANGED diskVars,
         pc'[t] \notin {"idle", "got"}
  PROVE  Table!Next
<1>1. Rebooted(r) \in Network \cup {Absent} /\ mem'[n] = r
  BY RebootedType DEF Rebooted, TypeOK
<1>2. UNCHANGED saved
  BY DEF saved, OnDisk, diskVars
<1>3. Writing(n)'
  BY DEF Writing, Frame
<1>4. alone'[n] = ~Writing(n) /\ alone[n] \in BOOLEAN
  BY DEF Touch, TypeOK
<1>5. Mode(n)' = IF Mode(n) \in {"settled", "unknown"} THEN "changing" ELSE "contested"
  BY <1>3, <1>4 DEF Mode
<1>6. mode' = [mode EXCEPT ![n] = IF @ \in {"settled", "unknown"} THEN "changing" ELSE "contested"]
  BY <1>5, TableFrame DEF mode
<1>7. live' = [live EXCEPT ![n] = Rebooted(r)]
  BY <1>1, TableFrame
<1>8. Table!Change(n)
  BY <1>1, <1>2, <1>6, <1>7 DEF Table!Change, live, saved, mode
<1> QED
  BY <1>8 DEF Table!Next

\* A system call of t is a Commit, an Expose or a stutter if t has the files to itself,
\* a collision otherwise.
LEMMA WriteStep ==
  ASSUME TypeOK, SerialInv, NEW t \in Tasks, NEW n \in Networks, Frame(t, n), Writes(t, n),
         UNCHANGED mem, alone'[n] = alone[n], pc'[t] # "got", OnDisk(n)' \in Network \cup {Absent},
         alone[n] => \/ OnDisk(n)' = Rebooted(mem[n])
                     \/ OnDisk(n)' = OnDisk(n) /\ pc'[t] # "idle"
                     \/ /\ mem[n] = Absent /\ OnDisk(n) # Absent
                        /\ OnDisk(n)' = Fresh /\ pc'[t] # "idle"
  PROVE  [Table!Next]_(Table!vars)
<1>1. Writing(n) /\ alone[n] \in BOOLEAN
  BY DEF Writing, Writes, TypeOK
<1>2. pc'[t] # "idle" => Writing(n)'
  BY DEF Writing, Frame
<1>3. UNCHANGED live
  BY DEF live
<1>4. /\ saved' = [saved EXCEPT ![n] = OnDisk(n)']
      /\ mode' = [mode EXCEPT ![n] = Mode(n)']
  BY TableFrame
<1>5. CASE ~alone[n]
  <2>1. Mode(n) = "contested" /\ Mode(n)' \in {"contested", "unknown"}
    BY <1>1, <1>5 DEF Mode
  <2>2. mode' \in {mode, [mode EXCEPT ![n] = "unknown"]}
    BY <1>4, <2>1 DEF mode
  <2>3. Table!Collide(n)
    BY <1>3, <1>4, <2>1, <2>2 DEF Table!Collide, live, saved, mode
  <2> QED
    BY <2>3 DEF Table!Next
<1>6. CASE alone[n]
  <2>1. Mode(n) = "changing"
    BY <1>1, <1>6 DEF Mode
  <2>2. Mode(n)' \in {"changing", "settled"} /\ (pc'[t] # "idle" => Mode(n)' = "changing")
    BY <1>2, <1>6 DEF Mode
  <2>3. /\ mode' \in {mode, [mode EXCEPT ![n] = "settled"]}
        /\ pc'[t] # "idle" => UNCHANGED mode
    BY <1>4, <2>1, <2>2 DEF mode
  <2>4. CASE OnDisk(n)' = Rebooted(mem[n])
    <3>1. saved' = [saved EXCEPT ![n] = live[n]]
      BY <1>4, <2>4 DEF live
    <3>2. Table!Commit(n)
      BY <1>3, <2>1, <2>3, <3>1 DEF Table!Commit, live, saved, mode
    <3> QED
      BY <3>2 DEF Table!Next
  <2>5. CASE OnDisk(n)' = OnDisk(n) /\ pc'[t] # "idle"
    <3>1. UNCHANGED saved
      BY <1>4, <2>5 DEF saved
    <3> QED
      BY <1>3, <2>3, <2>5, <3>1 DEF Table!vars, live, saved, mode
  <2>6. CASE mem[n] = Absent /\ OnDisk(n) # Absent /\ OnDisk(n)' = Fresh /\ pc'[t] # "idle"
    <3>1. live[n] = Absent /\ saved[n] # Absent
      BY <2>6 DEF live, saved, Rebooted
    <3>2. Table!Expose(n)
      BY <1>3, <1>4, <2>1, <2>3, <2>6, <3>1 DEF Table!Expose, live, saved, mode
    <3> QED
      BY <3>2 DEF Table!Next
  <2> QED
    BY <1>6, <2>4, <2>5, <2>6
<1> QED
  BY <1>1, <1>5, <1>6

\* A step that leaves the map, the files and the changes in progress alone is a stutter.
LEMMA StutterStep ==
  ASSUME UNCHANGED <<mem, json, conf, alone>>, \A n \in Networks : Writing(n)' <=> Writing(n)
  PROVE  UNCHANGED Table!vars
<1>1. UNCHANGED <<live, saved>>
  BY DEF live, saved, OnDisk
<1>2. \A n \in Networks : Mode(n)' = Mode(n)
  BY DEF Mode
<1> QED
  BY <1>1, <1>2 DEF Table!vars, live, saved

LEMMA StoreImplements ==
  ASSUME TypeOK, NEW t \in Tasks, NEW n \in Networks, NEW r \in Network, Store(t, n, r),
         pc[t] \in {"idle", "got"}
  PROVE  Table!Next
<1>1. Frame(t, n)
  BY DEF Store, Goto, Touch, diskVars, TypeOK, Frame
<1>2. pc'[t] = "open" /\ mem' = [mem EXCEPT ![n] = r] /\ Touch(n) /\ UNCHANGED diskVars
  BY DEF Store, Goto, TypeOK
<1> QED
  BY <1>1, <1>2, ChangeStep

LEMMA OperationImplements ==
  ASSUME TypeOK, NEW t \in Tasks, NEW n \in Networks, Operation(t, n)
  PROVE  [Table!Next]_(Table!vars)
<1>1. pc[t] = "idle"
  BY DEF Operation, Join, Disconnect, Connect, UpdateSettings, Get, Leave, Begin
<1>2. ASSUME NEW r \in Network, Store(t, n, r) PROVE Table!Next
  BY <1>1, <1>2, StoreImplements
<1>3. mem[n] # Absent => mem[n] \in Network
  BY DEF TypeOK
<1>4. CASE Join(t, n)
  <2>1. (IF mem[n] = Absent THEN Fresh ELSE Joined(mem[n])) \in Network
    BY <1>3, FreshType, RecordType
  <2> QED
    BY <1>2, <1>4, <2>1 DEF Join
<1>5. CASE Disconnect(t, n)
  BY <1>2, <1>3, <1>5, RecordType DEF Disconnect
<1>6. CASE Connect(t, n)
  BY <1>2, <1>3, <1>6, RecordType DEF Connect
<1>7. ASSUME NEW u \in Updates, UpdateSettings(t, n, u) PROVE Table!Next
  BY <1>2, <1>3, <1>7, UpdatedType, StoreAssumption DEF UpdateSettings
<1>8. CASE Get(t, n)
  <2>1. UNCHANGED <<mem, json, conf, alone>>
    BY <1>8 DEF Get, diskVars, historyVars
  <2>2. pc'[t] = "got" /\ \A u \in Tasks : u # t => pc'[u] = pc[u] /\ arg'[u] = arg[u]
    BY <1>8 DEF Get, Goto, TypeOK
  <2>3. \A m \in Networks : Writing(m)' <=> Writing(m)
    BY <1>1, <2>2 DEF Writing
  <2> QED
    BY <2>1, <2>3, StutterStep
<1>9. CASE Leave(t, n)
  <2>1. Frame(t, n)
    BY <1>1, <1>9 DEF Leave, Goto, Touch, diskVars, TypeOK, Frame
  <2>2. pc'[t] = "rmjson" /\ mem' = [mem EXCEPT ![n] = Absent] /\ Touch(n) /\ UNCHANGED diskVars
    BY <1>9 DEF Leave, Goto, TypeOK
  <2> QED
    BY <2>1, <2>2, ChangeStep
<1> QED
  BY <1>4, <1>5, <1>6, <1>7, <1>8, <1>9 DEF Operation

LEMMA AnswerImplements ==
  ASSUME TypeOK, NEW t \in Tasks, Answer(t)
  PROVE  Table!Next
<1>1. PICK s \in {"Ok", "AccessDenied"}, ips \in SUBSET Addresses, routes \in SUBSET Targets :
        UpdateNetwork(t, [arg[t].net EXCEPT !.status = s, !.ips = ips, !.routes = routes])
  BY DEF Answer
<1>2. pc[t] = "got"
  BY <1>1 DEF UpdateNetwork
<1>3. arg[t].nwid \in Networks /\ arg[t].net \in Network
  BY <1>2, ArgType
<1>4. [arg[t].net EXCEPT !.status = s, !.ips = ips, !.routes = routes] \in Network
  BY <1>3 DEF Network, Status
<1> QED
  BY <1>1, <1>2, <1>3, <1>4, StoreImplements DEF UpdateNetwork

LEMMA PersistImplements ==
  ASSUME TypeOK, TypeOK', SerialInv, NEW t \in Tasks, Persist(t)
  PROVE  [Table!Next]_(Table!vars)
<1>1. pc[t] \in {"open", "write", "rename", "mark"}
  BY DEF Persist, OpenTmp, Truncated, WriteTmp, HasOpen, RenameTmp, MarkConf
<1>2. PICK n \in Networks : n = arg[t].nwid
  BY <1>1, ArgType
<1>3. Writes(t, n) /\ arg[t].net \in Network
  BY <1>1, <1>2, ArgType DEF Writes
<1>4. Frame(t, n)
  BY <1>2 DEF Persist, OpenTmp, Truncated, WriteTmp, HasOpen, RenameTmp, MarkConf, Return, Goto,
              historyVars, TypeOK, Frame
<1>5. UNCHANGED mem /\ alone'[n] = alone[n]
  BY DEF Persist, OpenTmp, WriteTmp, RenameTmp, MarkConf, historyVars
<1>6. OnDisk(n)' \in Network \cup {Absent}
  BY RebootedType, FreshType DEF OnDisk
<1>7. alone[n] => Progress(t, n)
  BY <1>3 DEF SerialInv, Owned
<1>8. CASE OpenTmp(t)
  <2>1. OnDisk(n)' = OnDisk(n) /\ pc'[t] = "write"
    BY <1>8 DEF OpenTmp, Goto, TypeOK, OnDisk
  <2> QED
    BY <1>3, <1>4, <1>5, <1>6, <2>1, WriteStep
<1>9. CASE WriteTmp(t)
  <2>1. pc[t] = "write" /\ pc'[t] = "rename" /\ UNCHANGED conf
    BY <1>9 DEF WriteTmp, Goto, TypeOK
  <2>2. ASSUME alone[n] PROVE UNCHANGED json
    <3>1. tmp[n] # Absent /\ t \in tmp[n].fds
      BY <1>7, <2>1, <2>2 DEF Progress
    <3>2. ~HasOpen(json[n], t)
      BY <3>1 DEF SerialInv, Descriptors, HasOpen
    <3> QED
      BY <1>2, <1>9, <3>1, <3>2 DEF WriteTmp
  <2>3. alone[n] => OnDisk(n)' = OnDisk(n)
    BY <2>1, <2>2 DEF OnDisk
  <2> QED
    BY <1>3, <1>4, <1>5, <1>6, <2>1, <2>3, WriteStep
<1>10. CASE RenameTmp(t)
  <2>1. pc[t] = "rename" /\ pc'[t] = "mark"
    BY <1>10 DEF RenameTmp, Goto, TypeOK
  <2>2. json'[n] = (IF tmp[n] = Absent THEN json[n] ELSE tmp[n])
    BY <1>2, <1>10 DEF RenameTmp, TypeOK
  <2>3. alone[n] => OnDisk(n)' = Rebooted(mem[n])
    BY <1>3, <1>7, <2>1, <2>2 DEF Progress, OnDisk
  <2> QED
    BY <1>3, <1>4, <1>5, <1>6, <2>1, <2>3, WriteStep
<1>11. CASE MarkConf(t)
  <2>1. pc[t] = "mark" /\ pc'[t] = "idle" /\ UNCHANGED json
    BY <1>11 DEF MarkConf, Return, Goto, TypeOK
  <2>2. alone[n] => OnDisk(n)' = Rebooted(mem[n])
    BY <1>3, <1>7, <2>1 DEF Progress, OnDisk
  <2> QED
    BY <1>3, <1>4, <1>5, <1>6, <2>1, <2>2, WriteStep
<1> QED
  BY <1>8, <1>9, <1>10, <1>11 DEF Persist

LEMMA DeleteImplements ==
  ASSUME TypeOK, TypeOK', SerialInv, NEW t \in Tasks, Delete(t)
  PROVE  [Table!Next]_(Table!vars)
<1>1. pc[t] \in {"rmjson", "rmconf"}
  BY DEF Delete, RemoveJson, RemoveConf
<1>2. PICK n \in Networks : n = arg[t].nwid
  BY <1>1, ArgType
<1>3. Writes(t, n)
  BY <1>1, <1>2 DEF Writes
<1>4. Frame(t, n)
  BY <1>2 DEF Delete, RemoveJson, RemoveConf, Return, Goto, historyVars, TypeOK, Frame
<1>5. UNCHANGED mem /\ alone'[n] = alone[n]
  BY DEF Delete, RemoveJson, RemoveConf, historyVars
<1>6. OnDisk(n)' \in Network \cup {Absent}
  BY RebootedType, FreshType DEF OnDisk
<1>7. alone[n] => Progress(t, n) /\ mem[n] = Absent /\ Rebooted(mem[n]) = Absent
  BY <1>1, <1>3 DEF SerialInv, Owned, Progress, Rebooted
<1>8. CASE RemoveJson(t)
  <2>1. json'[n] = Absent /\ conf'[n] = conf[n] /\ pc'[t] = "rmconf"
    BY <1>2, <1>8 DEF RemoveJson, Goto, TypeOK
  <2>2. CASE conf[n]
    <3>1. OnDisk(n)' = Fresh
      BY <2>1, <2>2 DEF OnDisk
    <3>2. OnDisk(n) # Absent
      BY <2>2, FreshType, RebootedType, StoreAssumption DEF OnDisk
    <3> QED
      BY <1>3, <1>4, <1>5, <1>6, <1>7, <2>1, <3>1, <3>2, WriteStep
  <2>3. CASE ~conf[n]
    <3>1. OnDisk(n)' = Absent
      BY <2>1, <2>3 DEF OnDisk
    <3> QED
      BY <1>3, <1>4, <1>5, <1>6, <1>7, <2>1, <3>1, WriteStep
  <2> QED
    BY <2>2, <2>3
<1>9. CASE RemoveConf(t)
  <2>1. pc[t] = "rmconf" /\ conf'[n] = FALSE /\ UNCHANGED json /\ pc'[t] = "idle"
    BY <1>2, <1>9 DEF RemoveConf, Return, Goto, TypeOK
  <2>2. alone[n] => OnDisk(n)' = Absent
    BY <1>7, <2>1 DEF Progress, OnDisk
  <2> QED
    BY <1>3, <1>4, <1>5, <1>6, <1>7, <2>1, <2>2, WriteStep
<1> QED
  BY <1>8, <1>9 DEF Delete

LEMMA RestartImplements ==
  ASSUME TypeOK, Restart
  PROVE  Table!Next
<1>1. ASSUME NEW n \in Networks PROVE Rebooted(mem'[n]) = OnDisk(n)
  BY OnDiskRebooted DEF Restart
<1>2. live' = saved /\ UNCHANGED saved
  BY <1>1, RestartKeepsDisk DEF live, saved
<1>3. \A n \in Networks : alone'[n] /\ ~Writing(n)'
  BY DEF Restart, Writing
<1>4. mode' = [n \in Networks |-> "settled"]
  BY <1>3 DEF mode, Mode
<1>5. Table!Crash
  BY <1>2, <1>4 DEF Table!Crash, live, saved, mode
<1> QED
  BY <1>5 DEF Table!Next

LEMMA StepImplements ==
  ASSUME TypeOK, TypeOK', SerialInv, [Next]_storeVars
  PROVE  [Table!Next]_(Table!vars)
<1>1. ASSUME NEW t \in Tasks, NEW n \in Networks, Operation(t, n)
      PROVE  [Table!Next]_(Table!vars)
  BY <1>1, OperationImplements
<1>2. ASSUME NEW t \in Tasks, Answer(t) \/ Persist(t) \/ Delete(t)
      PROVE  [Table!Next]_(Table!vars)
  BY <1>2, AnswerImplements, PersistImplements, DeleteImplements
<1>3. CASE Restart
  BY <1>3, RestartImplements
<1>4. CASE UNCHANGED storeVars
  <2>1. \A n \in Networks : Writing(n)' <=> Writing(n)
    BY <1>4 DEF storeVars, Writing
  <2> QED
    BY <1>4, <2>1, StutterStep DEF storeVars
<1> QED
  BY <1>1, <1>2, <1>3, <1>4 DEF Next

LEMMA InitImplements == Init => Table!Init
<1> SUFFICES ASSUME Init PROVE Table!Init
  OBVIOUS
<1>1. live = [n \in Networks |-> Absent] /\ saved = [n \in Networks |-> Absent]
  BY DEF Init, live, saved, OnDisk, Rebooted
<1>2. \A n \in Networks : alone[n] /\ ~Writing(n)
  BY DEF Init, Writing
<1>3. mode = [n \in Networks |-> "settled"]
  BY <1>2 DEF mode, Mode
<1> QED
  BY <1>1, <1>3 DEF Table!Init, live, saved, mode

(* The map and the files together behave as one durable table, whatever    *)
(* calls overlap: every operation of NetworkManager, down to its system    *)
(* calls, is a change in memory, an atomic commit of it, or invisible, and *)
(* a restart goes back to the last commit.  The exceptions are those that  *)
(* DurableTable names: a removal may pass through a default entry, and the *)
(* copy of an entry that two calls change at once may be anything until    *)
(* the next change that no other one meets.                                *)
THEOREM Refinement == Spec => ImplementsDurableTable
<1>1. TypeOK /\ TypeOK' /\ SerialInv /\ [Next]_storeVars => [Table!Next]_(Table!vars)
  BY StepImplements
<1>2. TypeOK /\ SerialInv /\ [Next]_storeVars => SerialInv'
  BY SerialStep
<1> QED
  BY <1>1, <1>2, InitImplements, TypeInit, TypeStep, SerialInit, PTL
     DEF Spec, ImplementsDurableTable, Table!Spec
=============================================================================
