---------------------------- MODULE NetworkStore ----------------------------
(***************************************************************************)
(* The client's network table (NetworkManager, src/src/network.rs): the    *)
(* map in memory behind one RwLock, and the files networks.d/<nwid>.json   *)
(* and networks.d/<nwid>.conf that a restart loads it from.                *)
(*                                                                         *)
(* Every operation changes the map inside one critical section, clones the *)
(* record, DROPS the lock and only then writes the clone to disk, through  *)
(* four system calls that may interleave with those of other tasks: open   *)
(* and truncate <nwid>.json.tmp, write it, rename it over <nwid>.json,     *)
(* write <nwid>.conf.  The temporary file's name depends on the network    *)
(* only, so two tasks that persist one network share it.                   *)
(*                                                                         *)
(* Simplifications: name, mac, mtu, token and the flags that no step reads *)
(* are left out of a record; the file system returns no error; a write of  *)
(* a small file is one system call.                                        *)
(***************************************************************************)
EXTENDS Files

CONSTANTS
  Networks,   \* network ids, well formed (16 hex digits)
  Tasks,      \* tokio tasks that call the manager
  Addresses,  \* managed addresses a controller may assign
  Targets,    \* targets of managed routes
  Updates     \* settings updates a REST client may send

VARIABLES
  mem,   \* mem[n]: the record in NetworkManager.networks, or Absent
  json,  \* json[n]: the file networks.d/n.json, or Absent
  tmp,   \* tmp[n]: the file networks.d/n.json.tmp, or Absent
  conf,  \* conf[n]: does networks.d/n.conf exist?
  pc,    \* pc[t]: where task t is inside its call
  arg,   \* arg[t]: the network and the cloned record of task t's call
  left,  \* left[n]: history: has leave() ever removed n?
  alone  \* alone[n]: history: did the last change of n have its files to itself so far?

storeVars   == <<mem, json, tmp, conf, pc, arg, left, alone>>
diskVars    == <<json, tmp, conf>>
historyVars == <<left, alone>>

Status == {"Ok", "AccessDenied", "RequestingConfiguration", "Disconnected"}

Network == [status: Status, connected: BOOLEAN, allowManaged: BOOLEAN,
            allowDefault: BOOLEAN, ips: SUBSET Addresses, routes: SUBSET Targets]

Flag == {"keep", "on", "off"}   \* Option<bool>: None, Some(true), Some(false)

SettingsUpdate == [allowManaged: Flag, allowDefault: Flag, connected: Flag]

\* A file: what it holds and the tasks that hold a descriptor they have yet to write.
File == [data: Network \cup {Empty, Garbled}, fds: SUBSET Tasks]

Steps == {"idle", "got", "open", "write", "rename", "mark", "rmjson", "rmconf"}

Call == [nwid: Networks, net: Network] \cup {Absent}

ASSUME StoreAssumption ==
  /\ Updates \subseteq SettingsUpdate
  /\ Absent \notin Network /\ Absent \notin File
  /\ Absent \notin [nwid: Networks, net: Network]
  /\ Empty \notin Network /\ Garbled \notin Network /\ Empty # Garbled

TypeOK ==
  /\ mem \in [Networks -> Network \cup {Absent}]
  /\ json \in [Networks -> File \cup {Absent}]
  /\ tmp \in [Networks -> File \cup {Absent}]
  /\ conf \in [Networks -> BOOLEAN]
  /\ pc \in [Tasks -> Steps]
  /\ arg \in [Tasks -> Call]
  /\ left \in [Networks -> BOOLEAN]
  /\ alone \in [Networks -> BOOLEAN]
  /\ \A t \in Tasks : pc[t] # "idle" => arg[t] # Absent

-----------------------------------------------------------------------------
(* Records *)

\* The record join() inserts, and load_from_disk() builds for a bare .conf.
Fresh == [status |-> "RequestingConfiguration", connected |-> TRUE,
          allowManaged |-> TRUE, allowDefault |-> FALSE, ips |-> {}, routes |-> {}]

\* Mutant: the status of a response for a network that is not there, kept in the table.
JoinedNotFound(r) ==
  [r EXCEPT !.connected = TRUE, !.status = IF @ = "Disconnected" THEN "NotFound" ELSE @]

Joined(r) == [r EXCEPT !.connected = TRUE,
                       !.status = IF @ = "Disconnected" THEN "RequestingConfiguration" ELSE @]

Disconnected(r) == [r EXCEPT !.connected = FALSE, !.status = "Disconnected"]

Connected(r) == [r EXCEPT !.connected = TRUE, !.status = "RequestingConfiguration"]

Choice(flag, old) == IF flag = "keep" THEN old ELSE flag = "on"

\* NetworkSettingsUpdate applied field by field; `connected` moves the status too.
Updated(r, u) ==
  LET s == [r EXCEPT !.allowManaged = Choice(u.allowManaged, @),
                     !.allowDefault = Choice(u.allowDefault, @)]
  IN  CASE u.connected = "keep" -> s
        [] u.connected = "on"   -> Joined(s)
        [] u.connected = "off"  -> Disconnected(s)

\* What load_from_disk() makes of a record it parsed.
Rebooted(r) ==
  IF r = Absent THEN Absent
  ELSE [r EXCEPT !.status = IF r.connected THEN "RequestingConfiguration"
                                            ELSE "Disconnected"]

-----------------------------------------------------------------------------
(* Calls *)

Busy(n) == \E t \in Tasks : pc[t] # "idle" /\ arg[t].nwid = n

\* A task has changed n in the map and is still working on its files.
Writing(n) == \E t \in Tasks : pc[t] \notin {"idle", "got"} /\ arg[t].nwid = n

\* A task begins a call at any time, whatever calls are in progress.
Begin(t) == pc[t] = "idle"

Goto(t, step) == pc' = [pc EXCEPT ![t] = step]

Return(t) == Goto(t, "idle") /\ arg' = [arg EXCEPT ![t] = Absent]

\* The map changes; the files are this task's alone unless another is writing them.
Touch(n) == alone' = [alone EXCEPT ![n] = ~Writing(n)]

\* The critical section of the operations that store a record and persist its clone.
Store(t, n, r) ==
  /\ mem' = [mem EXCEPT ![n] = r]
  /\ arg' = [arg EXCEPT ![t] = [nwid |-> n, net |-> r]]
  /\ Goto(t, "open")
  /\ Touch(n)
  /\ UNCHANGED <<diskVars, left>>

Join(t, n) ==
  /\ Begin(t)
  /\ Store(t, n, IF mem[n] = Absent THEN Fresh ELSE Joined(mem[n]))

\* Mutant: the clone that is persisted is taken before the record changes.
DisconnectCloneFirst(t, n) ==
  /\ Begin(t)
  /\ mem[n] # Absent
  /\ mem' = [mem EXCEPT ![n] = Disconnected(@)]
  /\ arg' = [arg EXCEPT ![t] = [nwid |-> n, net |-> mem[n]]]
  /\ Goto(t, "open")
  /\ Touch(n)
  /\ UNCHANGED <<diskVars, left>>

Disconnect(t, n) ==
  /\ Begin(t)
  /\ mem[n] # Absent
  /\ Store(t, n, Disconnected(mem[n]))

Connect(t, n) ==
  /\ Begin(t)
  /\ mem[n] # Absent
  /\ Store(t, n, Connected(mem[n]))

UpdateSettings(t, n, u) ==
  /\ Begin(t)
  /\ mem[n] # Absent
  /\ Store(t, n, Updated(mem[n], u))

\* get(): a clone of the record, which update_network() may later store back.
Get(t, n) ==
  /\ Begin(t)
  /\ mem[n] # Absent
  /\ arg' = [arg EXCEPT ![t] = [nwid |-> n, net |-> mem[n]]]
  /\ Goto(t, "got")
  /\ UNCHANGED <<mem, diskVars, historyVars>>

\* update_network(): a blind insert, whatever the map holds by now.
UpdateNetwork(t, r) ==
  /\ pc[t] = "got"
  /\ Store(t, arg[t].nwid, r)

\* leave(): remove from the map; the files go once the lock is dropped.
Leave(t, n) ==
  /\ Begin(t)
  /\ mem[n] # Absent
  /\ mem' = [mem EXCEPT ![n] = Absent]
  /\ arg' = [arg EXCEPT ![t] = [nwid |-> n, net |-> mem[n]]]
  /\ left' = [left EXCEPT ![n] = TRUE]
  /\ Goto(t, "rmjson")
  /\ Touch(n)
  /\ UNCHANGED diskVars

-----------------------------------------------------------------------------
(* persist_network_to_disk(), one action per system call *)

\* Mutant: the record is written in place, without a temporary file.
OpenInPlace(t) ==
  LET n == arg[t].nwid IN
  /\ pc[t] = "open"
  /\ json' = [json EXCEPT ![n] = Truncated(@, t)]
  /\ Goto(t, "write")
  /\ UNCHANGED <<mem, tmp, conf, arg, historyVars>>

\* An existing .tmp file is reused, other descriptors included.
OpenTmp(t) ==
  LET n == arg[t].nwid IN
  /\ pc[t] = "open"
  /\ tmp' = [tmp EXCEPT ![n] = Truncated(@, t)]
  /\ Goto(t, "write")
  /\ UNCHANGED <<mem, json, conf, arg, historyVars>>

\* The descriptor follows the file: it may have been renamed to .json by another task, or replaced there.
WriteTmp(t) ==
  LET n == arg[t].nwid
      r == arg[t].net
  IN
  /\ pc[t] = "write"
  /\ \/ /\ HasOpen(tmp[n], t)
        /\ \E d \in Overwrites(tmp[n].data, r) : tmp' = [tmp EXCEPT ![n] = Wrote(@, t, d)]
        /\ UNCHANGED json
     \/ /\ HasOpen(json[n], t)
        /\ \E d \in Overwrites(json[n].data, r) : json' = [json EXCEPT ![n] = Wrote(@, t, d)]
        /\ UNCHANGED tmp
     \/ /\ ~HasOpen(tmp[n], t) /\ ~HasOpen(json[n], t)
        /\ UNCHANGED <<tmp, json>>
  /\ Goto(t, "rename")
  /\ UNCHANGED <<mem, conf, arg, historyVars>>

\* rename(): fails, and the failure is ignored, when another task renamed the file first.
RenameTmp(t) ==
  LET n == arg[t].nwid IN
  /\ pc[t] = "rename"
  /\ json' = [json EXCEPT ![n] = IF tmp[n] = Absent THEN @ ELSE tmp[n]]
  /\ tmp' = [tmp EXCEPT ![n] = Absent]
  /\ Goto(t, "mark")
  /\ UNCHANGED <<mem, conf, arg, historyVars>>

\* Mutant: only the .json file is written.
MarkNothing(t) ==
  /\ pc[t] = "mark"
  /\ Return(t)
  /\ UNCHANGED <<mem, json, tmp, conf, historyVars>>

MarkConf(t) ==
  /\ pc[t] = "mark"
  /\ conf' = [conf EXCEPT ![arg[t].nwid] = TRUE]
  /\ Return(t)
  /\ UNCHANGED <<mem, json, tmp, historyVars>>

Persist(t) == OpenTmp(t) \/ WriteTmp(t) \/ RenameTmp(t) \/ MarkConf(t)

(* delete_network_from_disk() *)

RemoveJson(t) ==
  /\ pc[t] = "rmjson"
  /\ json' = [json EXCEPT ![arg[t].nwid] = Absent]
  /\ Goto(t, "rmconf")
  /\ UNCHANGED <<mem, tmp, conf, arg, historyVars>>

RemoveConf(t) ==
  /\ pc[t] = "rmconf"
  /\ conf' = [conf EXCEPT ![arg[t].nwid] = FALSE]
  /\ Return(t)
  /\ UNCHANGED <<mem, json, tmp, historyVars>>

Delete(t) == RemoveJson(t) \/ RemoveConf(t)

-----------------------------------------------------------------------------
(* Restart *)

\* What load_from_disk() would put in the map for n now: .json first, a bare .conf second.
OnDisk(n) ==
  IF json[n] # Absent /\ json[n].data \in Network THEN Rebooted(json[n].data)
  ELSE IF conf[n] THEN Fresh ELSE Absent

\* The process dies at any point and the next one loads the directory.
Restart ==
  /\ mem' = [n \in Networks |-> OnDisk(n)]
  /\ json' = [n \in Networks |-> Closed(json[n])]
  /\ tmp' = [n \in Networks |-> Closed(tmp[n])]
  /\ pc' = [t \in Tasks |-> "idle"]
  /\ arg' = [t \in Tasks |-> Absent]
  /\ alone' = [n \in Networks |-> TRUE]
  /\ UNCHANGED <<conf, left>>

-----------------------------------------------------------------------------

Init ==
  /\ mem = [n \in Networks |-> Absent]
  /\ json = [n \in Networks |-> Absent]
  /\ tmp = [n \in Networks |-> Absent]
  /\ conf = [n \in Networks |-> FALSE]
  /\ pc = [t \in Tasks |-> "idle"]
  /\ arg = [t \in Tasks |-> Absent]
  /\ left = [n \in Networks |-> FALSE]
  /\ alone = [n \in Networks |-> TRUE]

\* Callers of update_network() store back the clone with the controller's verdict in it.
Answer(t) ==
  \E s \in {"Ok", "AccessDenied"}, ips \in SUBSET Addresses, routes \in SUBSET Targets :
     UpdateNetwork(t, [arg[t].net EXCEPT !.status = s, !.ips = ips, !.routes = routes])

Operation(t, n) ==
  \/ Join(t, n)
  \/ Disconnect(t, n)
  \/ Connect(t, n)
  \/ \E u \in Updates : UpdateSettings(t, n, u)
  \/ Get(t, n)
  \/ Leave(t, n)

Next ==
  \/ \E t \in Tasks, n \in Networks : Operation(t, n)
  \/ \E t \in Tasks : Answer(t) \/ Persist(t) \/ Delete(t)
  \/ Restart

Spec == Init /\ [][Next]_storeVars

-----------------------------------------------------------------------------
(* Properties *)

(* network.rs:193, "Save a network atomically to disk": once the last      *)
(* change of a network is written, a restart loads what the map holds,     *)
(* flags, addresses and the user's connection intent included, unless      *)
(* another call changed that network while the change was being written.   *)
(* Whatever earlier calls did to its files, .tmp and garbled .json         *)
(* included, one change that is written undisturbed repairs them.          *)
Durable == \A n \in Networks : ~Writing(n) /\ alone[n] => OnDisk(n) = Rebooted(mem[n])

(* A network that was joined and never left survives a restart at any time *)
(* no call on it is in progress, however its calls overlapped: garbled     *)
(* .json files included, since the .conf marker is written last and only   *)
(* leave() removes it.                                                     *)
MembershipSurvives ==
  \A n \in Networks :
     mem[n] # Absent /\ ~left[n] /\ ~Busy(n) => OnDisk(n) # Absent

\* How far the files of n can be trusted.
Mode(n) ==
  CASE Writing(n) /\ alone[n]   -> "changing"
    [] Writing(n) /\ ~alone[n]  -> "contested"
    [] ~Writing(n) /\ alone[n]  -> "settled"
    [] ~Writing(n) /\ ~alone[n] -> "unknown"

(* Each step changes what a restart would load for a network to what the   *)
(* map holds, all at once, and a crash loses only the change in progress;  *)
(* anything else happens only to a network that two calls change at once.  *)
Table == INSTANCE DurableTable WITH
           Keys <- Networks, Values <- Network, None <- Absent, Default <- Fresh,
           live <- [n \in Networks |-> Rebooted(mem[n])],
           saved <- [n \in Networks |-> OnDisk(n)],
           mode <- [n \in Networks |-> Mode(n)]

ImplementsDurableTable == Table!Spec
=============================================================================
