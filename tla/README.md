# Formal models of zgalaxy-rs

TLA+ modules, TLC configurations and TLAPS proofs for the daemon `zgalaxy-rs`:
a virtual network node that joins networks, takes their configuration from a
controller, and may itself be the controller of networks.  Line numbers refer to
the files of the repository; `network.rs` is `src/network.rs`, and so on.

Run a model with `tlc -config <run>.cfg <MC module>`, check proofs with
`tlapm <module>.tla`.

## 1. Inventory

| Component | State it keeps | Operations | Interacts through |
|---|---|---|---|
| Client network table (`network.rs`) | map of networks behind one `RwLock`; `networks.d/<nwid>.json`, `.conf` | join, connect, disconnect, update_settings, get, update_network, leave, load | called by REST handlers, both receive loops, boot |
| REST plane (`controller_api.rs`) | none | `/network` (client), `/controller/...` (administration), `/domains` | calls the table, the controller, the resolver; runs interface commands |
| QUIC event loop and sync loop (`main.rs`) | locals of the event being handled | answers, requests, announce/challenge/proof, ping; polling every 0.5 or 3 s | QUIC sessions, table, controller, interface, L2 switch |
| UDP receive and sync loop (`transport.rs`, `main.rs`) | none | answers, requests; polling every 3 s; join trigger | table, controller |
| Interface commands (`route_manager.rs`, `tun.rs`) | addresses and routes of `zgalaxy0` | add/remove address, add/remove route | called by the handlers and boot recovery |
| Embedded controller (`controller.rs`) | map of networks, map of members, one lock each; `controller.d/` | save/delete network, save/delete member, join request, served member, tokens | REST plane; QUIC and UDP receive loops |
| QUIC sessions (`quic.rs`) | connection, announced address, challenge, accepted mark per remote | accept, dial, replace, announce, challenge, prove | event loop, sync loop, data plane |
| L2 switch and data plane (`l2_switch.rs`, `main.rs`) | learned MAC table; takes the lock of the session map | learn, resolve, evict, send, flood | sessions, TAP device |
| Root resolver (`resolver.rs`) | domains, resolved addresses, `domains.json` | load, add, remove, periodic and requested check | sync loop's dial targets, REST plane |
| Asset sync (`sync_provider.rs`) | planet and moon files, staging files, backups; ETag in memory | fetch manifest, compare, download, verify, stage, back up, swap, roll back | the provider, the directory, peer table |
| Peers and NAT (`peer.rs`, `nat.rs`) | paths per peer | update, probe | dial targets |
| Identity, crypto, world, packet | none | pure functions | everywhere |
| Configuration, CLI, UI | none of their own | read `local.conf`; one REST call per command; poll and show | REST plane |

What is hard here is concurrency around short critical sections.  Almost every
operation locks a map, clones a record, unlocks, awaits, and goes on with the
clone.  Three tasks change the client's table (REST, QUIC, UDP), and two of them
change the interface; REST requests and both receive loops call the controller.
On top of that come crashes between system calls, messages that are lost, late or
reordered, and a configuration applied as a difference against the one before.
The sessions add that everything a node knows is keyed by the address of the
remote, not by connection, while the tasks that change it belong to connections.

What makes the components correct:

* *Table*: the files between calls are the map; a crash leaves the old or the new
  record; membership and the user's connection intent are never lost.
* *Client daemon*: the interface carries exactly the configuration of authorized
  networks; only the user joins, leaves, connects; a configuration that stays
  granted arrives.
* *Controller*: addresses are unique; the files are the maps; nobody is
  authorized whom nobody admitted; calls return.
* *Sessions*: one live session per remote, read unless its dial was cut short; a node is known by an
  address only after it signed an outstanding challenge; an authorized client is
  served again after whatever went wrong.
* *Tokens*: a member that is authorized gets its configuration again and again, with
  a token that goes with it.
* *Data plane*: every frame goes out in the end, whatever sessions come and go.
* *Resolver*: no address of a removed domain is used; the last good address of a
  registered one is; the file is the list; a new address arrives.
* *Asset sync*: a file is the old or the new version, never half of it; a kept ETag
  means what it says; failures are repaired.

`PROJECT.json` lists the hazards one by one, each at its line.

## 2. Modules

```
Files                       a small file that tokio::fs::write replaces
 |- NetworkStore            the client's table and its files
 |   |- (INSTANCE) DurableTable     what it promises
 |   |- NetworkStoreProofs
 |   `- ClientDaemon        handlers, polling, boot, interface over NetworkStore
 |       `- ClientDaemonProofs
 |- Controller              the embedded controller
 |   `- ControllerProofs
 `- RootResolver            domains, their addresses, domains.json
     `- RootResolverProofs
QuicSessions                sessions, challenge and proof, requests and tokens
 |- (INSTANCE) ChallengeResponse    what the announce protocol promises
 `- QuicSessionsProofs
DataPlane                   learning switch, outbound task, lock of the session map
 `- DataPlaneProofs
AssetSync                   planet and moons from the provider's manifest
 `- AssetSyncProofs
MC<module>                  instances for TLC
```

**Files.**  `open(O_CREAT|O_TRUNC)` and one `write` are two steps.  A file keeps
the set of tasks that hold a descriptor they have not written yet; a write over
other content may leave a garbled tail; a descriptor follows its file through a
rename.

**NetworkStore** (`network.rs`).  `mem` is the map, `json`, `tmp`, `conf` the
files, `pc` and `arg` the call each task is in and the clone it took.  The critical
section of an operation is one action (`Join`, `Disconnect`, `Connect`,
`UpdateSettings`, `Get`, `UpdateNetwork`, `Leave`), and each system call of
`persist_network_to_disk` and `delete_network_from_disk` is one more (`OpenTmp`,
`WriteTmp`, `RenameTmp`, `MarkConf`, `RemoveJson`, `RemoveConf`).  `Restart` may
happen at any point and loads the directory as `load_from_disk` does.  Nothing in
`NetworkManager` keeps two callers from being in calls on one network at once, and
nothing in the module does; the history variable `alone` says whether the last change
of a network had its files to itself.

**DurableTable** is the abstract specification: a table and the copy a restart
brings back; changes are committed at once, a crash loses the change in progress;
a removal may pass through a default entry (the bare `.conf` that
`delete_network_from_disk` leaves between its two removals).  `mode` says how far the
copy of an entry can be trusted: two changes at once may leave anything in it, until
the next change that has it for itself.

**ClientDaemon** (`main.rs`, `controller_api.rs`, `transport.rs`) composes the
table with everything that drives it.  `hand[t]` is what a handler goes on with
after its call on the table: `QuicReceive`, `QuicApply`, `QuicReconcile` are the
three parts of the answer handler (main.rs:629-757) between which it holds no
lock; `UdpReceive`, `UdpApply` those of transport.rs:179-208; `PostDisconnect`,
`TearDown`, `PostJoin`, `PostJoinCall`, `PostJoined` and `DeleteNetwork`,
`PreDisconnect`, `Release`, `LeaveCall` those of the REST handlers.  A call on the
table is the table's own actions, not an abstraction of them.  `WithAddresses`,
`WithoutAddresses`, `WithRoutes` and `WithoutRoutes` are the commands of
route_manager.rs, `Assigned`, `Removed` and `Allowed` their arguments, prefix lengths
included; `Reconciled` and `TornDown` are what the handlers do with them.  The
controller of a network is a current decision per network (`config`) that an
administrator may change at any time; requests and answers are sets, so they may be
lost, late and reordered.

**Controller** (`controller.rs`).  `nets` and `members` are the maps, `netFile`,
`memFile`, `dir` the directory, `netLock` and `memLock` the locks across the steps
during which a call keeps them.  `save_member` is `SaveMember`, `AssignMember`,
`MakeDir`, `OpenMember`, `FillMember`, `InsertMember`; `register_join_request` is
`Join`, `JoinKnown`, `JoinRecord` and the same steps from there on; `save_network`
is `SaveNetwork` or `CreateNetwork`, `MergeNetwork`, `RecheckId`, then
`OpenNetwork`, `FillNetwork`, `InsertNetwork`, `PruneMembers`, `PruneOpen`,
`PruneFill`; `delete_network` and `delete_member` hold their lock through
`RemoveNetFile`, `RemoveDir`, `RemoveMembers` and `RemoveMember`.  Addresses:
`FirstFree` is the choice from a range, `DerivedIps` the addresses that are
functions of network and member, `AutoAssigned` and `Pruned` the two places that
apply the modes of a network, `Served` what is put in an answer.

**QuicSessions** (`quic.rs`, the event loop of `main.rs`, the token part of
`controller.rs`).  `peers[x][y]` is x's entry of the session map for y, `readers`
the connections whose reader tasks run at x, `up[c]` the sides that have neither
closed nor lost c, `fresh[c]` the sides that finished the handshake and have yet to
run `activate()`.  `Dial` is the handshake under `connect_lock`.  `activate()` awaits
between the map and the readers, and is two steps: `Take` replaces the entry and
closes the old connection, `Activate` announces and starts the readers; `starting[x]`
are the connections in between.  `Cancel` is the 5 s timeout around `connect()`
(main.rs:1027), which may cut a dial short in between and leave a session in the map
that nobody reads (`unread[x]`).  `ReaderEnds` is the end of the
reader, which compares the entry but not the announced address.  `HandleAnnounce`,
`HandleChallenge`, `HandleProof`, `HandleRequest`, `HandleResponse` are the branches
of the event loop; a reply goes on the session of the moment (`Answer`), or the loop
waits in `loop[x]` for a dial (`LoopSend`, `LoopFail`).  `Poll` is the sync loop,
`Expire` the token's end, `Administer` the administrator.  `Fail`, `Lose`, `Restart`
are the faults.  `proved` is a history variable: who signed a challenge while it was
outstanding.

**ChallengeResponse** is the abstract specification of the announce protocol, with no
connections, messages or event loop: a node challenges, a remote signs, an answer that
is under way is accepted or lost, and acceptance uses the challenge up.  The mapping
takes for outstanding the remotes with an entry in `pending` (`Outstanding`), for
signed those of them whose proof for that very nonce is under way or waits in an event
loop for its dial (`SignedOutstanding`), for known `announced`.  A proof for an older
nonce is thus nothing at all in the abstract specification, and may not be accepted.

**DataPlane** (`l2_switch.rs`, `quic.rs`, `main.rs`).  `queue` is the lock of the
session map with its waiters in order: a task asks, is granted, goes on.  The
outbound task resolves the destination of a frame, and either sends it to one
session or floods with the guard held; sessions ask for the write guard to begin
and to end, and the event loop looks a lost session up to evict what it had taught.
The prober, the sync loop and the REST calls are left out: each takes one guard for
one lookup, as a unicast does.

**RootResolver** (`resolver.rs`).  `endpoints` and `resolved` are the two maps,
`file` is `domains.json`, `dns` what a lookup returns now.  `job[t]` is the call a
task is in: `Check` takes the snapshot, `Lookup` awaits DNS, `Store` writes the
answer; `Add` and `Remove` change the list, `Cleanup` drops the address,
`ListDomains`, `OpenFile`, `WriteFile` persist.  `Boot` is `load_sources`.

**AssetSync** (`sync_provider.rs`).  `target`, `staged`, `backup` are the files of
each asset, `cycle` the cycle in progress with its stage.  `FetchManifest` or
`NotModified`, then for each asset `Compare`, `Download` or `Mismatch`,
`OpenStaged`, `FillStaged`, `OpenBackup`, `CopyBackup`, `Swap`; `stale` says that a
cycle has begun since the ETag was kept; a failure of the
planet leads to `OpenPlanet`, `RestorePlanet`.  `Fail`, `CompareFails`, `BackupFails`,
`RollbackFails` are the errors that calls return, `Crash` may come between any two.

## 3. Runs

| Run | Module | What it shows | Instance |
|---|---|---|---|
| DaemonSerial | ClientDaemon | `InterfaceMatches`, `EventuallyConfigured` | 1 network, 3 decisions, QUIC, message loss, no overlap, no restart, fairness |
| DaemonOverlap | ClientDaemon, NetworkStore | implements NetworkStore (`Spec`) and `DurableTable`; `Durable`, `MembershipSurvives`, `OnlyUsersDecide` | 1 network, 1 decision, UDP, a REST request, overlap, restarts |
| ControllerSerial | Controller | `AddressesUnique`, `FilesMatch` | 2 members, 2 IPv4, colliding IPv6 probes, 4 payloads, 3 set-ups |
| ControllerOverlap | Controller | `OnlyGranted`, `HoldersGoOn`, `CallsReturn` | 2 tasks that overlap, crashes, fairness |
| Sessions | QuicSessions | `ActiveSession`, `AnnouncedIsProven`, `EventuallyServed`; implements `ChallengeResponse` | client behind a NAT, its controller, 2 connections, faults, dials cut short, fairness |
| Resolver | RootResolver | `GhostsRaced`, `FileMatches`, `KeepsLastKnownGood`, `EventuallyResolved` | 1 domain, 2 answers, the worker, 2 REST callers that overlap, restarts, fairness |
| Assets | AssetSync | `OnlyRollbackTears`, `TagMeansSynced`, `EventuallySynced` | planet and 1 moon, 3 releases in any order, failures, crashes, fairness |
| DataPlane | DataPlane | type invariant; `OnlyFloodsHoldAndWait`, `FloodSeesOneMap` | 2 remotes, one of which reconnects, 1 address, every order of lock requests |
| ControllerServed | Controller | finding: two members served one address | no overlap |
| SessionLateReader | QuicSessions | finding: a late reader erases a proven announce | as Sessions, `LateReaders` |
| LostAreForgotten | DataPlane | finding: the end of a session evicts no address | as DataPlane |
| FloodDeadlock | DataPlane | finding: flooding deadlocks with a writer | as DataPlane, fairness |

The last four are expected to be violated; `PROJECT.json` quotes the documentation
each of them disagrees with.

**Conditions.**  Several properties hold under a condition that the program does
not enforce.  Each is a constant of the configuration, and TLC finds the violation
when it is changed:

| Change | In | What fails, and how |
|---|---|---|
| `Transports = {"quic", "udp"}` | DaemonSerial | `InterfaceMatches`, `EventuallyConfigured`: UDP stores an answer first, so that QUIC sees no difference to configure (main.rs:688, 700) |
| `LanLen` of 16 | DaemonSerial | `InterfaceMatches`: assigned with /16, removed with /24 (route_manager.rs:166) |
| `Overlap = TRUE` | DaemonSerial | `InterfaceMatches`, `EventuallyConfigured`: a disconnect tears down after an answer configured (controller_api.rs:221); one configuration is enough |
| `MayRestart = TRUE`, or other `Updates` | DaemonSerial | `InterfaceMatches`: the table outlives the interface; flags that change move nothing (main.rs:679) |
| `Overlap = TRUE` | ControllerSerial | `AddressesUnique`: two members choose one address before either stores it (controller.rs:489) |
| `MayCrash = TRUE` | ControllerSerial | `AddressesUnique`: a crash while the file of a network is written hides its members (controller.rs:184-210, 326); another member is given an address of theirs, and the next restart brings them back, although MATRIX.md:56 promises a restart "without data loss" |
| `LateReaders = TRUE` | Sessions | `EventuallyServed`: the run SessionLateReader |

The remaining exceptions are in the properties themselves, which then hold without a
condition.  `Durable`, `ImplementsDurableTable` and `FileMatches` say nothing of what two
changes at once leave behind; they do say that the next change which no other one
meets repairs it.  `OnlyUsersDecide` excepts a handler that stores back a clone which a
user's call has overtaken (main.rs:675, transport.rs:202): a network that the user left
returns that way.  `TagMeansSynced` speaks of the time until the next cycle begins, and
`EventuallySynced` excepts a provider that returns to the release of the ETag after a
cycle for another one began.  `InterfaceMatches` excepts a disconnected network whose
record took a late answer, `ActiveSession` and `EventuallyServed` the session of a dial
that was cut short.

Three statements of comments are in the modules and are no property of a run; each is
violated as soon as it is added to the configuration:

| Statement | Add to | What TLC shows |
|---|---|---|
| `RollbackKeepsGood` (sync_provider.rs:405, "last known good backup") | Assets | release 2 replaces release 1, the download of release 3 fails, and the rollback puts the planet of release 1 in the place of the good one |
| `DisconnectedIsDown` (controller_api.rs:216-218, "cleanly tear down routes and interface IPs") | DaemonSerial | an answer is under way, the user disconnects, the handler stores the answer and configures the interface again (main.rs:643-741 never asks for `connected`) |
| `NeverBlackholed` (quic.rs:284-285, 499-501, "inbound traffic can never be blackholed") | Sessions | the timeout of a request (main.rs:1027) cuts `activate()` short after the insert: the session in the map has no reader |

**Bounds.**  Networks are independent in both stores (a record, its files and its
members are touched by calls on that network only), so one network is enough for
the state properties; two networks share only the interface, where the model
assumes disjoint configurations, and the id space of `CreateNetwork`, whose race
is not among the properties yet.  Two tasks are enough for every race listed: each
one is a read of one task that another task's write makes stale; the daemon has
three (QUIC, UDP, one REST request).  Two members and two addresses let one run out
of addresses and the other keep one.  The decisions of `DaemonSerial` are chosen to
reach every branch of the reconciliation: readdressing, a route added and dropped,
a default route that is not allowed, a refusal that keeps the address.
`MayRestart` and `MayCrash` switch crashes on; they are not counted, so a run with
them on has any number of them.  Requests, answers and files need no bound: they
are sets over finite records.  Runs with restarts or overlap use the smaller
payloads to stay within minutes.

In `QuicSessions` two connections at a time are what a replacement needs: the
session that is replaced and the one that replaces it; an id is used again once
nothing refers to it, so that a run has any number of connections, and its nonce is
forgotten with it.  `Dialable = {srv}` puts the client behind a NAT;
`Verifiers = {srv}` leaves out the challenges of the client to its controller, which
the configuration requests do not depend on.  A client has one membership request
under way at a time.  `Fail` hits established connections only: a handshake that
fails is a dial that does not happen.  With `MayRemove = FALSE` the administrator
admits a member at any time, and removes none.  The proofs have none of these bounds
but those on requests and on failing handshakes.

In `DataPlane` three connections of two remotes let one remote be replaced while a flood goes to both; a connection is used once, so that the run is finite, and
one unicast address and the group are all that resolving tells apart; the run without
fairness allows every order in which tasks come to the lock.  In `Resolver` one
domain, which is the default that a restart brings back, is what two callers need to add and remove in each other's way;
two answers let DNS drift between a lookup and its result.  In `Assets` the second release
changes both files and the third only the planet: a cycle may replace one file and fail
at the other, and a rollback has a release before the last one to go back to; the
provider goes from any release to any other.

**Simplifications** (also in the module headers):

* records keep what a step reads: names, MAC, MTU, timestamps, revisions and the
  flags that nothing reads are left out;
* the file system returns no error, except in `AssetSync`; a small write is one
  system call;
* the interface commands of one handler are one step; on a kernel they succeed or
  have no effect; the lengths are those of Linux, where removal needs an exact match;
* `auto_assign_ips_for_member` reads the network and the members in one step (the
  race that matters is between that read and the later insert);
* `remove_dir_all` is one step; its directory cannot be recreated half way;
* payloads are valid: a call that is rejected at once changes nothing;
* the assignment pools are fixed for an instance (`V4Pool`, `V6Probes`), while the
  modes of a network change;
* `touch_member_last_seen` writes only timestamps and a path, and is not modelled;
* `auto_join_networks` of `local.conf` is empty;
* a node has one socket address; its nonces are the connections it announces on, as
  a side announces once per connection; a signature is its nonce and its signer;
* `activate()` is two steps in `QuicSessions` and the end of a reader is one, and both
  take the lock step by step in `DataPlane`; `await_accepted` only delays;
* a token is none, valid or expired; it expires while no request is under way;
* a DNS answer is the whole list of addresses of a domain, a release is its manifest
  and the files that pass its checksums.

**Expired tokens.**  `EventuallyServed` asks that the token does not expire while
the client is disturbed.  Without that premise it is false, as written in
controller.rs and main.rs:581-628: a member whose token expired presents it, is
refused without an answer, and drops a token only on an answer.  It is served again
when a restart, a leave and join, or an administrator changes what it presents or
how it is judged.  No document promises otherwise, so it is not among the findings.

## 4. Fairness

*DaemonSerial.*  The tokio runtime runs a task that can take a step, hence weak
fairness of table calls, handlers and reconciliation.  `quic-sync-loop` is an
endless loop under `spawn_watched` (main.rs:935-1079), hence weak fairness of
`Poll`.  The network may lose any message but not all of those that are sent again
and again, hence strong fairness of serving one request and of receiving one
answer.  Nothing is assumed of users, administrators or restarts: the property
speaks of behaviours in which they eventually leave the network alone.

*ControllerOverlap.*  Strong fairness of each task's step: tokio's `RwLock` queues
its waiters, so that a task that waits for a lock again and again gets it.  Drawing
a network id a second time (controller.rs:308-314) ends only with probability one,
so `CallsReturn` leaves that step out.

*Sessions, SessionLateReader.*  Weak fairness of the accept and reader tasks
(`Take`, `Activate`, `ReaderEnds`), of the event loop's pending reply, of the sync loop's
dials and requests (it retries every 0.5 to 3 s), and of handling events, one
condition for membership messages and one for the others: the event channel is a
queue, so that neither kind starves the other.  Faults, administrators and dials of
the other side promise nothing.  The finding needs this: without fairness the
client might simply never ask.

*Resolver.*  Weak fairness of each task's next step, and of the worker's check,
whose loop never ends (resolver.rs).  *Assets.*  Weak fairness of the cycle: the
worker's loop (main.rs:299-305) begins another one for ever.

*FloodDeadlock.*  Weak fairness of granting the lock to the head of the queue, of
the outbound task, the event loop and every session: all that run do run, and the
frame that is being flooded still never gets out.

## 5. Proofs

All theorems hold for every value of the constants that satisfies the assumptions
of the modules (`StoreAssumption`, `DaemonAssumption`, `ControllerAssumption`,
`SessionAssumption`, `DataPlaneAssumption`, `ResolverAssumption`, `AssetAssumption`):
types, that configurations of two networks are disjoint, and that the special values `Absent`, `Empty`, `Garbled`, `Torn` are no records.

* **TypeCorrect**, **DaemonTypeCorrect**, **ControllerTypeCorrect**,
  **SessionsTypeCorrect**, **DataPlaneTypeCorrect**, **ResolverTypeCorrect**,
  **AssetsTypeCorrect**: the type invariants.  The controller's needs control in it:
  `TypeInv` adds what a call holds at each step (`Well`: a member at the member's steps, a configuration at
  the network's) and which task holds which lock (`Locked`); the resolver's adds
  that a task that is about to write `domains.json` has created it; the data plane's
  what each task holds of the lock, since a guard that is dropped must be there.
* **MembershipCorrect**: `MembershipSurvives` under every overlap.  The invariant
  `MembershipInv` says, for a network never left, that its `.conf` exists, or its
  `.json` parses, or a task is on its way to writing them; and that a task at
  `rmjson` or `rmconf` is one that left its network.  It needs nothing about the
  shared `.tmp` file, which may hold anything.
* **DurableCorrect**: `SerialInv` says who holds descriptors, and, for a network that is
  `alone`, that at most one task writes it (`Owned`), and for each step of `persist` and
  `delete` what the files hold by then (`Progress`); of a network whose changes met it
  says nothing until a change begins that finds nobody writing.
* **Refinement**: from `SerialInv`, the rename of a change that is alone is the commit,
  every other step of its `persist` is invisible, and the first removal of `delete` is
  the exposure of a default entry; the steps of changes that met are `Collide`.
* **DaemonImplementsStore**: every step of the daemon is a step of NetworkStore or
  leaves the table alone.  The two that are not immediate are `QuicApply` and
  `UdpApply`, whose record must be the clone with a verdict in it: `DaemonInv` says
  so of every handler at that stage.  **DaemonKeepsMembership** and **DaemonIsDurable**
  follow by composition, for every overlap.
* **ControllersDoNotDecide**: `OnlyUsersDecide`, for every overlap and restart.  A handler
  that stores its clone either stores back what is still the record in the map, with a
  verdict in it, or is the exception that the property names.
* **OnlyGrantedCorrect**: `OnlyGranted` under every overlap and crash.  `GrantInv`
  extends it to every place a record may be on its way: the locals of calls and the
  contents of files, those of networks that are not loaded included.
* **HoldersGoOnCorrect**: `HoldersGoOn` under every overlap and crash, for any number
  of calls.  `GuardInv` says that a lock that is held is held by a call at one of the
  three steps that hold it; those that hold the members lock take no other.
* **ActiveSessionCorrect**: `ActiveSession` is inductive together with the types and
  `Apart`, by which a side that has yet to run `activate()` is not in the middle of it; the
  point of the proof is that a connection joins no other two nodes (`JoinsType`), so
  that whatever takes a slot or ends a reader concerns one remote.  `Cancel` leaves an
  unread session only on the side that dialed it.  The theorem covers nodes that dial
  each other at once, which the run's instance does not.
* **AnnouncedIsProvenCorrect**: `AnnouncedIsProven` is far from inductive.
  `NonceInv` says when a nonce exists: as long as an announce is to come on a
  connection or is under way on it (`Unannounced`), no challenge and no proof with
  that nonce is under way, waits in an event loop (`Carried`) or is outstanding; and
  a proof that is under way for an outstanding nonce was signed while it was
  outstanding.  The first part is what makes the second inductive: a challenge is
  issued for a nonce of which no proof can exist yet.  `BodiesInv` says that an
  announce carries nothing else, so that the one that is handled was the only one.
* **ImplementsChallengeResponseCorrect**: from the same two invariants, every step is a
  step of ChallengeResponse, for any number of nodes that dial and challenge each other.
  `HandleAnnounce` is the challenge: by `NonceInv` no proof of the new nonce exists, so
  the answers to the old one are void.  `HandleChallenge` signs if the nonce is the
  outstanding one and is invisible or a loss if not; `HandleProof` accepts if it is and
  is a loss if not.  A connection id may be used again only when nothing refers to it,
  so `Dial` drops only challenges that nobody answered.  A restart loses at most the one
  proof the event loop was dialing for.  Every other step is invisible or loses proofs.
  `AnnouncedIsProven` says that a known remote did sign; this says besides that each
  signature counts once, and for the challenge outstanding when it is accepted.
* **OnlyFloodsHoldAndWaitCorrect**, **FloodSeesOneMapCorrect**: `LockInv` computes the
  guards of a task from its stage and whether it waits (`Guards`), says who waits, where
  and at most once, and that a writer excludes readers.  The first follows, since of the
  stages at which a task waits only one holds a guard; the second, since whoever changes
  the map holds the write guard, and a flood holds a read guard from its first frame to
  its last.  The deadlock of FloodDeadlock is the price of the second.
* **GhostsRacedCorrect**, **KeepsLastKnownGoodCorrect**: under every overlap.
  `GhostInv` says of a domain that is not registered and that no removal overtook:
  no task is looking it up or has an answer for it, and if an address of it is left,
  its removal is still going on.
* **FileMatchesCorrect**: under every overlap.  `SaverInv` says that checks never
  persist, and while `alone` holds that at most one call does, what that call's list and
  the file hold at each of its steps, and that otherwise the file is the list.
* **OnlyRollbackTearsCorrect**: `StagedInv` says that from the moment it
  was filled the staging file is the wanted one until it is renamed, and that only
  the planet is rolled back.
* **TagMeansSyncedCorrect**: `TagInv` says that the tag is stale while a cycle is under
  way, and that the assets a cycle is done with are those of its manifest.

Model-checked only: `InterfaceMatches`, `FilesMatch` and `AddressesUnique`, which hold
under conditions that the code does not guarantee (section 3), so that a theorem would
say little; liveness (`EventuallyConfigured`, `CallsReturn`, `EventuallyServed`,
`EventuallyResolved`, `EventuallySynced`), which needs fairness and is beyond the prover;
and the four violations.  Every other property of a run is stated by a theorem.

## 6. Plan

Done: the table, the daemon, the controller, the sessions with their tokens, the
data plane, the resolver, the assets.  What is left, in this order:

1. An abstract specification of the asset store, with the refinement.
2. Boot recovery against REST (main.rs:336-367), members of deleted networks
   (controller.rs:518-520) and duplicate ids (controller.rs:302-304) as properties.
3. The other sources of `load_sources`, and stage 6 of the asset cycle.

**Not modelled.**  `peer.rs` and `nat.rs` (statistics and probes that decide nothing
but extra dial targets), identity, crypto, world and packet formats (pure functions
on data the models abstract from), configuration, CLI, installers and UI (no state
of their own that changes at run time).  Of the modelled components: RTT pings,
address conflicts between announces and the Hello migration of sessions; the TAP
device, MTU and MAC changes; the controller's side of a UDP request;
`auto_join_networks`.
