------------------------------ MODULE AssetSync -----------------------------
(***************************************************************************)
(* The synchronisation of topology assets (sync_provider.rs): one planet   *)
(* and the moons, brought from the provider's manifest to the working      *)
(* directory through a staging file and a backup.                          *)
(*                                                                         *)
(* A cycle reads the manifest, conditionally on the ETag of the last cycle *)
(* that went through, and then works on one asset after the other: compare *)
(* with the file, download, verify, stage, back up, swap.  The first       *)
(* failure ends the cycle; a failure of the planet rolls the planet back.  *)
(* The next cycle comes after an interval.                                 *)
(*                                                                         *)
(* Simplifications: a release of the provider is its manifest with the     *)
(* assets it names, and its ETag; what passes the checksum and the parser  *)
(* is what the release contains; one file per asset, and the planet's is   *)
(* called "planet" (the backup is named after the manifest's file name,    *)
(* the rollback reads planet.bak); fs::write and fs::copy truncate their   *)
(* target and fill it, rename is atomic; reports and the roots that stage  *)
(* 6 hands to the peer table are left out.                                 *)
(***************************************************************************)
EXTENDS Naturals

CONSTANTS
  Planet,
  Moons,
  Releases,      \* bound: the releases the provider has, 1 .. Releases
  Contains,      \* Contains[r][a]: the content of asset a in release r
  AutoRollback,  \* allow_auto_rollback of the configuration
  MayCrash,      \* bound: may the process die and start again?
  Absent,
  Torn           \* the content of a file that was truncated and not filled

VARIABLES
  release,   \* the release the provider serves
  target,    \* target[a]: planet, or a file in moons.d
  staged,    \* staged[a]: the staging file
  backup,    \* backup[a]: the backup file
  etag,      \* the ETag kept in memory, or Absent
  cycle,     \* the cycle in progress, or Absent
  stale      \* history: has a cycle begun since the ETag was kept?

fileVars == <<target, staged, backup>>
vars == <<release, fileVars, etag, cycle, stale>>

Assets == {Planet} \cup Moons

Release == 1 .. Releases

Contents == {Contains[r][a] : r \in Release, a \in Assets}

Stages == {"compare", "download", "stage", "fill", "backup", "copy", "swap",
           "rollback", "restore"}

\* manifest: the release it came from; todo: the assets after the one in hand.
Cycle == [stage: Stages, manifest: Release, asset: Assets, todo: SUBSET Moons]

File == Contents \cup {Absent, Torn}

ASSUME AssetAssumption ==
  /\ Releases \in Nat \ {0}
  /\ Contains \in [Release -> [Assets -> Contents]]
  /\ Planet \notin Moons
  /\ AutoRollback \in BOOLEAN /\ MayCrash \in BOOLEAN
  /\ Absent \notin Contents /\ Torn \notin Contents /\ Absent # Torn
  /\ Absent \notin Release /\ Absent \notin Cycle

AssetsTypeOK ==
  /\ release \in Release
  /\ target \in [Assets -> File]
  /\ staged \in [Assets -> File]
  /\ backup \in [Assets -> File]
  /\ etag \in Release \cup {Absent}
  /\ cycle \in Cycle \cup {Absent}
  /\ stale \in BOOLEAN

-----------------------------------------------------------------------------

At(stage) == cycle # Absent /\ cycle.stage = stage

\* What the manifest promises of the asset in hand.
Wanted == Contains[cycle.manifest][cycle.asset]

Goto(stage) == cycle' = [cycle EXCEPT !.stage = stage]

\* Mutant: the last file is kept where the ETag of its manifest belongs.
NextAssetKeepsFile ==
  IF cycle.todo = {}
  THEN /\ cycle' = Absent
       /\ etag' = cycle.asset
       /\ stale' = FALSE
  ELSE /\ \E m \in cycle.todo :
            cycle' = [cycle EXCEPT !.stage = "compare", !.asset = m, !.todo = @ \ {m}]
       /\ UNCHANGED <<etag, stale>>

\* The asset in hand is done: the next moon, or the end, which keeps the ETag.
NextAsset ==
  IF cycle.todo = {}
  THEN /\ cycle' = Absent
       /\ etag' = cycle.manifest
       /\ stale' = FALSE
  ELSE /\ \E m \in cycle.todo :
            cycle' = [cycle EXCEPT !.stage = "compare", !.asset = m, !.todo = @ \ {m}]
       /\ UNCHANGED <<etag, stale>>

\* Mutant: the ETag is kept as soon as the manifest was read.
FetchManifestKeepsTag ==
  /\ cycle = Absent
  /\ etag # release
  /\ cycle' = [stage |-> "compare", manifest |-> release, asset |-> Planet, todo |-> Moons]
  /\ etag' = release
  /\ stale' = FALSE
  /\ UNCHANGED <<release, fileVars>>

\* A manifest that is new to this process; with its own ETag the answer is 304.
FetchManifest ==
  /\ cycle = Absent
  /\ etag # release
  /\ cycle' = [stage |-> "compare", manifest |-> release, asset |-> Planet, todo |-> Moons]
  /\ stale' = TRUE
  /\ UNCHANGED <<release, fileVars, etag>>

\* Mutant: an existing file that is no world is an error.
CompareParses ==
  /\ At("compare")
  /\ IF target[cycle.asset] = Torn
     THEN cycle' = Absent /\ UNCHANGED <<etag, stale>>
     ELSE IF target[cycle.asset] = Wanted
     THEN NextAsset
     ELSE Goto("download") /\ UNCHANGED <<etag, stale>>
  /\ UNCHANGED <<release, fileVars>>

\* 304: nothing to do.
NotModified == cycle = Absent /\ etag = release /\ UNCHANGED vars

\* The file that exists is read and hashed.
Compare ==
  /\ At("compare")
  /\ IF target[cycle.asset] = Wanted
     THEN NextAsset
     ELSE Goto("download") /\ UNCHANGED <<etag, stale>>
  /\ UNCHANGED <<release, fileVars>>

\* The provider serves what the manifest promised, and it parses.
Download ==
  /\ At("download")
  /\ Contains[release][cycle.asset] = Wanted
  /\ Goto("stage")
  /\ UNCHANGED <<release, fileVars, etag, stale>>

\* The error of an asset ends the cycle; for the planet, after a rollback if there is a backup.
Abort ==
  /\ IF cycle.asset = Planet /\ AutoRollback /\ backup[Planet] # Absent
     THEN Goto("rollback")
     ELSE cycle' = Absent
  /\ UNCHANGED <<release, fileVars, etag, stale>>

\* The provider moved on after the manifest: the checksum does not match.
Mismatch ==
  /\ At("download")
  /\ Contains[release][cycle.asset] # Wanted
  /\ Abort

\* The download, or a call of the file system, fails.
Fail ==
  /\ cycle # Absent /\ cycle.stage \in {"download", "stage", "fill", "swap"}
  /\ Abort

\* A file that exists cannot be read: it is downloaded again.
CompareFails ==
  /\ At("compare")
  /\ target[cycle.asset] # Absent
  /\ Goto("download")
  /\ UNCHANGED <<release, fileVars, etag, stale>>

\* The result of the backup's copy is ignored.
BackupFails ==
  /\ cycle # Absent /\ cycle.stage \in {"backup", "copy"}
  /\ Goto("swap")
  /\ UNCHANGED <<release, fileVars, etag, stale>>

\* The result of the rollback is ignored.
RollbackFails ==
  /\ cycle # Absent /\ cycle.stage \in {"rollback", "restore"}
  /\ cycle' = Absent
  /\ UNCHANGED <<release, fileVars, etag, stale>>

\* Mutant: no staging file.
OpenTarget ==
  /\ At("stage")
  /\ target' = [target EXCEPT ![cycle.asset] = Torn]
  /\ Goto("fill")
  /\ UNCHANGED <<release, staged, backup, etag, stale>>

OpenStaged ==
  /\ At("stage")
  /\ staged' = [staged EXCEPT ![cycle.asset] = Torn]
  /\ Goto("fill")
  /\ UNCHANGED <<release, target, backup, etag, stale>>

FillStaged ==
  /\ At("fill")
  /\ staged' = [staged EXCEPT ![cycle.asset] = Wanted]
  /\ Goto(IF target[cycle.asset] = Absent THEN "swap" ELSE "backup")
  /\ UNCHANGED <<release, target, backup, etag, stale>>

OpenBackup ==
  /\ At("backup")
  /\ backup' = [backup EXCEPT ![cycle.asset] = Torn]
  /\ Goto("copy")
  /\ UNCHANGED <<release, target, staged, etag, stale>>

CopyBackup ==
  /\ At("copy")
  /\ backup' = [backup EXCEPT ![cycle.asset] = target[cycle.asset]]
  /\ Goto("swap")
  /\ UNCHANGED <<release, target, staged, etag, stale>>

\* fs::rename() over the target.
Swap ==
  /\ At("swap")
  /\ target' = [target EXCEPT ![cycle.asset] = staged[cycle.asset]]
  /\ staged' = [staged EXCEPT ![cycle.asset] = Absent]
  /\ NextAsset
  /\ UNCHANGED <<release, backup>>

\* rollback_planet(): planet.bak is copied over the planet, whatever that is by now.
OpenPlanet ==
  /\ At("rollback")
  /\ target' = [target EXCEPT ![Planet] = Torn]
  /\ Goto("restore")
  /\ UNCHANGED <<release, staged, backup, etag, stale>>

RestorePlanet ==
  /\ At("restore")
  /\ target' = [target EXCEPT ![Planet] = backup[Planet]]
  /\ cycle' = Absent
  /\ UNCHANGED <<release, staged, backup, etag, stale>>

Crash ==
  /\ MayCrash
  /\ etag' = Absent
  /\ cycle' = Absent
  /\ UNCHANGED <<release, fileVars, stale>>

\* The provider publishes a release, or returns to an earlier one.
Publish ==
  /\ release' \in Release \ {release}
  /\ UNCHANGED <<fileVars, etag, cycle, stale>>

Init ==
  /\ release = 1
  /\ target = [a \in Assets |-> Absent]
  /\ staged = [a \in Assets |-> Absent]
  /\ backup = [a \in Assets |-> Absent]
  /\ etag = Absent
  /\ cycle = Absent
  /\ stale = FALSE

Sync ==
  \/ FetchManifest \/ NotModified \/ Compare \/ Download \/ Mismatch
  \/ OpenStaged \/ FillStaged \/ OpenBackup \/ CopyBackup \/ Swap
  \/ OpenPlanet \/ RestorePlanet

Fault == Fail \/ CompareFails \/ BackupFails \/ RollbackFails \/ Crash

Next == Sync \/ Fault \/ Publish

Spec == Init /\ [][Next]_vars

\* The worker's loop (main.rs:299-305) never ends.
FairSpec == Spec /\ WF_vars(Sync)

-----------------------------------------------------------------------------
(* Properties *)

(* sync_provider.rs:370-387, staging and rename: no crash and no failure    *)
(* leaves a file in use truncated, with the one exception of the rollback, *)
(* which copies in place, and may copy a backup that a crash truncated.    *)
OnlyRollbackTears ==
  [][\A a \in Assets :
       target[a] # Torn /\ target'[a] = Torn => a = Planet /\ At("rollback")]_vars

(* sync_provider.rs:208, "atomic 5-stage sync cycle": the ETag that a      *)
(* cycle keeps stands for every file of its manifest, whatever cycles      *)
(* failed or crashed half way before, until the next cycle begins.         *)
TagMeansSynced ==
  etag # Absent /\ ~stale => \A a \in Assets : target[a] = Contains[etag][a]

(* main.rs:299-305 tries again for ever: once the provider stays with a    *)
(* release and nothing fails any more, every file is the one it promises,  *)
(* whatever truncated or mixed state failures, crashes and rollbacks left. *)
(* The one exception: the provider returned to the release of the ETag     *)
(* after a cycle for another one had begun; it answers "not modified" for  *)
(* ever, whatever files that cycle left (sync_provider.rs:233-246).        *)
EventuallySynced ==
  \A r \in Release :
    <>[](release = r) /\ <>[][~Fault]_vars =>
       \/ <>[](\A a \in Assets : target[a] = Contains[r][a])
       \/ <>[](etag = r /\ stale)

(* sync_provider.rs:405, "rollback planet to last known good backup": a    *)
(* rollback does not put an older planet in the place of a good one.       *)
RollbackKeepsGood ==
  [][\A r \in Release :
       At("rollback") /\ target[Planet] = Contains[r][Planet] /\ backup[Planet] # Torn =>
          \E q \in r .. Releases : backup[Planet] = Contains[q][Planet]]_vars
=============================================================================
