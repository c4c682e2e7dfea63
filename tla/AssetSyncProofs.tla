--------------------------- MODULE AssetSyncProofs --------------------------
(***************************************************************************)
(* Theorems about the asset synchronisation, for any number of moons and   *)
(* releases; failures and crashes happen at any step.                      *)
(***************************************************************************)
EXTENDS AssetSync, TLAPS

-----------------------------------------------------------------------------
(* Type correctness *)

LEMMA WantedType ==
  ASSUME AssetsTypeOK, cycle # Absent
  PROVE  cycle \in Cycle /\ Wanted \in Contents
<1>1. cycle \in Cycle
  BY DEF AssetsTypeOK
<1>2. cycle.manifest \in Release /\ cycle.asset \in Assets
  BY <1>1 DEF Cycle
<1>3. Contains[cycle.manifest][cycle.asset] \in Contents
  BY <1>2, AssetAssumption
<1> QED
  BY <1>1, <1>3 DEF Wanted

LEMMA PlanetIsAsset == Planet \in Assets /\ Moons \subseteq Assets
BY DEF Assets

LEMMA GotoType ==
  ASSUME AssetsTypeOK, cycle # Absent, NEW stage \in Stages, Goto(stage)
  PROVE  /\ cycle' \in Cycle
         /\ cycle'.stage = stage /\ cycle'.manifest = cycle.manifest
         /\ cycle'.asset = cycle.asset /\ cycle'.todo = cycle.todo
BY WantedType DEF Goto, Cycle

\* What follows an asset that is done.
LEMMA NextAssetType ==
  ASSUME AssetsTypeOK, cycle # Absent, NextAsset
  PROVE  /\ cycle' \in Cycle \cup {Absent}
         /\ etag' \in Release \cup {Absent}
         /\ stale' \in BOOLEAN
         /\ \/ cycle.todo = {} /\ cycle' = Absent /\ etag' = cycle.manifest
            \/ /\ cycle' # Absent /\ etag' = etag /\ stale' = stale /\ cycle'.stage = "compare"
               /\ cycle'.manifest = cycle.manifest
               /\ cycle'.asset \in cycle.todo /\ cycle'.todo = cycle.todo \ {cycle'.asset}
<1>1. cycle \in Cycle
  BY WantedType
<1>2. CASE cycle.todo = {}
  BY <1>1, <1>2 DEF NextAsset, Cycle, AssetsTypeOK
<1>3. CASE cycle.todo # {}
  <2>1. PICK m \in cycle.todo :
          cycle' = [cycle EXCEPT !.stage = "compare", !.asset = m, !.todo = @ \ {m}]
    BY <1>3 DEF NextAsset
  <2>2. m \in Assets
    BY <1>1, <2>1, PlanetIsAsset DEF Cycle
  <2> DEFINE c == [cycle EXCEPT !.stage = "compare", !.asset = m, !.todo = @ \ {m}]
  <2>3. c \in Cycle /\ c.stage = "compare" /\ c.manifest = cycle.manifest
        /\ c.asset = m /\ c.todo = cycle.todo \ {m}
    BY <1>1, <2>1, <2>2 DEF Cycle, Stages
  <2>4. cycle' = c
    BY <2>1
  <2> HIDE DEF c
  <2>5. etag' = etag /\ stale' = stale
    BY <1>3 DEF NextAsset
  <2> QED
    BY <2>1, <2>3, <2>4, <2>5, AssetAssumption DEF AssetsTypeOK
<1> QED
  BY <1>2, <1>3

LEMMA AbortType ==
  ASSUME AssetsTypeOK, cycle # Absent, Abort
  PROVE  /\ UNCHANGED <<release, fileVars, etag, stale>>
         /\ \/ cycle' = Absent
            \/ cycle.asset = Planet /\ Goto("rollback")
BY DEF Abort

\* Every step but a new cycle and a crash: the cycle in hand goes on, or ends.
LEMMA AdvanceType ==
  ASSUME AssetsTypeOK, cycle # Absent,
         Compare \/ Download \/ Mismatch \/ OpenStaged \/ FillStaged \/ OpenBackup \/ CopyBackup
         \/ Swap \/ OpenPlanet \/ RestorePlanet \/ Fail \/ CompareFails \/ BackupFails \/ RollbackFails
  PROVE  /\ cycle' \in Cycle \cup {Absent} /\ etag' \in Release \cup {Absent}
         /\ stale' \in BOOLEAN /\ release' = release
<1> USE DEF Stages
<1>1. CASE Compare
  BY <1>1, NextAssetType, GotoType DEF Compare, AssetsTypeOK
<1>2. CASE Download \/ OpenStaged \/ OpenBackup \/ CopyBackup \/ OpenPlanet \/ CompareFails \/ BackupFails
  BY <1>2, GotoType DEF Download, OpenStaged, OpenBackup, CopyBackup, OpenPlanet, CompareFails, BackupFails, AssetsTypeOK
<1>3. CASE Mismatch \/ Fail
  BY <1>3, AbortType, GotoType DEF Mismatch, Fail, AssetsTypeOK
<1>4. CASE FillStaged
  <2>1. Goto("swap") \/ Goto("backup")
    BY <1>4 DEF FillStaged
  <2> QED
    BY <1>4, <2>1, GotoType DEF FillStaged, AssetsTypeOK
<1>5. CASE Swap
  BY <1>5, NextAssetType DEF Swap
<1>6. CASE RestorePlanet \/ RollbackFails
  BY <1>6 DEF RestorePlanet, RollbackFails, AssetsTypeOK
<1> QED
  BY <1>1, <1>2, <1>3, <1>4, <1>5, <1>6

LEMMA FetchType ==
  ASSUME AssetsTypeOK, FetchManifest
  PROVE  cycle' \in Cycle /\ cycle' # Absent
<1> DEFINE c == [stage |-> "compare", manifest |-> release, asset |-> Planet, todo |-> Moons]
<1>1. c \in Cycle
  BY PlanetIsAsset DEF Cycle, Stages, AssetsTypeOK
<1>2. cycle' = c
  BY DEF FetchManifest
<1> HIDE DEF c
<1> QED
  BY <1>1, <1>2, AssetAssumption

\* What a step does to the files.
LEMMA FilesType ==
  ASSUME AssetsTypeOK, Next
  PROVE  /\ target' \in [Assets -> File]
         /\ staged' \in [Assets -> File]
         /\ backup' \in [Assets -> File]
<1>1. Absent \in File /\ Torn \in File
  BY DEF File
<1>2. CASE OpenStaged \/ OpenBackup \/ OpenPlanet
  BY <1>1, <1>2 DEF OpenStaged, OpenBackup, OpenPlanet, AssetsTypeOK
<1>3. CASE FillStaged
  <2>1. Wanted \in File
    BY <1>3, WantedType DEF FillStaged, At, File
  <2> HIDE DEF Wanted
  <2> QED
    BY <1>3, <2>1 DEF FillStaged, AssetsTypeOK
<1>4. CASE CopyBackup \/ Swap
  <2>1. cycle.asset \in Assets
    BY <1>4, WantedType DEF CopyBackup, Swap, At, Cycle
  <2> QED
    BY <1>1, <1>4, <2>1 DEF CopyBackup, Swap, AssetsTypeOK
<1>5. CASE RestorePlanet
  BY <1>5, PlanetIsAsset DEF RestorePlanet, AssetsTypeOK
<1>6. CASE UNCHANGED fileVars
  BY <1>6 DEF fileVars, AssetsTypeOK
<1>7. CASE FetchManifest \/ NotModified \/ Compare \/ Download \/ Mismatch
           \/ Fail \/ CompareFails \/ BackupFails \/ RollbackFails \/ Crash \/ Publish
  BY <1>6, <1>7 DEF FetchManifest, NotModified, Compare, Download, Mismatch, Abort, Fail,
                    CompareFails, BackupFails, RollbackFails, Crash, Publish, vars, fileVars
<1> QED
  BY <1>2, <1>3, <1>4, <1>5, <1>7 DEF Next, Sync, Fault

LEMMA TypeInit == Init => AssetsTypeOK
<1> SUFFICES ASSUME Init PROVE AssetsTypeOK
  OBVIOUS
<1>1. release \in Release
  BY AssetAssumption DEF Init, Release
<1>2. stale \in BOOLEAN
  BY DEF Init
<1> QED
  BY <1>1, <1>2 DEF Init, AssetsTypeOK, File

LEMMA TypeStep == AssetsTypeOK /\ [Next]_vars => AssetsTypeOK'
<1> SUFFICES ASSUME AssetsTypeOK, [Next]_vars PROVE AssetsTypeOK'
  OBVIOUS
<1>1. CASE FetchManifest
  BY <1>1, FetchType DEF FetchManifest, AssetsTypeOK, fileVars
<1>2. CASE NotModified \/ UNCHANGED vars
  BY <1>2 DEF NotModified, vars, fileVars, AssetsTypeOK
<1>3. CASE Crash \/ Publish
  BY <1>3 DEF Crash, Publish, AssetsTypeOK, fileVars
<1>4. CASE Compare \/ Download \/ Mismatch \/ OpenStaged \/ FillStaged \/ OpenBackup \/ CopyBackup
           \/ Swap \/ OpenPlanet \/ RestorePlanet \/ Fail \/ CompareFails \/ BackupFails \/ RollbackFails
  <2>1. cycle # Absent
    BY <1>4 DEF At, Compare, Download, Mismatch, OpenStaged, FillStaged, OpenBackup, CopyBackup,
                Swap, OpenPlanet, RestorePlanet, Fail, CompareFails, BackupFails, RollbackFails
  <2>2. Next
    BY <1>4 DEF Next, Sync, Fault
  <2> QED
    BY <1>4, <2>1, <2>2, AdvanceType, FilesType DEF AssetsTypeOK
<1> QED
  BY <1>1, <1>2, <1>3, <1>4 DEF Next, Sync, Fault

(* The type invariant: every file is absent, torn or the content of some    *)
(* release, and a cycle works on an asset of its manifest.                 *)
THEOREM AssetsTypeCorrect == Spec => []AssetsTypeOK
BY TypeInit, TypeStep, PTL DEF Spec

-----------------------------------------------------------------------------
(* Files in use are whole *)

\* On its way to the swap an asset is staged; a rollback is one of the planet.
StagedInv ==
  cycle # Absent =>
    /\ cycle.stage \in {"backup", "copy", "swap"} => staged[cycle.asset] = Wanted
    /\ cycle.stage \in {"rollback", "restore"} => cycle.asset = Planet
    /\ cycle.stage = "restore" => target[Planet] = Torn

LEMMA StagedInit == Init => StagedInv
BY DEF Init, StagedInv

LEMMA NextAssetStaged ==
  ASSUME AssetsTypeOK, cycle # Absent, NextAsset
  PROVE  StagedInv'
<1>1. cycle' = Absent \/ cycle'.stage = "compare"
  BY NextAssetType
<1> QED
  BY <1>1 DEF StagedInv

LEMMA StagedStep == AssetsTypeOK /\ StagedInv /\ [Next]_vars => StagedInv'
<1> SUFFICES ASSUME AssetsTypeOK, StagedInv, [Next]_vars PROVE StagedInv'
  OBVIOUS
<1> USE DEF Stages, fileVars
<1>1. CASE FetchManifest
  BY <1>1 DEF FetchManifest, StagedInv
<1>2. CASE NotModified \/ UNCHANGED vars
  BY <1>2 DEF NotModified, vars, StagedInv, Wanted
<1>3. CASE Crash
  BY <1>3 DEF Crash, StagedInv
<1>4. CASE Publish
  BY <1>4 DEF Publish, StagedInv, Wanted
<1>5. CASE Compare
  <2>1. NextAsset \/ Goto("download")
    BY <1>5 DEF Compare
  <2> QED
    BY <1>5, <2>1, NextAssetStaged, GotoType DEF Compare, At, StagedInv
<1>6. CASE Download \/ OpenStaged \/ CompareFails
  <2>1. cycle # Absent /\ (Goto("stage") \/ Goto("fill") \/ Goto("download"))
    BY <1>6 DEF Download, OpenStaged, CompareFails, At
  <2> QED
    BY <2>1, GotoType DEF StagedInv
<1>7. CASE Mismatch \/ Fail
  <2>1. cycle # Absent /\ Abort
    BY <1>7 DEF Mismatch, Fail, At
  <2>2. cycle' = Absent \/ (cycle.asset = Planet /\ Goto("rollback"))
    BY <2>1 DEF Abort
  <2> QED
    BY <2>1, <2>2, GotoType DEF StagedInv
<1>8. CASE FillStaged
  <2>1. cycle \in Cycle /\ cycle # Absent /\ (Goto("swap") \/ Goto("backup"))
    BY <1>8, WantedType DEF FillStaged, At
  <2>2. staged' = [staged EXCEPT ![cycle.asset] = Wanted] /\ cycle.asset \in Assets
    BY <1>8, <2>1 DEF FillStaged, Cycle
  <2>3. staged'[cycle.asset] = Wanted
    BY <2>2 DEF AssetsTypeOK
  <2>4. cycle' # Absent /\ cycle'.stage \in {"swap", "backup"}
        /\ cycle'.asset = cycle.asset /\ cycle'.manifest = cycle.manifest
    BY <2>1, GotoType, AssetAssumption
  <2> QED
    BY <2>3, <2>4 DEF StagedInv, Wanted
<1>9. CASE OpenBackup \/ CopyBackup \/ BackupFails
  <2>1. cycle # Absent /\ cycle.stage \in {"backup", "copy"} /\ (Goto("copy") \/ Goto("swap"))
    BY <1>9 DEF OpenBackup, CopyBackup, BackupFails, At
  <2>2. cycle'.stage \in {"copy", "swap"} /\ cycle'.asset = cycle.asset /\ cycle'.manifest = cycle.manifest
    BY <2>1, GotoType
  <2>3. staged' = staged
    BY <1>9 DEF OpenBackup, CopyBackup, BackupFails
  <2> QED
    BY <2>1, <2>2, <2>3 DEF StagedInv, Wanted
<1>10. CASE Swap
  BY <1>10, NextAssetStaged DEF Swap, At
<1>11. CASE OpenPlanet
  <2>1. cycle # Absent /\ cycle.asset = Planet /\ Goto("restore")
    BY <1>11 DEF OpenPlanet, At, StagedInv
  <2>2. target'[Planet] = Torn
    BY <1>11, PlanetIsAsset DEF OpenPlanet, AssetsTypeOK
  <2> QED
    BY <2>1, <2>2, GotoType DEF StagedInv
<1>12. CASE RestorePlanet \/ RollbackFails
  BY <1>12 DEF RestorePlanet, RollbackFails, StagedInv
<1> QED
  BY <1>1, <1>2, <1>3, <1>4, <1>5, <1>6, <1>7, <1>8, <1>9, <1>10, <1>11, <1>12
     DEF Next, Sync, Fault

(* No failure and no crash leaves a file in use truncated, with the one    *)
(* exception of the rollback of the planet, which copies in place.         *)
THEOREM OnlyRollbackTearsCorrect == Spec => OnlyRollbackTears
<1> DEFINE Whole == \A a \in Assets :
                      target[a] # Torn /\ target'[a] = Torn => a = Planet /\ At("rollback")
<1>1. AssetsTypeOK /\ StagedInv /\ [Next]_vars => Whole
  <2> SUFFICES ASSUME AssetsTypeOK, StagedInv, [Next]_vars, NEW a \in Assets,
                      target[a] # Torn, target'[a] = Torn
               PROVE  a = Planet /\ At("rollback")
    OBVIOUS
  <2>1. CASE UNCHANGED target
    BY <2>1
  <2>2. CASE Swap
    <3>1. staged[cycle.asset] = Wanted /\ Wanted \in Contents
      BY <2>2, WantedType DEF Swap, At, StagedInv
    <3> QED
      BY <2>2, <3>1, AssetAssumption DEF Swap, AssetsTypeOK
  <2>3. CASE OpenPlanet
    BY <2>3 DEF OpenPlanet, AssetsTypeOK
  <2>4. CASE RestorePlanet
    BY <2>4 DEF RestorePlanet, At, StagedInv, AssetsTypeOK
  <2>5. CASE FetchManifest \/ NotModified \/ Compare \/ Download \/ Mismatch \/ OpenStaged \/ FillStaged
             \/ OpenBackup \/ CopyBackup \/ Fault \/ Publish \/ UNCHANGED vars
    BY <2>1, <2>5 DEF FetchManifest, NotModified, Compare, Download, Mismatch, OpenStaged, FillStaged,
                      OpenBackup, CopyBackup, Fault, Fail, CompareFails, BackupFails, RollbackFails, Crash, Publish,
                      Abort, vars, fileVars
  <2> QED
    BY <2>2, <2>3, <2>4, <2>5 DEF Next, Sync
<1> QED
  BY <1>1, TypeInit, TypeStep, StagedInit, StagedStep, PTL DEF Spec, OnlyRollbackTears

-----------------------------------------------------------------------------
(* A kept ETag stands for its files *)

\* The assets of a cycle that are done hold what its manifest promises, and a cycle
\* that begins takes the ETag's word back.
TagInv ==
  /\ cycle # Absent =>
       /\ stale
       /\ cycle.asset \notin cycle.todo
       /\ cycle.asset = Planet => cycle.todo = Moons
       /\ \A a \in Assets \ (cycle.todo \cup {cycle.asset}) : target[a] = Contains[cycle.manifest][a]
  /\ TagMeansSynced

LEMMA TagInit == Init => TagInv
BY DEF Init, TagInv, TagMeansSynced

\* The cycle in hand goes on with the same asset, and the other files in use stay.
LEMMA TagKept ==
  ASSUME TagInv, cycle # Absent, stale' = stale,
         cycle' # Absent, cycle'.manifest = cycle.manifest,
         cycle'.asset = cycle.asset, cycle'.todo = cycle.todo,
         \A a \in Assets : a # cycle.asset => target'[a] = target[a]
  PROVE  TagInv'
BY DEF TagInv, TagMeansSynced

\* The asset in hand is done.
LEMMA TagNext ==
  ASSUME AssetsTypeOK, TagInv, cycle # Absent, NextAsset,
         target'[cycle.asset] = Wanted,
         \A a \in Assets : a # cycle.asset => target'[a] = target[a]
  PROVE  TagInv'
<1>1. cycle \in Cycle /\ cycle.manifest \in Release
  BY WantedType DEF Cycle
<1>2. \A a \in Assets \ cycle.todo : target'[a] = Contains[cycle.manifest][a]
  BY DEF TagInv, Wanted
<1>3. CASE cycle.todo = {} /\ cycle' = Absent /\ etag' = cycle.manifest
  BY <1>2, <1>3 DEF TagInv, TagMeansSynced
<1>4. CASE /\ cycle' # Absent /\ etag' = etag /\ stale' = stale /\ cycle'.stage = "compare"
           /\ cycle'.manifest = cycle.manifest
           /\ cycle'.asset \in cycle.todo /\ cycle'.todo = cycle.todo \ {cycle'.asset}
  <2>1. \A a \in Assets \ (cycle'.todo \cup {cycle'.asset}) : target'[a] = Contains[cycle'.manifest][a]
    BY <1>2, <1>4
  <2>2. cycle'.asset # Planet
    BY <1>1, <1>4, AssetAssumption DEF Cycle
  <2> QED
    BY <1>4, <2>1, <2>2 DEF TagInv, TagMeansSynced
<1> QED
  BY <1>3, <1>4, NextAssetType

\* The cycle ended without going through: the ETag in memory stays without its word.
LEMMA TagEnds ==
  ASSUME TagInv, cycle # Absent, cycle' = Absent, stale' = stale
  PROVE  TagInv'
BY DEF TagInv, TagMeansSynced

LEMMA TagStep == AssetsTypeOK /\ StagedInv /\ TagInv /\ [Next]_vars => TagInv'
<1> SUFFICES ASSUME AssetsTypeOK, StagedInv, TagInv, [Next]_vars PROVE TagInv'
  OBVIOUS
<1> USE DEF Stages
<1>1. CASE FetchManifest
  <2>1. /\ cycle' = [stage |-> "compare", manifest |-> release, asset |-> Planet, todo |-> Moons]
        /\ stale'
    BY <1>1 DEF FetchManifest
  <2>2. Assets \ (Moons \cup {Planet}) = {} /\ Planet \notin Moons
    BY AssetAssumption DEF Assets
  <2> QED
    BY <2>1, <2>2 DEF TagInv, TagMeansSynced
<1>2. CASE NotModified \/ Publish \/ UNCHANGED vars
  BY <1>2 DEF NotModified, Publish, vars, fileVars, TagInv, TagMeansSynced
<1>3. CASE Crash
  BY <1>3 DEF Crash, TagInv, TagMeansSynced
<1>4. CASE Compare
  <2>1. CASE target[cycle.asset] = Wanted
    BY <1>4, <2>1, TagNext DEF Compare, At, fileVars
  <2>2. CASE target[cycle.asset] # Wanted
    <3>1. cycle # Absent /\ Goto("download") /\ stale' = stale /\ target' = target
      BY <1>4, <2>2 DEF Compare, At, fileVars
    <3> QED
      BY <3>1, GotoType, TagKept, AssetAssumption
  <2> QED
    BY <2>1, <2>2
<1>5. CASE Download \/ OpenStaged \/ FillStaged \/ OpenBackup \/ CopyBackup \/ CompareFails \/ BackupFails
  <2>1. /\ cycle # Absent /\ stale' = stale /\ target' = target
        /\ \E stage \in Stages : Goto(stage)
    BY <1>5 DEF Download, OpenStaged, FillStaged, OpenBackup, CopyBackup, CompareFails, BackupFails, At, fileVars
  <2> QED
    BY <2>1, GotoType, TagKept, AssetAssumption
<1>6. CASE Mismatch \/ Fail
  <2>1. cycle # Absent /\ Abort
    BY <1>6 DEF Mismatch, Fail, At
  <2>2. /\ cycle' = Absent \/ Goto("rollback")
        /\ stale' = stale /\ target' = target
    BY <2>1 DEF Abort, fileVars
  <2> QED
    BY <2>1, <2>2, GotoType, TagKept, TagEnds, AssetAssumption
<1>7. CASE Swap
  <2>1. cycle # Absent /\ cycle.asset \in Assets /\ staged[cycle.asset] = Wanted
    BY <1>7, WantedType DEF Swap, At, StagedInv, Cycle
  <2>2. target' = [target EXCEPT ![cycle.asset] = staged[cycle.asset]] /\ NextAsset
    BY <1>7 DEF Swap
  <2>3. target'[cycle.asset] = Wanted /\ \A a \in Assets : a # cycle.asset => target'[a] = target[a]
    BY <2>1, <2>2 DEF AssetsTypeOK
  <2> QED
    BY <2>1, <2>2, <2>3, TagNext
<1>8. CASE OpenPlanet
  <2>1. cycle # Absent /\ cycle.asset = Planet /\ Goto("restore") /\ stale' = stale
    BY <1>8 DEF OpenPlanet, At, StagedInv
  <2>2. \A a \in Assets : a # cycle.asset => target'[a] = target[a]
    BY <1>8, <2>1 DEF OpenPlanet, AssetsTypeOK
  <2> QED
    BY <2>1, <2>2, GotoType, TagKept, AssetAssumption
<1>9. CASE RestorePlanet \/ RollbackFails
  BY <1>9, TagEnds DEF RestorePlanet, RollbackFails, At
<1> QED
  BY <1>1, <1>2, <1>3, <1>4, <1>5, <1>6, <1>7, <1>8, <1>9 DEF Next, Sync, Fault

(* In whatever order the provider publishes its releases, and whatever     *)
(* failed, crashed or was rolled back before: the ETag that a cycle keeps  *)
(* stands for every file of its manifest until the next cycle begins.      *)
THEOREM TagMeansSyncedCorrect == Spec => []TagMeansSynced
<1>1. TagInv => TagMeansSynced
  BY DEF TagInv
<1> QED
  BY <1>1, TypeInit, TypeStep, StagedInit, StagedStep, TagInit, TagStep, PTL DEF Spec
=============================================================================
