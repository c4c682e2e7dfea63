---------------------------- MODULE MCAssetSync -----------------------------
(* TLC instances of the asset synchronisation: the planet and one moon.    *)
EXTENDS AssetSync, TLC

CONSTANTS planet, moon, p1, p2, p3, s1, s2

\* The second release changes both files, the third the planet only.
ThreeReleases == <<(planet :> p1) @@ (moon :> s1),
                   (planet :> p2) @@ (moon :> s2),
                   (planet :> p3) @@ (moon :> s2)>>
=============================================================================
