---------------------------- MODULE MCSavedMounts ----------------------------
(***************************************************************************)
(* Mount points /a, /a/, /A, /a.x and /a.type, all of which viper keeps    *)
(* under /a but /a/; another configuration file mounts /a and has a broken *)
(* entry.                                                                  *)
(***************************************************************************)
EXTENDS SavedMountsProps, TLC

CONSTANTS home, disk

MCPoints == {"/a", "/a/", "/A", "/a.x", "/a.type", "b"}
MCKeys == {"/a", "/a/", "b"}
MCKeyOf == [m \in MCPoints |-> IF m \in MCKeys THEN m ELSE "/a"]
MCPlain == MCPoints \ {"/a.x", "/a.type"}
MCSpoiling == {"/a.type"}
MCClean == [m \in MCPoints \cup MCKeys |-> CASE m = "/a/" -> "/a" [] m = "b" -> Relative [] OTHER -> m]
MCElsewhere == [k \in MCKeys |-> CASE k = "/a" -> home [] k = "/a/" -> Unusable [] OTHER -> NoEntry]
SessionSymmetry == Permutations(Sessions)
=============================================================================
