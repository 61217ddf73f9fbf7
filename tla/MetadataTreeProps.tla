-------------------------- MODULE MetadataTreeProps --------------------------
(***************************************************************************)
(* What Walk and UpdateDirectory promise: properties of MetadataTree.      *)
(***************************************************************************)
EXTENDS MetadataTree

\* The paths at and below dir: those in every set that has dir and what is in its members.
Below(dir) ==
    {p \in Paths :
        \A S \in SUBSET Paths :
            dir \in S /\ (\A q \in Paths : Parent[q] \in S => q \in S) => p \in S}

\* p is below a path whose failure was told.
Reported(p) == \E q \in told : p \in Below(q)

(***************************************************************************)
(* Walk calls back at most once for a path, even for one that goes and     *)
(* comes back, never below a directory it has not called back for, and     *)
(* when it ends well it has called back for every path that was there all  *)
(* the time, or fn was told that something above it could not be looked    *)
(* at.  In particular a directory that could not be listed ends it badly.  *)
(***************************************************************************)
WalkVisitsAll ==
    trip.kind = "Walk" =>
        /\ \A p \in Paths : visits[p] <= 1
        /\ \A p \in Paths \ {trip.root} : visits[p] = 1 => visits[Parent[p]] = 1
        /\ trip.stage = "ok" =>
              \A p \in Below(trip.root) \cap steady : visits[p] = 1 \/ Reported(p)

(***************************************************************************)
(* UpdateDirectory answers well even when it could not extract an entry or *)
(* go through a subdirectory.  What it must not do is miss something       *)
(* silently: everything below its directory that was there all the time    *)
(* has a row then, or a warning was given for it or for something above.   *)
(***************************************************************************)
UpdateStoresAll ==
    Travels("UpdateDirectory", "ok") =>
        \A p \in (Below(trip.root) \ {trip.root}) \cap steady :
            store[p] # NoMeta \/ Reported(p)

(***************************************************************************)
(* A traversal ends, however the tree changes under it.                    *)
(***************************************************************************)
TripsEnd == []<>(trip.stage \in {"rest", "ok", "err"})

=============================================================================
