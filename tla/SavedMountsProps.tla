--------------------------- MODULE SavedMountsProps ---------------------------
(***************************************************************************)
(* What saving and loading mounts promises: properties of SavedMounts.     *)
(***************************************************************************)
EXTENDS SavedMounts

\* Type correctness; a session knows of no entry twice.
TypeOK ==
    /\ {file, saved} \subseteq [Keys -> Entries]
    /\ reachable \in SUBSET Sources
    /\ \A c \in Sessions : LET e == session[c] IN
          /\ e.stage \in {"off", "load", "mount", "save", "write", "done"}
          /\ e.point \in Points /\ e.source \in Sources \cup {NoEntry}
          /\ e.settings \in [Keys -> Entries]
          /\ e.todo \subseteq EntriesOf(e.settings)
          /\ e.table \in [Mountpoints -> Sources \cup {NoEntry}]
          /\ e.stale \subseteq Keys /\ e.down \subseteq Sources
          /\ {e.blind, e.overlaid} \subseteq BOOLEAN
    /\ spoiled \subseteq Keys

\* k says what was saved there; a point with a dot may have made a broken entry of it.
Kept(settings, k) ==
    \/ settings[k] = saved[k]
    \/ saved[k] = NoEntry /\ settings[k] = Unusable

(***************************************************************************)
(* A mount that was saved is in the file whenever nobody is writing, and   *)
(* so in the next session, until it is saved anew.  It is lost only when a *)
(* session saves that read the file before the mount was saved, while it   *)
(* was being written, or another file; when writing is cut short; when two *)
(* sessions write at once; or when a point like its own with .type or      *)
(* .path at its end is mounted.  It stays when it could not be mounted.    *)
(***************************************************************************)
SavedStays == Writing = {} => \A k \in Keys \ spoiled : Kept(file, k)

(***************************************************************************)
(* When loadMounts is through, every entry it read whose directory was     *)
(* there has its mount point mounted, whatever else failed and in whatever *)
(* order, and every point that is mounted has an entry that says so.       *)
(***************************************************************************)
LoadsWhatItRead ==
    \A c \in Sessions :
        LET e == session[c] IN
        At(c, "mount") \/ (At(c, "done") /\ e.source = NoEntry) =>
            /\ \A k \in Keys :
                  e.settings[k] \in Sources \ e.down /\ Clean[k] # Relative =>
                      e.table[Clean[k]] # NoEntry
            /\ \A p \in Mountpoints :
                  e.table[p] # NoEntry =>
                      \E k \in Keys : Clean[k] = p /\ e.settings[k] = e.table[p]

\* What a step does to the mounts that were saved, for ReplacesOnlyUnmounted.
FreesWhatItReplaces ==
    \A k \in Keys \ spoiled :
        saved'[k] # saved[k] /\ saved[k] # NoEntry =>
            \E c \in Writing :
                LET e == session[c] IN
                /\ KeyOf[e.point] = k
                /\ \/ saved[k] \in e.down
                   \/ Clean[e.point] # Clean[k]
                   \/ e.blind \/ k \in e.stale

(***************************************************************************)
(* A mount that was saved, and not lost as SavedStays says, is replaced    *)
(* only by one at the same key that had no reason to find the point taken: *)
(* its directory was away, the key stands for a point in other letters, or *)
(* the entry was news to it.                                               *)
(***************************************************************************)
ReplacesOnlyUnmounted == [][FreesWhatItReplaces]_vars
=============================================================================
