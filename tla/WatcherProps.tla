----------------------------- MODULE WatcherProps -----------------------------
(***************************************************************************)
(* What watching promises: properties of module Watcher.                   *)
(***************************************************************************)
EXTENDS Watcher

\* The nodes at and below n: those in every set that has n and what is in its members.
Below(n) ==
    {m \in Nodes :
        \A S \in SUBSET Nodes :
            n \in S /\ (\A k \in Nodes \ {Base} : Parent[k] \in S => k \in S) => m \in S}

(***************************************************************************)
(* A watch goroutine lives only while the adaptor is connected and lists   *)
(* its watch (or Watch is about to list it): when Unwatch or Disconnect    *)
(* has returned, no goroutine reads the adaptor or sends on the channel.   *)
(***************************************************************************)
AliveIsListed ==
    \A p \in Watchable :
        Alive(p) => connected /\ (p \in watches \/ (caller.stage = "register" /\ caller.at = p))

(***************************************************************************)
(* Once a recursive watcher has dealt with its events, it watches every    *)
(* directory below its path, in whatever order directories came and went,  *)
(* but for those at or below one that it skipped silently: one that could  *)
(* not be looked at, read or added, or was created between the moment its  *)
(* parent was read and the moment the parent was added.  All is void when  *)
(* the kernel's queue overflowed or the watched path itself was removed.   *)
(***************************************************************************)
CoveredWhenQuiet ==
    \A p \in Watchable :
        LET w == watcher[p] IN
        w.stage = "idle" /\ w.recursive /\ w.queue = <<>> /\ ~w.lost /\ p \in w.marks
        => Below(p) \cap Dirs \cap exists \subseteq w.marks \cup UNION {Below(n) : n \in w.missed}

(***************************************************************************)
(* Unwatch and Disconnect return, also when nobody receives the events and *)
(* the goroutine is blocked sending one.                                   *)
(***************************************************************************)
StopReturns == caller.stage \in {"wait", "next"} ~> caller = AtRest

=============================================================================
