------------------------------- MODULE Watcher -------------------------------
(***************************************************************************)
(* adaptors/filesystem: Connect, Disconnect, Watch and Unwatch of the      *)
(* local adaptor, and the goroutine Watch starts.  The goroutine takes     *)
(* events from fsnotify, sends them on the caller's channel and, when it   *)
(* watches recursively, adds each directory that is created.  Stopping it  *)
(* closes its stop channel and waits for it.  The adaptor has no lock: its *)
(* methods are called by one goroutine at a time.                          *)
(***************************************************************************)
EXTENDS Integers, Sequences, FiniteSets, SequencesExt

CONSTANTS Nodes,      \* files and directories below the adaptor's root
          Dirs,       \* those that are directories
          Base,       \* the root directory, always there
          Parent,     \* Parent[n]: the directory n is in
          Watchable,  \* paths that callers watch
          Capacity,   \* buffer of the callers' channel
          MaxQueue,   \* length of the kernel's event queue
          MaxChanges, \* bound: changes of the tree
          MaxFaults,  \* bound: looks, listings and additions that fail
          NoNode

ASSUME WatcherAssumption ==
    /\ IsFiniteSet(Nodes) /\ Dirs \subseteq Nodes /\ Watchable \subseteq Dirs
    /\ Base \in Dirs /\ NoNode \notin Nodes
    /\ Parent \in [Nodes \ {Base} -> Dirs]
    /\ Capacity \in Nat \ {0} /\ MaxQueue \in Nat \ {0}
    /\ MaxChanges \in Nat /\ MaxFaults \in Nat

VARIABLES exists,    \* the nodes that are there
          changes,   \* number of changes of the tree
          faults,    \* number of failures
          connected, \* Adaptor.connected
          watches,   \* keys of Adaptor.watches
          watcher,   \* watcher[p]: the watcher of path p
          caller,    \* the method call in progress
          channel    \* events sent, not yet received by the consumer

vars == <<exists, changes, faults, connected, watches, watcher, caller, channel>>

NoEvent == [op |-> "none", at |-> NoNode]
Overflow == [op |-> "error", at |-> NoNode]

(***************************************************************************)
(* stage: none, setup (being built by Watch), idle (in the outer select),  *)
(* send (in the inner one), stat, expand (in addRecursive), exited.        *)
(* marks are the directories fsnotify watches.  History: lost says that    *)
(* the queue overflowed; missed has the directories that could not be      *)
(* looked at, listed or added, and what was created in a directory that    *)
(* had been listed and not yet added.                                      *)
(***************************************************************************)
NoWatcher == [stage |-> "none", recursive |-> FALSE, marks |-> {}, queue |-> <<>>,
              event |-> NoEvent, todo |-> <<>>, stop |-> FALSE, lost |-> FALSE,
              missed |-> {}]

AtRest == [stage |-> "rest", op |-> "none", at |-> NoNode]

Init ==
    /\ exists \in {S \in SUBSET Nodes : Base \in S /\ \A n \in S \ {Base} : Parent[n] \in S}
    /\ changes = 0
    /\ faults = 0
    /\ connected = FALSE
    /\ watches = {}
    /\ watcher = [p \in Watchable |-> NoWatcher]
    /\ caller = AtRest
    /\ channel = <<>>

treeVars == <<exists, changes, faults>>
Stage(p) == watcher[p].stage
Alive(p) == Stage(p) \in {"idle", "send", "stat", "expand"}

-----------------------------------------------------------------------------
(***************************************************************************)
(* addRecursive: filepath.Walk looks at a directory and reads the names in *)
(* it, then calls back, which adds it, and then goes on to these names.    *)
(* An error of any of this is skipped, so it always succeeds: a directory  *)
(* that cannot be read is neither added nor gone into, one that cannot be  *)
(* added is gone into nevertheless.                                        *)
(***************************************************************************)
Visit(n) == [do |-> "visit", at |-> n]
Add(n) == [do |-> "add", at |-> n]
SubDirs(n) == {m \in (Dirs \cap exists) \ {Base} : Parent[m] = n}

Visits(S) == [i \in 1..Cardinality(S) |-> Visit(SetToSeq(S)[i])]

\* Looking at n, listing it or adding it fails although n is there.
Skips(p, w, n) ==
    /\ n \in exists
    /\ faults < MaxFaults
    /\ faults' = faults + 1
    /\ watcher' = [watcher EXCEPT ![p] = [w EXCEPT !.missed = @ \cup {n}]]

WalkOn(p) ==
    LET step == Head(watcher[p].todo)
        n == step.at
        w == [watcher[p] EXCEPT !.todo = Tail(@)]
        Goes(v) == watcher' = [watcher EXCEPT ![p] = v] /\ UNCHANGED faults
    IN  /\ watcher[p].todo # <<>>
        /\ \/ n \notin exists /\ Goes(w)
           \/ /\ n \in exists /\ step.do = "visit"
              /\ Goes([w EXCEPT !.todo = <<Add(n)>> \o (Visits(SubDirs(n)) \o @)])
           \/ n \in exists /\ step.do = "add" /\ Goes([w EXCEPT !.marks = @ \cup {n}])
           \/ Skips(p, w, n)

-----------------------------------------------------------------------------
\* The methods.  A call that is refused, or has nothing to do, changes nothing.
Connect ==
    /\ caller = AtRest
    /\ ~connected
    /\ connected' = TRUE
    /\ UNCHANGED <<treeVars, watches, watcher, caller, channel>>

\* Watch adds the path; when the path is not there it fails.
WatchBegins(p, recursive) ==
    /\ caller = AtRest
    /\ connected
    /\ p \notin watches
    /\ p \in exists
    /\ watcher' = [watcher EXCEPT ![p] =
                      [NoWatcher EXCEPT !.stage = "setup", !.recursive = recursive,
                                        !.marks = {p},
                                        !.todo = IF recursive THEN <<Visit(p)>> ELSE <<>>]]
    /\ caller' = [stage |-> "walk", op |-> "Watch", at |-> p]
    /\ UNCHANGED <<treeVars, connected, watches, channel>>

WatchAdds ==
    /\ caller.stage = "walk"
    /\ WalkOn(caller.at)
    /\ UNCHANGED <<exists, changes, connected, watches, caller, channel>>

\* go w.run(): the goroutine may run before the watcher is in the map.
WatchGoes ==
    /\ caller.stage = "walk"
    /\ watcher[caller.at].todo = <<>>
    /\ watcher' = [watcher EXCEPT ![caller.at].stage = "idle"]
    /\ caller' = [caller EXCEPT !.stage = "register"]
    /\ UNCHANGED <<treeVars, connected, watches, channel>>

WatchRegisters ==
    /\ caller.stage = "register"
    /\ watches' = watches \cup {caller.at}
    /\ caller' = AtRest
    /\ UNCHANGED <<treeVars, connected, watcher, channel>>

\* Stop: close(w.stop), then done.Wait().
StopBegins(op, p) ==
    /\ watcher' = [watcher EXCEPT ![p].stop = TRUE]
    /\ caller' = [stage |-> "wait", op |-> op, at |-> p]

UnwatchBegins(p) ==
    /\ caller = AtRest
    /\ connected
    /\ p \in watches
    /\ StopBegins("Unwatch", p)
    /\ UNCHANGED <<treeVars, connected, watches, channel>>

\* Fault of StopEnds: nobody waits for the goroutine.
StopEndsAtOnce ==
    /\ caller.stage = "wait"
    /\ watches' = watches \ {caller.at}
    /\ caller' = IF caller.op = "Unwatch" THEN AtRest ELSE [caller EXCEPT !.stage = "next"]
    /\ UNCHANGED <<treeVars, connected, watcher, channel>>

\* The goroutine is done: the fsnotify watcher is closed, the map entry goes.
StopEnds ==
    /\ caller.stage = "wait"
    /\ Stage(caller.at) = "exited"
    /\ watcher' = [watcher EXCEPT ![caller.at] = NoWatcher]
    /\ watches' = watches \ {caller.at}
    /\ caller' = IF caller.op = "Unwatch" THEN AtRest ELSE [caller EXCEPT !.stage = "next"]
    /\ UNCHANGED <<treeVars, connected, channel>>

DisconnectBegins ==
    /\ caller = AtRest
    /\ connected
    /\ caller' = [stage |-> "next", op |-> "Disconnect", at |-> NoNode]
    /\ UNCHANGED <<treeVars, connected, watches, watcher, channel>>

DisconnectNext ==
    /\ caller.stage = "next"
    /\ \/ /\ \E p \in watches : StopBegins("Disconnect", p)
          /\ UNCHANGED connected
       \/ /\ watches = {}
          /\ connected' = FALSE
          /\ caller' = AtRest
          /\ UNCHANGED watcher
    /\ UNCHANGED <<treeVars, watches, channel>>

-----------------------------------------------------------------------------
\* Fault of Exit: the send does not listen to stop.
ExitWhenIdle(p) ==
    /\ Stage(p) = "idle"
    /\ watcher[p].stop
    /\ watcher' = [watcher EXCEPT ![p].stage = "exited"]
    /\ UNCHANGED <<treeVars, connected, watches, caller, channel>>

\* The goroutine: when several cases of a select are ready, any may be taken.
Exit(p) ==
    /\ Stage(p) \in {"idle", "send"}
    /\ watcher[p].stop
    /\ watcher' = [watcher EXCEPT ![p].stage = "exited"]
    /\ UNCHANGED <<treeVars, connected, watches, caller, channel>>

TakeEvent(p) ==
    /\ Stage(p) = "idle"
    /\ watcher[p].queue # <<>>
    /\ watcher' = [watcher EXCEPT ![p].stage = "send", ![p].event = Head(watcher[p].queue),
                                  ![p].queue = Tail(@)]
    /\ UNCHANGED <<treeVars, connected, watches, caller, channel>>

SendEvent(p) ==
    /\ Stage(p) = "send"
    /\ Len(channel) < Capacity
    /\ channel' = Append(channel, [watch |-> p, event |-> watcher[p].event])
    /\ watcher' = [watcher EXCEPT ![p].stage =
                      IF watcher[p].recursive /\ watcher[p].event.op = "Create"
                      THEN "stat" ELSE "idle"]
    /\ UNCHANGED <<treeVars, connected, watches, caller>>

\* Fault of StatCreated: a new directory is added, and what is in it already is not.
StatCreatedAdds(p) ==
    LET n == watcher[p].event.at IN
    /\ Stage(p) = "stat"
    /\ watcher' = [watcher EXCEPT
                      ![p].stage = "idle",
                      ![p].marks = IF n \in exists \cap Dirs THEN @ \cup {n} ELSE @]
    /\ UNCHANGED <<treeVars, connected, watches, caller, channel>>

\* Adaptor.Stat of what was created: is it (still) there, and a directory?  An error
\* of it on what is there is a directory that could not be looked at.
StatCreated(p) ==
    LET n == watcher[p].event.at
        w == [watcher[p] EXCEPT !.stage = "idle"]
        isDir == connected /\ n \in exists \cap Dirs
    IN
    /\ Stage(p) = "stat"
    /\ \/ /\ watcher' = [watcher EXCEPT ![p] =
                            IF isDir THEN [w EXCEPT !.stage = "expand", !.todo = <<Visit(n)>>]
                            ELSE w]
          /\ UNCHANGED faults
       \/ isDir /\ Skips(p, w, n)
    /\ UNCHANGED <<exists, changes, connected, watches, caller, channel>>

Expand(p) ==
    /\ Stage(p) = "expand"
    /\ \/ WalkOn(p)
       \/ /\ watcher[p].todo = <<>>
          /\ watcher' = [watcher EXCEPT ![p].stage = "idle"]
          /\ UNCHANGED faults
    /\ UNCHANGED <<exists, changes, connected, watches, caller, channel>>

-----------------------------------------------------------------------------
(***************************************************************************)
(* The tree changes.  fsnotify queues an event when it watches the node or *)
(* its parent; a directory that is removed loses its mark.  An addRecursive *)
(* that has read the names in the parent, and not added it, never learns   *)
(* of what is created.                                                     *)
(***************************************************************************)
Queued(w, event) ==
    IF Len(w.queue) < MaxQueue
    THEN [w EXCEPT !.queue = Append(@, event)]
    ELSE [w EXCEPT !.queue = IF Last(@) = Overflow THEN @ ELSE Append(@, Overflow),
                   !.lost = TRUE]

Notify(event) ==
    watcher' = [p \in Watchable |->
                   LET w == watcher[p]
                       late == /\ Add(Parent[event.at]) \in Range(w.todo)
                               /\ Parent[event.at] \notin w.marks
                       v == IF event.op = "Remove"
                            THEN [w EXCEPT !.marks = @ \ {event.at},
                                           !.missed = @ \ {event.at}]
                            ELSE [w EXCEPT !.missed = IF late THEN @ \cup {event.at} ELSE @]
                   IN  IF w.marks \cap {event.at, Parent[event.at]} # {}
                       THEN Queued(v, event) ELSE v]

CreateNode(n) ==
    /\ changes < MaxChanges
    /\ n \notin exists
    /\ Parent[n] \in exists
    /\ exists' = exists \cup {n}
    /\ changes' = changes + 1
    /\ Notify([op |-> "Create", at |-> n])
    /\ UNCHANGED <<faults, connected, watches, caller, channel>>

RemoveNode(n) ==
    /\ changes < MaxChanges
    /\ n \in exists
    /\ \A m \in exists \ {Base} : Parent[m] # n
    /\ exists' = exists \ {n}
    /\ changes' = changes + 1
    /\ Notify([op |-> "Remove", at |-> n])
    /\ UNCHANGED <<faults, connected, watches, caller, channel>>

\* The consumer, which may stop receiving at any time.
Receive ==
    /\ channel # <<>>
    /\ channel' = Tail(channel)
    /\ UNCHANGED <<treeVars, connected, watches, watcher, caller>>

Run(p) == Exit(p) \/ TakeEvent(p) \/ SendEvent(p) \/ StatCreated(p) \/ Expand(p)

CallerGoesOn == WatchAdds \/ WatchGoes \/ WatchRegisters \/ StopEnds \/ DisconnectNext

Next ==
    \/ Connect
    \/ DisconnectBegins
    \/ \E p \in Watchable :
          \/ \E recursive \in BOOLEAN : WatchBegins(p, recursive)
          \/ UnwatchBegins(p)
          \/ Run(p)
    \/ CallerGoesOn
    \/ \E n \in Nodes \ {Base} : CreateNode(n) \/ RemoveNode(n)
    \/ Receive

Spec == Init /\ [][Next]_vars

(***************************************************************************)
(* Goroutines that can run do.  A select with several ready cases chooses  *)
(* at random, so a case that is ready again and again is taken: stop.      *)
(***************************************************************************)
Fairness ==
    /\ WF_vars(CallerGoesOn)
    /\ \A p \in Watchable : WF_vars(Run(p)) /\ SF_vars(Exit(p))

FairSpec == Spec /\ Fairness
=============================================================================
