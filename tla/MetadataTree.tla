----------------------------- MODULE MetadataTree -----------------------------
(***************************************************************************)
(* pkg/metadata/service.go: the two operations that go through a directory *)
(* tree.  Walk (behind "finspect metadata index") visits a tree from the   *)
(* top with GetOrExtract; UpdateDirectory extracts the entries of each     *)
(* directory and puts them in the store in one batch per directory, the    *)
(* batches of subdirectories first.  Both list a directory once and then   *)
(* work on names that may have gone, in the order the adaptor lists them,  *)
(* which may be any.                                                       *)
(***************************************************************************)
EXTENDS MetadataService, Sequences

CONSTANTS Parent,   \* Parent[p]: the directory p is in, or NoPath
          NoPath,
          Traveller, \* the client that walks
          Kinds,     \* the traversals it makes: Walk, UpdateDirectory
          MaxChanges \* bound: times a file is written or removed by others,
                     \* or the process is restarted

ASSUME TreeAssumption ==
    /\ Traveller \in Clients
    /\ NoPath \notin Paths
    /\ Kinds \subseteq {"Walk", "UpdateDirectory"}
    /\ MaxChanges \in Nat
    /\ Parent \in [Paths -> Dirs \cup {NoPath}]
    \* No path is below itself: of some paths, one has its parent elsewhere.
    /\ \A S \in SUBSET Paths : S # {} => \E p \in S : Parent[p] \notin S

VARIABLES trip,    \* the traversal: its kind, its stage, the path it is at and,
                   \* for each directory it is in, the entries left and the
                   \* batch collected (Walk collects none)
          visits,  \* history: how often Walk called back for a path
          steady,  \* history: the paths there since the traversal began
          told,    \* history: the paths whose failure was told: handed to
                   \* Walk's fn, or printed as a warning of UpdateDirectory
          changes  \* how often others wrote or removed a file or the process died

treeVars == <<trip, visits, steady, told, changes>>
allVars == <<vars, treeVars>>

AtRest == [kind |-> "none", stage |-> "rest", root |-> NoPath, at |-> NoPath, frames |-> <<>>]

Here == {p \in Paths : disk[p] # 0}
Entries(dir) == {p \in Here : Parent[p] = dir}

TreeInit ==
    /\ Init
    /\ trip = AtRest
    /\ visits = [p \in Paths |-> 0]
    /\ steady = {}
    /\ told = {}
    /\ changes = 0

Travels(kind, stage) == trip.kind = kind /\ trip.stage = stage
Enter(dir) == [dir |-> dir, left |-> Entries(dir), batch |-> {}]
Entered == [trip EXCEPT !.frames = Append(@, Enter(trip.at)), !.stage = "next"]
Top == trip.frames[Len(trip.frames)]
Rest == SubSeq(trip.frames, 1, Len(trip.frames) - 1)
Finish(outcome) == [trip EXCEPT !.stage = outcome, !.at = NoPath, !.frames = <<>>]

\* The traversal calls an operation on one path, and takes its result.
Call(op, p) == Begin(Traveller, op, p)
Took == call' = [call EXCEPT ![Traveller] = Idle]
        /\ UNCHANGED <<fileVars, dataVars, faults>>

\* The Stat or ReadDir of the traversal itself fails: its path has gone, or not.
RequestFails ==
    \/ trip.at \notin Here /\ UNCHANGED vars
    \/ trip.at \in Here /\ Fault /\ UNCHANGED <<fileVars, dataVars, call>>

-----------------------------------------------------------------------------
StartTrip(kind, p) ==
    /\ trip.stage \in {"rest", "ok", "err"}
    /\ At(Traveller, "idle")
    /\ trip' = [kind |-> kind, root |-> p, at |-> p, frames |-> <<>>,
                stage |-> IF kind = "Walk" THEN "stat" ELSE "list"]
    /\ visits' = [q \in Paths |-> 0]
    /\ steady' = Here
    /\ told' = {}
    /\ UNCHANGED <<vars, changes>>

\* fn(path, ...): it may stop the walk.
CallBack(next) ==
    /\ visits' = [visits EXCEPT ![trip.at] = @ + 1]
    /\ \/ trip' = [trip EXCEPT !.stage = next]
       \/ trip' = Finish("err")

\* Stat fails, since the path has gone or for another reason: fn is told, and
\* nothing below the path is looked at.
WalkStat ==
    /\ Travels("Walk", "stat")
    /\ \/ /\ RequestFails
          /\ CallBack("next")
          /\ told' = told \cup {trip.at}
       \/ /\ trip.at \in Here
          /\ Call("GetOrExtract", trip.at)
          /\ trip' = [trip EXCEPT !.stage = "called"]
          /\ UNCHANGED <<visits, told>>
    /\ UNCHANGED <<steady, changes>>

WalkVisit ==
    /\ Travels("Walk", "called")
    /\ At(Traveller, "done")
    /\ CallBack(IF trip.at \in Dirs THEN "list" ELSE "next")
    /\ Took
    /\ UNCHANGED <<steady, told, changes>>

\* Fault of WalkList: a directory that cannot be read is tried again.
WalkListRetries ==
    /\ Travels("Walk", "list")
    /\ trip' = IF trip.at \in Here THEN Entered ELSE trip
    /\ UNCHANGED <<vars, visits, steady, told, changes>>

\* Fault of WalkList: a directory that cannot be read is taken for an empty one.
WalkListIgnores ==
    /\ Travels("Walk", "list")
    /\ \/ trip.at \in Here /\ trip' = Entered /\ UNCHANGED vars
       \/ /\ RequestFails
          /\ trip' = [trip EXCEPT !.stage = "next"]
    /\ UNCHANGED <<visits, steady, told, changes>>

\* A directory that cannot be read ends the walk, however deep it is.
WalkList ==
    /\ Travels("Walk", "list")
    /\ \/ trip.at \in Here /\ trip' = Entered /\ UNCHANGED vars
       \/ /\ RequestFails
          /\ trip' = Finish("err")
    /\ UNCHANGED <<visits, steady, told, changes>>

WalkNext ==
    /\ Travels("Walk", "next")
    /\ IF trip.frames = <<>> THEN trip' = Finish("ok")
       ELSE IF Top.left = {} THEN trip' = [trip EXCEPT !.frames = Rest]
       ELSE \E p \in Top.left :
               trip' = [trip EXCEPT !.frames = Append(Rest, [Top EXCEPT !.left = @ \ {p}]),
                                    !.at = p, !.stage = "stat"]
    /\ UNCHANGED <<vars, visits, steady, told, changes>>

-----------------------------------------------------------------------------
\* An error of a subdirectory is only warned about: its caller goes on.
UpdateFails(dir, frames) ==
    /\ trip' = IF frames = <<>> THEN Finish("err")
               ELSE [trip EXCEPT !.frames = frames, !.stage = "next"]
    /\ told' = told \cup {dir}

UpdateList ==
    /\ Travels("UpdateDirectory", "list")
    /\ \/ trip.at \in Here /\ trip' = Entered /\ UNCHANGED <<vars, told>>
       \/ /\ RequestFails
          /\ UpdateFails(trip.at, trip.frames)
    /\ UNCHANGED <<visits, steady, changes>>

UpdateNext ==
    /\ Travels("UpdateDirectory", "next")
    /\ \E p \in Top.left :
          /\ Call("Extract", p)
          /\ trip' = [trip EXCEPT !.frames = Append(Rest, [Top EXCEPT !.left = @ \ {p}]),
                                  !.at = p, !.stage = "called"]
    /\ UNCHANGED <<visits, steady, told, changes>>

\* An entry whose Extract failed is only warned about.
UpdateCollect ==
    /\ Travels("UpdateDirectory", "called")
    /\ At(Traveller, "done")
    /\ IF call[Traveller].failed
       THEN trip' = [trip EXCEPT !.stage = "next"] /\ told' = told \cup {trip.at}
       ELSE /\ trip' = [trip EXCEPT
                  !.frames = Append(Rest, [Top EXCEPT !.batch =
                                 @ \cup {[path |-> trip.at, meta |-> call[Traveller].meta]}]),
                  !.stage = IF trip.at \in Dirs THEN "list" ELSE "next"]
            /\ UNCHANGED told
    /\ Took
    /\ UNCHANGED <<visits, steady, changes>>

Batched(batch) ==
    [p \in Paths |-> IF \E b \in batch : b.path = p
                     THEN (CHOOSE b \in batch : b.path = p).meta
                     ELSE store[p]]

Leave == trip' = IF Rest = <<>> THEN Finish("ok") ELSE [trip EXCEPT !.frames = Rest]

\* Fault of BatchPut: a transaction that failed is forgotten.
BatchPutForgets ==
    /\ Travels("UpdateDirectory", "next")
    /\ Top.left = {}
    /\ \/ store' = Batched(Top.batch) /\ UNCHANGED faults
       \/ Top.batch # {} /\ Fault /\ UNCHANGED store
    /\ Leave
    /\ UNCHANGED <<fileVars, cache, index, call, visits, steady, told, changes>>

\* The entries are done: their rows are put in one transaction, all or none.
BatchPut ==
    /\ Travels("UpdateDirectory", "next")
    /\ Top.left = {}
    /\ \/ /\ store' = Batched(Top.batch)
          /\ Leave
          /\ UNCHANGED <<faults, told>>
       \/ /\ Top.batch # {}
          /\ Fault
          /\ UpdateFails(Top.dir, Rest)
          /\ UNCHANGED store
    /\ UNCHANGED <<fileVars, cache, index, call, visits, steady, changes>>

-----------------------------------------------------------------------------
\* Files come and go under directories that are there.
Change ==
    /\ changes < MaxChanges
    /\ changes' = changes + 1

TreeWrite(p) ==
    /\ Parent[p] # NoPath => Parent[p] \in Here
    /\ WriteFile(p)
    /\ Change
    /\ UNCHANGED <<trip, visits, steady, told>>

TreeRemove(p) ==
    /\ Entries(p) = {}
    /\ RemoveFile(p)
    /\ steady' = steady \ {p}
    /\ Change
    /\ UNCHANGED <<trip, visits, told>>

TreeRestart ==
    /\ Restart
    /\ trip' = AtRest
    /\ visits' = [p \in Paths |-> 0]
    /\ steady' = {}
    /\ told' = {}
    /\ Change

Walking == WalkStat \/ WalkVisit \/ WalkList \/ WalkNext
Updating == UpdateList \/ UpdateNext \/ UpdateCollect \/ BatchPut

TreeNext ==
    \/ \E kind \in Kinds, p \in Dirs : StartTrip(kind, p)
    \/ Walking
    \/ Updating
    \/ Working(Traveller) /\ UNCHANGED treeVars
    \/ \E p \in Paths : TreeWrite(p) \/ TreeRemove(p)
    \/ TreeRestart

TreeSpec == TreeInit /\ [][TreeNext]_allVars

\* The walk runs when it can.
FairTreeSpec ==
    TreeSpec /\ WF_allVars(Walking \/ Updating \/ (Working(Traveller) /\ UNCHANGED treeVars))

=============================================================================
