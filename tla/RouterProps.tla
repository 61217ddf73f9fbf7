---------------------------- MODULE RouterProps ----------------------------
(***************************************************************************)
(* What the router promises: properties of module Router.                  *)
(***************************************************************************)
EXTENDS Router

Errors == {"ErrClosed", "ErrInvalidPath", "ErrNotMounted", "ErrReadOnly",
           "ErrNotSupported", "ErrCrossDevice"}
RelPaths == {RelPath(p, q) : p, q \in Places}
Results == {Nothing} \cup {Refused(err) : err \in Errors}
           \cup {<<"route", a, rel>> : a \in Adaptors, rel \in RelPaths}
Answers == {Nothing} \cup {Refused(err) : err \in Errors}
           \cup {<<"adaptor", a, rel>> : a \in Adaptors, rel \in RelPaths}
           \cup {<<"rename", a, rel1, rel2>> : a \in Adaptors, rel1, rel2 \in RelPaths}
           \cup {Listing(S) : S \in SUBSET Components}
Calls ==
    [stage : {"idle", "old", "list", "resolve", "answered"},
     op : OneLookOps \cup {"Rename", "ReadDir", "none"}, name : Names, to : Names,
     first : Results, found : Results, answer : Answers,
     late : BOOLEAN, moves : 0..MaxMoves]

\* Type correctness of the router and of the calls in progress.
TypeOK ==
    /\ mounts \in [Places -> Adaptors \cup {NoAdaptor}]
    /\ paths \in Seq(Places)
    /\ closed \in BOOLEAN
    /\ connected \in [Adaptors -> BOOLEAN]
    /\ call \in [Clients -> Calls]
    /\ legal \in [Clients -> SUBSET Answers]

(***************************************************************************)
(* The list resolve scans is exactly the set of mount points of the map,   *)
(* each once, longest first, after every sequence of Mount and Unmount.    *)
(***************************************************************************)
ListAgrees ==
    /\ ToSet(paths) = Mounted
    /\ IsInjective(paths)
    /\ LongestFirst(paths)

(***************************************************************************)
(* Every operation is answered as a mount table in force during the call   *)
(* would answer it.  For the two operations that look twice (Rename, and   *)
(* ReadDir of "/") this is so only when no mount, unmount or close fell    *)
(* between the looks.  A ReadDir that starts after Close is left out: of   *)
(* "/" it still lists the mounts.                                          *)
(***************************************************************************)
AnswerExplained ==
    \A c \in Clients :
        /\ call[c].stage = "answered"
        /\ call[c].op \in {"Rename", "ReadDir"} => call[c].moves = 0
        /\ call[c].late => call[c].op # "ReadDir"
        => call[c].answer \in legal[c]

(***************************************************************************)
(* A call that starts after Close never reaches an adaptor, whichever of   *)
(* its looks is the one that notices.                                      *)
(***************************************************************************)
NoReachAfterClose ==
    \A c \in Clients :
        call[c].late => call[c].answer[1] \notin {"adaptor", "rename"}

(***************************************************************************)
(* The router implements the atomic mount table: scanning the sorted list  *)
(* finds what the table's longest-prefix rule says (Table!TableSpec).      *)
(***************************************************************************)
ImplementsTable == Table!TableSpec

=============================================================================
