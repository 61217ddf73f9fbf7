-------------------------- MODULE ObjectStoreProps --------------------------
(***************************************************************************)
(* What the adaptor makes of an object store: properties of ObjectStore.   *)
(***************************************************************************)
EXTENDS ObjectStore

Entries == [key : Keys, isDir : BOOLEAN]

Holds(p, x) == p # Root /\ object[Key(p)] = x

(***************************************************************************)
(* Rename copies and then deletes.  Unless somebody else changes one of    *)
(* the two keys, the file is under one of its names at every moment (a     *)
(* request may fail and the program may die at any of them), and under the *)
(* new one only once Rename has answered well.  It must be a name that S3  *)
(* does not read as another one: then the file may be lost for that one.   *)
(***************************************************************************)
MoveKeeps ==
    \A c \in Clients :
        LET e == call[c] IN
        /\ e.op = "Rename" /\ e.body # Absent /\ Source[e.at] \in {Key(e.at), NoKey}
        /\ {Key(e.at), Key(e.to)} \cap (e.written \cup e.removed) = {}
        => /\ ~At(c, "done") \/ ~e.ok => Holds(e.at, e.body) \/ Holds(e.to, e.body)
           /\ At(c, "done") /\ e.ok => ~IsFile(e.at) /\ Holds(e.to, e.body)

(***************************************************************************)
(* RemoveAll lists before it deletes and lists page by page: when it has   *)
(* answered well, nothing is left at or below the path, markers included,  *)
(* but what other clients wrote since it began.                            *)
(***************************************************************************)
RemoveAllClears ==
    \A c \in Clients :
        LET e == call[c] IN
        At(c, "done") /\ e.op = "RemoveAll" /\ e.ok =>
            {k \in Present : Below(e.at, k) \/ k = Key(e.at)} \subseteq e.written

(***************************************************************************)
(* A listing that takes several pages of a changing bucket still has every *)
(* entry that was there from beginning to end, and none that never was.    *)
(***************************************************************************)
ListsWhatStays ==
    \A c \in Clients :
        LET e == call[c]
            below == {k \in e.was \cup e.written : Below(e.at, k)}
        IN
        At(c, "done") /\ e.op = "ReadDir" /\ e.ok =>
            /\ {Entry(e.at, k) : k \in below \ (e.removed \cup (e.written \ e.was))}
                  \subseteq e.got
            /\ e.got \subseteq {Entry(e.at, k) : k \in below}

=============================================================================
