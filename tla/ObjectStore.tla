----------------------------- MODULE ObjectStore -----------------------------
(***************************************************************************)
(* adaptors/s3/s3.go behind adaptors/cloud/vfs_wrapper.go: a file system   *)
(* on an object store, which has keys and no directories.  A directory is  *)
(* there when some key lies below it; Mkdir puts an empty object, its      *)
(* marker, whose key ends in a slash.  The store serves one request at a   *)
(* time; Stat, Open, listing, Rename and RemoveAll are several requests,   *)
(* and the requests of other clients, failures and the end of the program  *)
(* come in between.                                                        *)
(***************************************************************************)
EXTENDS VFSPath, Integers, FiniteSets

CONSTANTS Paths,    \* paths in the bucket, with Root
          Rank,     \* Rank[k]: the place of key k in the order of listings
          Contents, \* what files hold
          Empty,    \* what a marker holds
          Absent,
          PageSize, \* keys in a page of a listing (1000 in S3)
          Clients,
          Ops,      \* Ops[c]: the operations client c uses, each with its two paths
          Source,   \* Source[p]: the key S3 copies from when asked for that of p
          NoKey,    \* none of Keys
          MaxFaults \* bound: requests that fail

Key(p) == [at |-> p, marker |-> FALSE]
Marker(p) == [at |-> p, marker |-> TRUE]
Keys == [at : Paths \ {Root}, marker : BOOLEAN]

ASSUME StoreAssumption ==
    /\ IsFiniteSet(Paths) /\ Paths \subseteq Seq(STRING) /\ Root \in Paths
    /\ \A p \in Paths : \A n \in 0..Len(p) : SubSeq(p, 1, n) \in Paths
    /\ Rank \in [Keys -> Nat \ {0}]
    /\ \A k, l \in Keys : Rank[k] = Rank[l] => k = l
    /\ Absent \notin Contents \cup {Empty}
    /\ PageSize \in Nat \ {0} /\ MaxFaults \in Nat
    /\ Ops \in [Clients -> SUBSET
                   ({"Stat", "Open", "ReadDir", "RemoveAll", "Write", "Remove", "Rename", "Mkdir"}
                    \X Paths \X Paths)]
    /\ \A c \in Clients : \A use \in Ops[c] :
          /\ use[1] # "Rename" => use[3] = use[2]
          /\ use[1] = "Mkdir" => use[2] # Root
    /\ Source \in [Paths \ {Root} -> Keys \cup {NoKey}] /\ NoKey \notin Keys

VARIABLES object, \* object[k]: what is stored under key k, or Absent
          call,   \* call[c]: the call client c is in.  History: was, the keys there
                  \* were when it began, body, what was under the key of its path,
                  \* written and removed, what other clients changed since
          faults

vars == <<object, call, faults>>

Idle == [op |-> "none", at |-> Root, to |-> Root, stage |-> "idle", token |-> 0,
         got |-> {}, kind |-> "none", ok |-> FALSE, body |-> Absent,
         was |-> {}, written |-> {}, removed |-> {}]

Init ==
    /\ object = [k \in Keys |-> Absent]
    /\ call = [c \in Clients |-> Idle]
    /\ faults = 0

Present == {k \in Keys : object[k] # Absent}
IsFile(p) == p # Root /\ Key(p) \in Present

\* The key lies below p in the bucket: it starts with p and a slash.
Below(p, k) == p = Root \/ IsStrictPrefix(p, k.at) \/ k = Marker(p)

(***************************************************************************)
(* An entry of a listing of p with the delimiter: a key without a further  *)
(* slash (p's own marker is one), or the common prefix of those with one.  *)
(***************************************************************************)
Entry(p, k) ==
    IF k = Marker(p) \/ (k = Key(k.at) /\ Front(k.at) = p)
    THEN [key |-> k, isDir |-> FALSE]
    ELSE [key |-> Marker(SubSeq(k.at, 1, Len(p) + 1)), isDir |-> TRUE]

Listed(p, recursive) ==
    LET below == {k \in Present : Below(p, k)} IN
    IF recursive THEN {[key |-> k, isDir |-> FALSE] : k \in below}
    ELSE {Entry(p, k) : k \in below}

-----------------------------------------------------------------------------
At(c, stage) == call[c].stage = stage
Goto(c, stage) == call' = [call EXCEPT ![c].stage = stage]
Done(c, ok) == [call EXCEPT ![c].stage = "done", ![c].ok = ok]

\* A request fails.
Fault ==
    /\ faults < MaxFaults
    /\ faults' = faults + 1

Fails(c) == Fault /\ call' = Done(c, FALSE) /\ UNCHANGED object

Listing == {"ReadDir", "RemoveAll"}

\* The keys that the call's result may depend on.
Concerns(p, q) == {k \in Keys : k.at = p \/ k.at = q \/ Below(p, k)}

\* calls, with what c wrote and removed noted in the calls of the others.
Noted(calls, c, wrote, gone) ==
    [d \in Clients |->
        IF d = c \/ calls[d].op \notin Listing \cup {"Rename"} THEN calls[d]
        ELSE LET concern == Concerns(calls[d].at, calls[d].to) IN
             [calls[d] EXCEPT !.written = @ \cup (wrote \cap concern),
                              !.removed = @ \cup (gone \cap concern)]]

\* PutObject and DeleteObject, of client c, which goes on as calls says.
PutObject(c, k, x, calls) ==
    /\ object' = [object EXCEPT ![k] = x]
    /\ call' = Noted(calls, c, {k}, {})

DropObject(c, k, calls) ==
    /\ object' = [object EXCEPT ![k] = Absent]
    /\ call' = Noted(calls, c, {}, {k})

-----------------------------------------------------------------------------
FirstStage ==
    [Stat |-> "head", Open |-> "head", ReadDir |-> "list", RemoveAll |-> "list",
     Write |-> "put", Remove |-> "delete", Rename |-> "copy", Mkdir |-> "mark"]

Begin(c, op, p, q) ==
    /\ At(c, "idle")
    /\ call' = [call EXCEPT ![c] =
                   [Idle EXCEPT !.op = op, !.at = p, !.to = q, !.stage = FirstStage[op],
                                !.was = IF op \in Listing THEN Present \cap Concerns(p, q)
                                        ELSE {},
                                !.body = IF op = "Rename" /\ p # Root
                                         THEN object[Key(p)] ELSE Absent]]
    /\ UNCHANGED <<object, faults>>

(***************************************************************************)
(* Stat: HeadObject, and whatever its error is, a listing of one key below *)
(* the path.  The root's key is the empty string, which no object has, and *)
(* the listing then asks for keys that start with a slash: there are none. *)
(***************************************************************************)
HeadObject(c) ==
    LET p == call[c].at IN
    /\ At(c, "head")
    /\ \/ /\ IsFile(p)
          /\ call' = [call EXCEPT ![c].kind = "file", ![c].ok = TRUE,
                          ![c].stage = IF call[c].op = "Open" THEN "get" ELSE "done"]
          /\ UNCHANGED faults
       \/ /\ ~IsFile(p)
          /\ Goto(c, "probe")
          /\ UNCHANGED faults
       \/ Fault /\ Goto(c, "probe")
    /\ UNCHANGED object

Probe(c) ==
    LET isDir == call[c].at # Root /\ \E k \in Present : Below(call[c].at, k) IN
    /\ At(c, "probe")
    /\ \/ /\ call' = [Done(c, isDir) EXCEPT ![c].kind = IF isDir THEN "dir" ELSE "none"]
          /\ UNCHANGED <<object, faults>>
       \/ Fails(c)

\* Open of a file: GetObject, which fails when the object has gone since.
GetObject(c) ==
    /\ At(c, "get")
    /\ \/ /\ call' = Done(c, IsFile(call[c].at))
          /\ UNCHANGED <<object, faults>>
       \/ Fails(c)

\* Fault of ListPage: the first page counts as the whole listing.
ListPageOnce(c) ==
    LET left == {e \in Listed(call[c].at, call[c].op = "RemoveAll") :
                    Rank[e.key] > call[c].token}
        page == {e \in left :
                    Cardinality({d \in left : Rank[d.key] < Rank[e.key]}) < PageSize}
    IN
    /\ At(c, "list")
    /\ \/ /\ call' = [call EXCEPT ![c].got = page,
                          ![c].ok = call[c].op = "ReadDir",
                          ![c].stage = IF call[c].op = "ReadDir" THEN "done" ELSE "each"]
          /\ UNCHANGED <<object, faults>>
       \/ Fails(c)

\* List: page by page, each one of the bucket as it is by then.
ListPage(c) ==
    LET left == {e \in Listed(call[c].at, call[c].op = "RemoveAll") :
                    Rank[e.key] > call[c].token}
        page == {e \in left :
                    Cardinality({d \in left : Rank[d.key] < Rank[e.key]}) < PageSize}
        last == IF page = left THEN 0
                ELSE CHOOSE n \in {Rank[e.key] : e \in page} :
                        \A e \in page : Rank[e.key] <= n
    IN
    /\ At(c, "list")
    /\ \/ /\ call' = [call EXCEPT
                          ![c].got = @ \cup page, ![c].token = last,
                          ![c].ok = page = left /\ call[c].op = "ReadDir",
                          ![c].stage = IF page # left THEN "list"
                                       ELSE IF call[c].op = "ReadDir" THEN "done" ELSE "each"]
          /\ UNCHANGED <<object, faults>>
       \/ Fails(c)

\* RemoveAll deletes what List returned, in its order, and then the path itself.
DeleteEach(c) ==
    /\ At(c, "each")
    /\ \/ /\ call[c].got = {}
          /\ Goto(c, "delete")
          /\ UNCHANGED <<object, faults>>
       \/ \E e \in call[c].got :
             /\ \A d \in call[c].got : Rank[e.key] <= Rank[d.key]
             /\ DropObject(c, e.key, [call EXCEPT ![c].got = @ \ {e}])
             /\ UNCHANGED faults
       \/ Fails(c)

\* DeleteObject succeeds whether or not the key exists; the empty key is refused.
DeletePath(c) ==
    LET p == call[c].at IN
    /\ At(c, "delete")
    /\ \/ /\ p # Root
          /\ DropObject(c, Key(p), Done(c, TRUE))
          /\ UNCHANGED faults
       \/ /\ p = Root
          /\ call' = Done(c, FALSE)
          /\ UNCHANGED <<object, faults>>
       \/ Fails(c)

\* Close of a written file.
Upload(c) ==
    /\ At(c, "put")
    /\ \/ /\ call[c].at # Root
          /\ \E x \in Contents : PutObject(c, Key(call[c].at), x, Done(c, TRUE))
          /\ UNCHANGED faults
       \/ /\ call[c].at = Root
          /\ call' = Done(c, FALSE)
          /\ UNCHANGED <<object, faults>>
       \/ Fails(c)

(***************************************************************************)
(* Move: CopyObject, then DeleteObject.  The source of a copy is given as  *)
(* bucket/key, which S3 decodes as it does URLs and the code does not      *)
(* encode: for a name with a plus or %XX in it another object is copied,   *)
(* or none.  Only an object can be copied, not onto itself.                *)
(***************************************************************************)
Copies(p, q) == p # Root /\ q # Root /\ Source[p] \in Present \ {Key(q)}

\* Fault of CopyObject: Move goes on when the copy has failed.
CopyObjectAnyway(c) ==
    LET p == call[c].at  q == call[c].to IN
    /\ At(c, "copy")
    /\ \/ /\ Copies(p, q)
          /\ PutObject(c, Key(q), object[Source[p]], [call EXCEPT ![c].stage = "delete"])
          /\ UNCHANGED faults
       \/ Fault /\ Goto(c, "delete") /\ UNCHANGED object

CopyObject(c) ==
    LET p == call[c].at  q == call[c].to IN
    /\ At(c, "copy")
    /\ \/ /\ Copies(p, q)
          /\ PutObject(c, Key(q), object[Source[p]], [call EXCEPT ![c].stage = "delete"])
          /\ UNCHANGED faults
       \/ /\ ~Copies(p, q)
          /\ call' = Done(c, FALSE)
          /\ UNCHANGED <<object, faults>>
       \/ Fails(c)

\* CreateDirectory puts the marker.
PutMarker(c) ==
    /\ At(c, "mark")
    /\ \/ PutObject(c, Marker(call[c].at), Empty, Done(c, TRUE)) /\ UNCHANGED faults
       \/ Fails(c)

Return(c) ==
    /\ At(c, "done")
    /\ call' = [call EXCEPT ![c] = Idle]
    /\ UNCHANGED <<object, faults>>

\* The client's program ends in the middle of a call.
Crash(c) ==
    /\ call[c].stage \notin {"idle", "done"}
    /\ call' = [call EXCEPT ![c] = Idle]
    /\ UNCHANGED <<object, faults>>

Working(c) == HeadObject(c) \/ Probe(c) \/ GetObject(c) \/ ListPage(c) \/ DeleteEach(c) \/ DeletePath(c)
              \/ Upload(c) \/ CopyObject(c) \/ PutMarker(c)

\* Mkdir of the mount point itself is left out.
Next ==
    \E c \in Clients :
        \/ \E use \in Ops[c] : Begin(c, use[1], use[2], use[3])
        \/ Working(c)
        \/ Return(c)
        \/ Crash(c)

Spec == Init /\ [][Next]_vars
=============================================================================
