----------------------------- MODULE GoogleDrive -----------------------------
(***************************************************************************)
(* adaptors/googledrive/googledrive.go behind the cloud wrapper.  Drive    *)
(* keeps files by id; a file has a name and a folder it is in, and several *)
(* files of one folder may have the same name.  The adaptor finds a path   *)
(* name by name, one request each, taking any file of that name, and       *)
(* creates the folders that are missing after it has looked for them.      *)
(* Requests are atomic; those of other clients, failures and the end of    *)
(* the program come in between.                                            *)
(***************************************************************************)
EXTENDS VFSPath, Integers, FiniteSets

CONSTANTS Paths,    \* paths that callers use, with Root
          Contents, \* what files hold
          NoContent,
          Clients,
          Ops,      \* Ops[c]: the operations client c uses
          MaxFiles, \* bound: files created
          MaxFaults \* bound: requests that fail

ASSUME DriveAssumption ==
    /\ Root \in Paths /\ Paths \subseteq Seq(STRING)
    /\ \A p \in Paths \ {Root} : Front(p) \in Paths
    /\ NoContent \notin Contents
    /\ Ops \in [Clients -> SUBSET {"Stat", "Open", "ReadDir", "Write", "Remove", "RemoveAll",
                                   "Rename", "Copy", "Mkdir"}]
    /\ MaxFiles \in Nat /\ MaxFaults \in Nat

Top == 0                     \* id of the root folder
Ids == 1..MaxFiles
Parent(p) == IF p = Root THEN Root ELSE Front(p)      \* splitPath

VARIABLES file,    \* file[i]: name, folder it is in, whether it is a folder, body
          created, \* ids are given out once: 1 to created have been
          call,    \* call[c]: the call client c is in.  History: was, the files
                   \* when it began; quiet, whether no other call was in
                   \* progress since; sure, while quiet, whether no
                   \* lookup of it failed
          faults

vars == <<file, created, call, faults>>

Gone == [name |-> "", in |-> Top, folder |-> FALSE, body |-> NoContent]

Idle == [op |-> "none", at |-> Root, to |-> Root, stage |-> "idle",
         goal |-> Root, making |-> FALSE, then |-> "none", node |-> Top, depth |-> 0,
         source |-> Top, parent |-> Top, todo |-> {}, body |-> NoContent,
         ok |-> FALSE, was |-> [i \in Ids |-> Gone], quiet |-> TRUE, sure |-> TRUE]

Init ==
    /\ file = [i \in Ids |-> Gone]
    /\ created = 0
    /\ call = [c \in Clients |-> Idle]
    /\ faults = 0

There == {i \in Ids : file[i] # Gone}
Folders == {Top} \cup {i \in There : file[i].folder}
Children(i) == {j \in There : file[j].in = i}
Called(i, name) == {j \in Children(i) : file[j].name = name}

\* A file and, when it is a folder, all that is below it in the files f: what is in
\* every set that has the file and, with a folder, what is in the folder.
Under(f, i) ==
    {j \in Ids \cup {i} :
        \A S \in SUBSET (Ids \cup {i}) :
            i \in S /\ (\A k \in Ids : f[k] # Gone /\ f[k].in \in S => k \in S) => j \in S}

-----------------------------------------------------------------------------
At(c, stage) == call[c].stage = stage
Set(c, e) == call' = [call EXCEPT ![c] = e]
Ended(e, ok) ==
    LET answered == [Idle EXCEPT !.stage = "done", !.ok = ok, !.quiet = e.quiet, !.sure = e.sure] IN
    IF e.quiet /\ e.sure
    THEN [answered EXCEPT !.op = e.op, !.at = e.at, !.to = e.to, !.body = e.body, !.was = e.was]
    ELSE answered
Done(c, ok) == Set(c, Ended(call[c], ok))

\* A request fails.
Fault ==
    /\ faults < MaxFaults
    /\ faults' = faults + 1

Fails(c) == Fault /\ Done(c, FALSE) /\ UNCHANGED <<file, created>>

\* getFileID (and, when making, getOrCreateFolder) of path; then comes the stage
\* that uses the id found.
Seek(e, path, making, then) ==
    [e EXCEPT !.stage = "find", !.goal = path, !.making = making, !.then = then,
              !.node = Top, !.depth = 0]

\* The folder to write into: the root needs no lookup.
Into(e, path, then) ==
    IF Parent(path) = Root
    THEN IF then = "save" THEN Seek([e EXCEPT !.parent = Top], path, FALSE, "save")
         ELSE [e EXCEPT !.parent = Top, !.stage = then]
    ELSE Seek(e, Parent(path), TRUE, "enter")

\* The lookup is over: what the operation does with the id found.
Found(e) ==
    LET found == [e EXCEPT !.source = e.node]
        entered == [e EXCEPT !.parent = e.node]
    IN
    CASE e.then = "made" -> Ended(e, TRUE)
      [] e.then = "source" -> Into(found, e.to, "copy")
      [] e.then = "enter" /\ e.op = "Write" -> Seek(entered, e.at, FALSE, "save")
      [] e.then = "enter" /\ e.op = "Rename" -> [entered EXCEPT !.stage = "move"]
      [] e.then = "enter" /\ e.op = "Copy" -> [entered EXCEPT !.stage = "copy"]
      [] OTHER -> [e EXCEPT !.stage = e.then]

\* The lookup failed: getOrCreateFolder starts to create, Write takes any error
\* for a file that is not there, the others give up.
NotFound(e) ==
    IF e.making THEN [e EXCEPT !.stage = "walk", !.node = Top, !.depth = 0]
    ELSE IF e.then = "save" THEN [e EXCEPT !.stage = "save", !.node = Top]
    ELSE Ended(e, FALSE)

Begun(e) ==
    CASE e.op \in {"Stat", "Open"} -> Seek(e, e.at, FALSE, "get")
      [] e.op \in {"ReadDir", "RemoveAll"} -> Seek(e, e.at, FALSE, "list")
      [] e.op = "Remove" -> Seek(e, e.at, FALSE, "delete")
      [] e.op = "Rename" -> Seek(e, e.at, FALSE, "parents")
      [] e.op = "Copy" -> Seek(e, e.at, FALSE, "source")
      [] e.op = "Mkdir" -> Seek(e, e.at, TRUE, "made")
      [] e.op = "Write" -> Into(e, e.at, "save")

\* History is kept of calls that nothing disturbs.
Disturbed(e) ==
    LET disturbed == [e EXCEPT !.quiet = FALSE, !.sure = TRUE, !.was = Idle.was]
    IN  IF e.stage = "done" THEN Ended(disturbed, e.ok) ELSE disturbed

Begin(c, op, p, q, x) ==
    /\ At(c, "idle")
    /\ call' = [d \in Clients |->
          IF d # c THEN IF At(d, "idle") THEN Idle ELSE Disturbed(call[d])
          ELSE LET e == [Idle EXCEPT !.op = op, !.at = p, !.to = q, !.body = x] IN
               Begun(IF \A o \in Clients \ {c} : At(o, "idle")
                     THEN [e EXCEPT !.was = file] ELSE Disturbed(e))]
    /\ UNCHANGED <<file, created, faults>>

-----------------------------------------------------------------------------
\* Fault of Find: a name that is not there is passed over.
FindStopsShort(c) ==
    LET e == call[c]
        named == IF e.depth < Len(e.goal) THEN Called(e.node, e.goal[e.depth + 1]) ELSE {}
    IN
    /\ At(c, "find")
    /\ IF e.depth = Len(e.goal) THEN Set(c, Found(e))
       ELSE \/ \E i \in named : Set(c, [e EXCEPT !.node = i, !.depth = @ + 1])
            \/ named = {} /\ Set(c, [e EXCEPT !.depth = @ + 1])
    /\ UNCHANGED <<file, created, faults>>

\* getFileID: one request for each name; the first of the files listed is taken.
Find(c) ==
    LET e == call[c]
        named == Called(e.node, e.goal[e.depth + 1])
    IN
    /\ At(c, "find")
    /\ \/ /\ e.depth = Len(e.goal)
          /\ Set(c, Found(e))
          /\ UNCHANGED faults
       \/ /\ e.depth < Len(e.goal)
          /\ \/ \E i \in named : Set(c, [e EXCEPT !.node = i, !.depth = @ + 1])
             \/ named = {} /\ Set(c, NotFound(e))
          /\ UNCHANGED faults
       \/ /\ e.depth < Len(e.goal)
          /\ Fault
          /\ Set(c, NotFound([e EXCEPT !.sure = ~e.quiet, !.was = Idle.was]))
    /\ UNCHANGED <<file, created>>

\* Fault of Walk: creates the whole path without looking for its folders again.
WalkCreatesAll(c) ==
    LET e == call[c] IN
    /\ At(c, "walk")
    /\ Set(c, IF e.depth = Len(e.goal) THEN Found(e) ELSE [e EXCEPT !.stage = "make"])
    /\ UNCHANGED <<file, created, faults>>

\* getOrCreateFolder, from the top again: look for a folder, or create it.
Walk(c) ==
    LET e == call[c]
        folders == Called(e.node, e.goal[e.depth + 1]) \cap Folders
    IN
    /\ At(c, "walk")
    /\ \/ /\ e.depth = Len(e.goal)
          /\ Set(c, Found(e))
          /\ UNCHANGED <<file, created, faults>>
       \/ /\ e.depth < Len(e.goal)
          /\ \/ \E i \in folders : Set(c, [e EXCEPT !.node = i, !.depth = @ + 1])
             \/ folders = {} /\ Set(c, [e EXCEPT !.stage = "make"])
          /\ UNCHANGED <<file, created, faults>>
       \/ e.depth < Len(e.goal) /\ Fails(c)

\* A file is created in a folder that is there.
CreateIn(i, f) ==
    /\ created < MaxFiles
    /\ i \in Folders
    /\ file' = [file EXCEPT ![created + 1] = f]
    /\ created' = created + 1

Refused(c, i) == i \notin Folders /\ Done(c, FALSE) /\ UNCHANGED <<file, created>>

\* Fault of Make: the folder created does not become the parent of the next.
MakeUnderTop(c) ==
    LET e == call[c] IN
    /\ At(c, "make")
    /\ CreateIn(e.node, [name |-> e.goal[e.depth + 1], in |-> e.node,
                         folder |-> TRUE, body |-> NoContent])
    /\ Set(c, [e EXCEPT !.stage = "walk", !.depth = @ + 1])
    /\ UNCHANGED faults

Make(c) ==
    LET e == call[c] IN
    /\ At(c, "make")
    /\ \/ /\ CreateIn(e.node, [name |-> e.goal[e.depth + 1], in |-> e.node,
                               folder |-> TRUE, body |-> NoContent])
          /\ Set(c, [e EXCEPT !.stage = "walk", !.node = created + 1, !.depth = @ + 1])
          /\ UNCHANGED faults
       \/ Refused(c, e.node) /\ UNCHANGED faults
       \/ Fails(c)

-----------------------------------------------------------------------------
\* Stat gets the file it found; Open, when that is not a folder, looks it up again.
Get(c) ==
    LET e == call[c] IN
    /\ At(c, "get")
    /\ \/ /\ IF e.op = "Open" /\ e.node \in There \ Folders
             THEN Set(c, Seek(e, e.at, FALSE, "download"))
             ELSE Done(c, e.node \in There \cup {Top})
          /\ UNCHANGED <<file, created, faults>>
       \/ Fails(c)

\* Read gets the type and then the content, or an export of it.
Download(c) ==
    /\ At(c, "download")
    /\ \/ Done(c, call[c].node \in There \cup {Top}) /\ UNCHANGED <<file, created, faults>>
       \/ Fails(c)

\* List asks for the children, whether or not it was told to be recursive.
List(c) ==
    LET e == call[c] IN
    /\ At(c, "list")
    /\ \/ /\ IF e.op = "RemoveAll" /\ e.node \in There \cup {Top}
             THEN Set(c, [e EXCEPT !.stage = "each",
                             !.todo = {<<i, file[i].name>> : i \in Children(e.node)}])
             ELSE Done(c, e.node \in There \cup {Top})
          /\ UNCHANGED <<file, created, faults>>
       \/ Fails(c)

\* RemoveAll deletes what was listed, each by its path, and then the path itself.
Each(c) ==
    LET e == call[c] IN
    /\ At(c, "each")
    /\ IF e.todo = {} THEN Set(c, Seek(e, e.at, FALSE, "delete"))
       ELSE \E t \in e.todo :
               Set(c, Seek([e EXCEPT !.todo = @ \ {t}], Append(e.at, t[2]), FALSE, "delete"))
    /\ UNCHANGED <<file, created, faults>>

\* Drive deletes a folder with what is in it; the root cannot be deleted.
Delete(c) ==
    LET e == call[c] IN
    /\ At(c, "delete")
    /\ \/ /\ e.node \in There
          /\ file' = [i \in Ids |-> IF i \in Under(file, e.node) THEN Gone ELSE file[i]]
          /\ IF e.op = "RemoveAll" /\ e.goal # e.at
             THEN Set(c, [e EXCEPT !.stage = "each"])
             ELSE Done(c, TRUE)
          /\ UNCHANGED <<created, faults>>
       \/ /\ e.node \notin There
          /\ Done(c, FALSE)
          /\ UNCHANGED <<file, created, faults>>
       \/ Fails(c)

\* Write: a new file when none was found, else new content for the one found.
Save(c) ==
    LET e == call[c] IN
    /\ At(c, "save")
    /\ \/ /\ e.at # Root /\ e.node = Top
          /\ \/ /\ CreateIn(e.parent, [name |-> Last(e.at), in |-> e.parent,
                                       folder |-> FALSE, body |-> e.body])
                /\ Done(c, TRUE)
             \/ Refused(c, e.parent)
          /\ UNCHANGED faults
       \/ /\ e.node \in There \ Folders
          /\ file' = [file EXCEPT ![e.node].name = Last(e.at), ![e.node].body = e.body]
          /\ Done(c, TRUE)
          /\ UNCHANGED <<created, faults>>
       \/ /\ e.at = Root \/ e.node \notin (There \ Folders) \cup {Top}
          /\ Done(c, FALSE)
          /\ UNCHANGED <<file, created, faults>>
       \/ Fails(c)

\* Move asks for the file's parents, finds or creates the new one, and updates.
Parents(c) ==
    LET e == call[c] IN
    /\ At(c, "parents")
    /\ \/ /\ IF e.node \in There \cup {Top}
             THEN Set(c, Into([e EXCEPT !.source = e.node], e.to, "move"))
             ELSE Done(c, FALSE)
          /\ UNCHANGED <<file, created, faults>>
       \/ Fails(c)

\* The new path "/" gives no name: the file keeps the one it has.
Move(c) ==
    LET e == call[c]
        moves == e.source \in There /\ e.parent \in Folders
                 /\ e.parent \notin Under(file, e.source)
    IN
    /\ At(c, "move")
    /\ \/ /\ moves
          /\ file' = [file EXCEPT ![e.source].in = e.parent,
                                  ![e.source].name = IF e.to = Root THEN @ ELSE Last(e.to)]
          /\ Done(c, TRUE)
          /\ UNCHANGED <<created, faults>>
       \/ ~moves /\ Done(c, FALSE) /\ UNCHANGED <<file, created, faults>>
       \/ Fails(c)

\* Copy makes a file of its own, whatever has the name already.
CopyFile(c) ==
    LET e == call[c] IN
    /\ At(c, "copy")
    /\ \/ /\ e.source \in There \ Folders
          /\ \/ /\ CreateIn(e.parent,
                        [file[e.source] EXCEPT !.in = e.parent,
                             !.name = IF e.to = Root THEN @ ELSE Last(e.to)])
                /\ Done(c, TRUE)
             \/ Refused(c, e.parent)
          /\ UNCHANGED faults
       \/ /\ e.source \notin There \ Folders
          /\ Done(c, FALSE)
          /\ UNCHANGED <<file, created, faults>>
       \/ Fails(c)

Return(c) ==
    /\ At(c, "done")
    /\ Set(c, Idle)
    /\ UNCHANGED <<file, created, faults>>

\* The client's program ends in the middle of a call.
Crash(c) ==
    /\ ~At(c, "idle") /\ ~At(c, "done")
    /\ Set(c, Idle)
    /\ UNCHANGED <<file, created, faults>>

Working(c) == Find(c) \/ Walk(c) \/ Make(c) \/ Get(c) \/ Download(c) \/ List(c)
              \/ Each(c) \/ Delete(c) \/ Save(c) \/ Parents(c) \/ Move(c)
              \/ CopyFile(c)

Next ==
    \E c \in Clients :
        \/ \E op \in Ops[c], p, q \in Paths, x \in Contents \cup {NoContent} :
              /\ op \in {"Rename", "Copy"} \/ q = p
              /\ IF op = "Write" THEN x # NoContent ELSE x = NoContent
              /\ Begin(c, op, p, q, x)
        \/ Working(c)
        \/ Return(c)
        \/ Crash(c)

Spec == Init /\ [][Next]_vars
=============================================================================
