------------------------------- MODULE Commands -------------------------------
(***************************************************************************)
(* mv, rm and cp of cmd/finspect over the local file system.  Each command *)
(* looks before it acts and acts in several steps; other programs write,   *)
(* make, move and remove files in between.  A path is the sequence of its  *)
(* names below the mount; <<>> is the mount's own directory.  A file has   *)
(* one name: links are left out.  What copyFile does piece by piece, and   *)
(* with objects, is in module FileCopy.                                    *)
(***************************************************************************)
EXTENDS Integers, Sequences, SequencesExt

CONSTANTS Names,      \* names of files and directories
          MaxDepth,   \* bound: names in a path; longer ones are refused
          Trees,      \* the trees a command may find, as [Paths -> {Absent, Dir, File}]
          Calls,      \* the commands that may be given: [op, recursive, force, args]
          Absent, Dir, File,
          Empty, Part, New,  \* contents: none yet, cut off, written by others
          MaxChanges, \* bound: what other programs do
          MaxFaults   \* bound: system calls that fail

Root == <<>>
Paths == UNION {[1..n -> Names] : n \in 0..MaxDepth}

\* Files as such: the n-th of those that were made at a path and are still in use.
\* A command makes one at a path, and other programs as many as they make changes.
Files == Paths \X (0..MaxChanges + 1)
NoFile == <<Root, 0>>

ASSUME CommandsAssumption ==
    /\ MaxDepth \in Nat \ {0}
    /\ MaxChanges \in Nat /\ MaxFaults \in Nat
    /\ Trees \subseteq [Paths -> {Absent, Dir, File}]
    /\ Calls \subseteq [op : {"mv", "rm", "cp"}, recursive : BOOLEAN, force : BOOLEAN,
                        args : Seq(Paths)]
    /\ \A c \in Calls : c.args # <<>> /\ (c.op # "rm" => Len(c.args) = 2 /\ c.args[1] # Root)
    /\ Absent # Dir /\ File \notin {Absent, Dir} /\ {Absent, Dir} \cap Files = {}
    \* What is above a file or a directory is a directory.
    /\ \A t \in Trees : \A p, q \in Paths : IsStrictPrefix(q, p) /\ t[p] # Absent => t[q] = Dir

VARIABLES node,    \* node[p]: Absent, Dir, or the file that is at p
          data,    \* data[f]: what file f holds; the file made at p first holds p
          cmd,     \* the command under way; touched and missed are history
          changes,
          faults

vars == <<node, data, cmd, changes, faults>>

Started(c) ==
    [op |-> c.op, recursive |-> c.recursive, force |-> c.force, args |-> c.args,
     stage |-> IF c.op = "rm" THEN "stat" ELSE "source",
     dest |-> Last(c.args),   \* where mv and cp are to put what they move
     dirs |-> <<>>,           \* copyDirectory calls, the innermost last
     from |-> Root, to |-> Root, in |-> NoFile, out |-> NoFile,  \* copyFile
     code |-> "ok", next |-> 1,
     top |-> Root, held |-> {},   \* RemoveAll: see Emptied
     touched |-> {},          \* paths that other programs changed
     missed |-> {}]           \* paths whose Stat failed

Init ==
    /\ \E t \in Trees : node = [p \in Paths |-> IF t[p] = File THEN <<p, 0>> ELSE t[p]]
    /\ data = [f \in Files |-> f[1]]
    /\ \E c \in Calls : cmd = Started(c)
    /\ changes = 0
    /\ faults = 0

-----------------------------------------------------------------------------
\* The adaptor's file system: what Stat tells, and the trees its calls leave.
Exists(p) == p \in Paths /\ node[p] # Absent
IsDir(p) == p \in Paths /\ node[p] = Dir
IsFile(p) == Exists(p) /\ ~IsDir(p)
Below(p, q) == IsStrictPrefix(p, q)
Parent(p) == Front(p)
Entries(p) == {n \in Names : Exists(Append(p, n))}

\* os.Create, os.Mkdir: the directory must be there, and the file system not full.
Free(p) == {f \in Files : f[1] = p} \ (Range(node) \cup {cmd.in, cmd.out})
MayCreate(p) == p \in Paths \ {Root} /\ IsDir(Parent(p)) /\ ~IsDir(p) /\ (IsFile(p) \/ Free(p) # {})
FileFor(p) == IF IsFile(p) THEN node[p] ELSE CHOOSE f \in Free(p) : TRUE

\* os.Remove: a file, or a directory without entries.
MayRemove(p) == Exists(p) /\ Entries(p) = {}

\* os.MkdirAll makes what is missing above a directory, too.
MayMakeAll(p) == p \in Paths /\ \A q \in Paths : IsPrefix(q, p) => ~IsFile(q)
MadeAll(p) == [q \in Paths |-> IF IsPrefix(q, p) THEN Dir ELSE node[q]]

(***************************************************************************)
(* os.Rename takes the place of a file, never of a directory, and moves no *)
(* directory below itself.  A tree that would grow too deep is not moved.  *)
(***************************************************************************)
MayRename(p, q) ==
    \/ p = q /\ Exists(p)
    \/ /\ Exists(p) /\ q \in Paths \ {Root} /\ IsDir(Parent(q)) /\ ~IsPrefix(p, q)
       /\ ~Exists(q) \/ (IsFile(p) /\ IsFile(q))
       /\ \A s \in Paths : Exists(s) /\ IsPrefix(p, s) => Len(q) + Len(s) - Len(p) <= MaxDepth

Moved(p, q, s) == q \o SubSeq(s, Len(p) + 1, Len(s))

Renamed(p, q) ==
    [s \in Paths |-> IF p = q THEN node[s]
                     ELSE IF IsPrefix(q, s) /\ Moved(q, p, s) \in Paths
                          THEN node[Moved(q, p, s)]
                     ELSE IF IsPrefix(p, s) \/ IsPrefix(q, s) THEN Absent ELSE node[s]]

-----------------------------------------------------------------------------
At(ops, stage) == cmd.op \in ops /\ cmd.stage = stage
Goto(stage) == cmd' = [cmd EXCEPT !.stage = stage]
Exit(code) == cmd' = [cmd EXCEPT !.stage = "done", !.code = code]
Fault == faults < MaxFaults /\ faults' = faults + 1
Quietly == UNCHANGED <<node, data, changes>>

\* A system call that fails ends the command.
Fails == Fault /\ Exit("error") /\ UNCHANGED <<node, data>>

Source == cmd.args[1]

\* Stat of mv's or cp's source: any error ends the command.
StatSource ==
    /\ At({"mv", "cp"}, "source")
    /\ \/ /\ Exists(Source)
          /\ IF cmd.op = "cp" /\ IsDir(Source) /\ ~cmd.recursive THEN Exit("error")
             ELSE Goto(IF cmd.op = "cp" /\ IsDir(Source) THEN "destOfDir" ELSE "dest")
          /\ UNCHANGED faults
       \/ ~Exists(Source) /\ Exit("error") /\ UNCHANGED faults
       \/ Fault /\ Exit("error")
    /\ Quietly

\* Any error of Stat counts as "not there": nothing is at p, or the call failed.
SeemsAbsent(p) ==
    \/ ~Exists(p) /\ UNCHANGED faults
    \/ Exists(p) /\ Fault

Missing(p) == IF Exists(p) THEN cmd.missed \cup {p} ELSE cmd.missed

\* Within(p): what is moved or copied to directory p goes to p/<name>.
Within(p) == Append(p, Last(Source))

-----------------------------------------------------------------------------
\* Fault of MoveStatDest: it is not asked whether a file is there.
MoveStatDestIsDir ==
    /\ At({"mv"}, "dest")
    /\ cmd' = IF IsDir(cmd.dest)
              THEN [cmd EXCEPT !.stage = "under", !.dest = Within(@)]
              ELSE [cmd EXCEPT !.stage = "rename"]
    /\ UNCHANGED faults
    /\ Quietly

\* mv's destination: a directory stands for a name in it, a file is not replaced.
MoveStatDest ==
    /\ At({"mv"}, "dest")
    /\ \/ /\ Exists(cmd.dest)
          /\ IF IsDir(cmd.dest)
             THEN cmd' = [cmd EXCEPT !.stage = "under", !.dest = Within(@)]
             ELSE Exit("error")
          /\ UNCHANGED faults
       \/ /\ SeemsAbsent(cmd.dest)
          /\ cmd' = [cmd EXCEPT !.stage = "rename", !.missed = Missing(cmd.dest)]
    /\ Quietly

MoveStatUnder ==
    /\ At({"mv"}, "under")
    /\ \/ Exists(cmd.dest) /\ Exit("error") /\ UNCHANGED faults
       \/ /\ SeemsAbsent(cmd.dest)
          /\ cmd' = [cmd EXCEPT !.stage = "rename", !.missed = Missing(cmd.dest)]
    /\ Quietly

\* Between mounts the router refuses: one of the ways Rename fails.
MoveRename ==
    /\ At({"mv"}, "rename")
    /\ \/ /\ MayRename(Source, cmd.dest)
          /\ node' = Renamed(Source, cmd.dest)
          /\ Exit("ok")
          /\ UNCHANGED <<data, faults>>
       \/ /\ ~MayRename(Source, cmd.dest)
          /\ Exit("error")
          /\ UNCHANGED <<node, data, faults>>
       \/ Fails
    /\ UNCHANGED changes

-----------------------------------------------------------------------------
Arg == cmd.args[cmd.next]

\* rm goes on with its next argument, or ends.
NextArg(code, missed) ==
    cmd' = IF cmd.next = Len(cmd.args)
           THEN [cmd EXCEPT !.stage = "done", !.code = code, !.missed = missed, !.held = {}]
           ELSE [cmd EXCEPT !.stage = "stat", !.code = code, !.missed = missed, !.held = {},
                            !.next = @ + 1]

RemoveIt == cmd' = IF IsDir(Arg) THEN [cmd EXCEPT !.stage = "removeAll", !.top = Arg]
                   ELSE [cmd EXCEPT !.stage = "remove"]

\* Fault of RemoveStat: a directory that is left alone is no failure.
RemoveStatSkips ==
    /\ At({"rm"}, "stat")
    /\ \/ /\ Exists(Arg)
          /\ IF IsDir(Arg) /\ ~cmd.recursive THEN NextArg(cmd.code, cmd.missed) ELSE RemoveIt
          /\ UNCHANGED faults
       \/ /\ SeemsAbsent(Arg)
          /\ IF cmd.force THEN NextArg(cmd.code, Missing(Arg)) ELSE Exit("error")
    /\ Quietly

\* A directory needs -r.  Under -f every error of Stat is a file that is not there.
RemoveStat ==
    /\ At({"rm"}, "stat")
    /\ \/ /\ Exists(Arg)
          /\ IF IsDir(Arg) /\ ~cmd.recursive THEN NextArg("error", cmd.missed) ELSE RemoveIt
          /\ UNCHANGED faults
       \/ /\ SeemsAbsent(Arg)
          /\ IF cmd.force THEN NextArg(cmd.code, Missing(Arg)) ELSE Exit("error")
    /\ Quietly

\* Remove also takes an empty directory that came in the file's place.
RemoveOne ==
    /\ At({"rm"}, "remove")
    /\ \/ /\ MayRemove(Arg)
          /\ node' = [node EXCEPT ![Arg] = Absent]
          /\ NextArg(cmd.code, cmd.missed)
          /\ UNCHANGED <<data, faults>>
       \/ /\ ~MayRemove(Arg)
          /\ Exit("error")
          /\ UNCHANGED <<node, data, faults>>
       \/ Fails
    /\ UNCHANGED changes

\* RemoveAll empties the directory entry by entry; then it goes itself.  It works in
\* directories it has open, wherever others put them: top is where its argument is
\* when the directory above has moved, and held are those moved out of it.
Emptied(p) == cmd.stage = "removeAll" /\ \E r \in cmd.held \cup {cmd.top} : Below(r, p)

\* What is made in it meanwhile may be removed too or make that fail.
RemoveBelow ==
    /\ At({"rm"}, "removeAll")
    /\ \E p \in Paths : /\ Emptied(p)
                       /\ MayRemove(p)
                       /\ node' = [node EXCEPT ![p] = Absent]
    /\ UNCHANGED <<data, cmd, changes, faults>>

RemoveTop ==
    /\ At({"rm"}, "removeAll")
    /\ \/ /\ ~Exists(cmd.top) \/ MayRemove(cmd.top)
          /\ node' = [node EXCEPT ![cmd.top] = Absent]
          /\ NextArg(cmd.code, cmd.missed)
          /\ UNCHANGED <<data, faults>>
       \/ /\ \E p \in cmd.touched : Below(cmd.top, p) /\ Exists(p)
          /\ Exit("error")
          /\ UNCHANGED <<node, data, faults>>
       \/ Fails
    /\ UNCHANGED changes

-----------------------------------------------------------------------------
Frame(source, dest) == [source |-> source, dest |-> dest, todo |-> {}]
Top == Last(cmd.dirs)

\* cp of a file: a directory stands for the file's name in it.
CopyStatDest ==
    /\ At({"cp"}, "dest")
    /\ \/ /\ Exists(cmd.dest)
          /\ LET d == IF IsDir(cmd.dest) THEN Within(cmd.dest) ELSE cmd.dest IN
             cmd' = [cmd EXCEPT !.stage = "open", !.dest = d, !.from = Source, !.to = d]
          /\ UNCHANGED faults
       \/ /\ SeemsAbsent(cmd.dest)
          /\ cmd' = [cmd EXCEPT !.stage = "open", !.from = Source, !.to = cmd.dest,
                                !.missed = Missing(cmd.dest)]
    /\ Quietly

\* cp -r of a directory: its entries go into the destination itself.
CopyStatDestOfDir ==
    /\ At({"cp"}, "destOfDir")
    /\ \/ /\ Exists(cmd.dest)
          /\ IF IsDir(cmd.dest)
             THEN cmd' = [cmd EXCEPT !.stage = "look", !.dirs = <<Frame(Source, cmd.dest)>>]
             ELSE Exit("error")
          /\ UNCHANGED faults
       \/ /\ SeemsAbsent(cmd.dest)
          /\ cmd' = [cmd EXCEPT !.stage = "look", !.dirs = <<Frame(Source, cmd.dest)>>,
                                !.missed = Missing(cmd.dest)]
    /\ Quietly

\* copyDirectory ignores the error of Stat and then asks for the mode: it panics
\* when the directory is gone.
CopyLook ==
    /\ At({"cp"}, "look")
    /\ \/ Exists(Top.source) /\ Goto("mkdir") /\ UNCHANGED faults
       \/ /\ SeemsAbsent(Top.source)
          /\ cmd' = [cmd EXCEPT !.stage = "done", !.code = "panic",
                                !.missed = Missing(Top.source)]
    /\ Quietly

CopyMkdir ==
    /\ At({"cp"}, "mkdir")
    /\ \/ /\ MayMakeAll(Top.dest)
          /\ node' = MadeAll(Top.dest)
          /\ Goto("list")
          /\ UNCHANGED <<data, faults>>
       \/ /\ ~MayMakeAll(Top.dest)
          /\ Exit("error")
          /\ UNCHANGED <<node, data, faults>>
       \/ Fails
    /\ UNCHANGED changes

\* The kind of an entry is that of the listing.
Listed(p) == {[name |-> n, isDir |-> IsDir(Append(p, n))] : n \in Entries(p)}

CopyList ==
    /\ At({"cp"}, "list")
    /\ \/ /\ IsDir(Top.source)
          /\ cmd' = [cmd EXCEPT !.stage = "entries", !.dirs[Len(cmd.dirs)].todo = Listed(Top.source)]
          /\ UNCHANGED faults
       \/ ~IsDir(Top.source) /\ Exit("error") /\ UNCHANGED faults
       \/ Fault /\ Exit("error")
    /\ Quietly

Rest(e) == [cmd.dirs EXCEPT ![Len(cmd.dirs)].todo = @ \ {e}]

\* Fault of CopyEntry: the entry is not ticked off.
CopyEntryAgain ==
    /\ At({"cp"}, "entries")
    /\ \E e \in Top.todo :
          LET source == Append(Top.source, e.name)
              dest == Append(Top.dest, e.name)
          IN
          cmd' = IF e.isDir
                 THEN [cmd EXCEPT !.stage = "look", !.dirs = Append(Rest(e), Frame(source, dest))]
                 ELSE [cmd EXCEPT !.stage = "open", !.from = source, !.to = dest]
    /\ UNCHANGED faults
    /\ Quietly

\* Fault of CopyEntry: the copy is put in the source.
CopyEntryInSource ==
    /\ At({"cp"}, "entries")
    /\ \E e \in Top.todo :
          LET source == Append(Top.source, e.name) IN
          cmd' = IF e.isDir
                 THEN [cmd EXCEPT !.stage = "look", !.dirs = Append(Rest(e), Frame(source, source))]
                 ELSE [cmd EXCEPT !.stage = "open", !.dirs = Rest(e), !.from = source, !.to = source]
    /\ UNCHANGED faults
    /\ Quietly

CopyEntry ==
    /\ At({"cp"}, "entries")
    /\ \E e \in Top.todo :
          LET source == Append(Top.source, e.name)
              dest == Append(Top.dest, e.name)
          IN
          cmd' = IF e.isDir
                 THEN [cmd EXCEPT !.stage = "look", !.dirs = Append(Rest(e), Frame(source, dest))]
                 ELSE [cmd EXCEPT !.stage = "open", !.dirs = Rest(e), !.from = source, !.to = dest]
    /\ UNCHANGED faults
    /\ Quietly

\* Fault of CopyLeave: copyDirectory returns what the one it calls returns.
CopyLeaveAll ==
    /\ At({"cp"}, "entries")
    /\ Top.todo = {}
    /\ Goto("done")
    /\ UNCHANGED faults
    /\ Quietly

\* The end of a directory, and with the first one the end of the command.
CopyLeave ==
    /\ At({"cp"}, "entries")
    /\ Top.todo = {}
    /\ cmd' = IF Len(cmd.dirs) = 1 THEN [cmd EXCEPT !.stage = "done"]
              ELSE [cmd EXCEPT !.dirs = Front(@)]
    /\ UNCHANGED faults
    /\ Quietly

-----------------------------------------------------------------------------
\* copyFile: both files stay open when others take their names away.
CopyOpen ==
    /\ At({"cp"}, "open")
    /\ \/ /\ IsFile(cmd.from)
          /\ cmd' = [cmd EXCEPT !.stage = "create", !.in = node[cmd.from]]
          /\ UNCHANGED faults
       \/ ~IsFile(cmd.from) /\ Exit("error") /\ UNCHANGED faults
       \/ Fault /\ Exit("error")
    /\ Quietly

\* Create truncates the file that is there, be it the source itself.
CopyCreate ==
    /\ At({"cp"}, "create")
    /\ \/ /\ MayCreate(cmd.to)
          /\ LET f == FileFor(cmd.to) IN
             /\ node' = [node EXCEPT ![cmd.to] = f]
             /\ data' = [data EXCEPT ![f] = Empty]
             /\ cmd' = [cmd EXCEPT !.stage = "fill", !.out = f]
          /\ UNCHANGED faults
       \/ /\ ~MayCreate(cmd.to)
          /\ Exit("error")
          /\ UNCHANGED <<node, data, faults>>
       \/ Fails
    /\ UNCHANGED changes

\* Copy, Sync and Chmod: an error leaves what has been copied so far.
CopyFill ==
    /\ At({"cp"}, "fill")
    /\ \/ /\ data' = [data EXCEPT ![cmd.out] = data[cmd.in]]
          /\ cmd' = [cmd EXCEPT !.stage = IF cmd.dirs = <<>> THEN "done" ELSE "entries",
                                !.in = NoFile, !.out = NoFile]
          /\ UNCHANGED faults
       \/ /\ Fault
          /\ \E x \in {Empty, Part, data[cmd.in]} : data' = [data EXCEPT ![cmd.out] = x]
          /\ Exit("error")
    /\ UNCHANGED <<node, changes>>

-----------------------------------------------------------------------------
\* Other programs change the tree at any moment.
MayChange ==
    /\ cmd.stage # "done"
    /\ changes < MaxChanges
    /\ changes' = changes + 1
    /\ UNCHANGED faults

Change(p) == MayChange /\ cmd' = [cmd EXCEPT !.touched = @ \cup {p}]

OtherWrites(p) ==
    /\ MayCreate(p)
    /\ node' = [node EXCEPT ![p] = FileFor(p)]
    /\ data' = [data EXCEPT ![FileFor(p)] = New]
    /\ Change(p)

OtherMakes(p) ==
    /\ MayCreate(p) /\ ~Exists(p)
    /\ node' = [node EXCEPT ![p] = Dir]
    /\ Change(p)
    /\ UNCHANGED data

OtherRemoves(p) ==
    /\ MayRemove(p) /\ p # Root
    /\ node' = [node EXCEPT ![p] = Absent]
    /\ Change(p)
    /\ UNCHANGED data

\* Where RemoveAll's argument may be when p goes to q: it may not have opened its
\* directory yet.  And the directories moved from where it empties.
Tops(p, q) ==
    {cmd.top} \cup {r \in Paths : /\ cmd.stage = "removeAll"
                                /\ IsDir(p) /\ Below(p, cmd.top)
                                /\ r = Moved(p, q, cmd.top)}

Held(p, q) ==
    {r \in Paths : \/ r = q /\ IsDir(p) /\ cmd.stage = "removeAll" /\ (Emptied(p) \/ p = cmd.top)
                   \/ r \in cmd.held /\ ~IsPrefix(p, r)
                   \/ \E h \in cmd.held : IsPrefix(p, h) /\ r = Moved(p, q, h)}

OtherMoves(p, q) ==
    /\ MayChange
    /\ p # q /\ MayRename(p, q)
    /\ node' = Renamed(p, q)
    /\ \E t \in Tops(p, q) :
          cmd' = [cmd EXCEPT !.touched = @ \cup {s \in Paths : node'[s] # node[s]},
                             !.top = t, !.held = Held(p, q)]
    /\ UNCHANGED data

Meddling ==
    \/ \E p \in Paths : OtherWrites(p) \/ OtherMakes(p) \/ OtherRemoves(p)
    \/ \E p, q \in Paths : OtherMoves(p, q)

Moving == StatSource \/ MoveStatDest \/ MoveStatUnder \/ MoveRename
Removing == RemoveStat \/ RemoveOne \/ RemoveBelow \/ RemoveTop
Copying == CopyStatDest \/ CopyStatDestOfDir \/ CopyLook \/ CopyMkdir \/ CopyList
           \/ CopyEntry \/ CopyLeave \/ CopyOpen \/ CopyCreate \/ CopyFill
Ended == cmd.stage = "done" /\ UNCHANGED vars

Next ==
    \/ Moving \/ Removing \/ Copying
    \/ Meddling
    \/ Ended

Spec == Init /\ [][Next]_vars

\* A command that can go on does.
FairSpec == Spec /\ WF_vars(Moving \/ Removing \/ Copying)
=============================================================================
