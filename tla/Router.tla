------------------------------- MODULE Router -------------------------------
(***************************************************************************)
(* pkg/vfs/router.go.  A Router keeps the mounts in a map and, beside it,  *)
(* a list of mount points sorted longest first; resolve scans the list.    *)
(* Mount, Unmount and Close hold the write lock, so each is one action.    *)
(* Every other operation resolves its path under the read lock and calls   *)
(* the adaptor after releasing it; Rename resolves twice and ReadDir looks *)
(* for a root mount before it resolves or lists, so the table can change   *)
(* between those looks.  A refused Mount, Unmount or Close changes nothing *)
(* and is a stuttering step.                                               *)
(***************************************************************************)
EXTENDS VFSPath, Integers, FiniteSets, Functions

CONSTANTS Components, \* names of files and directories
          Places,     \* cleaned absolute paths that names can denote
          Adaptors,
          Names,      \* the strings callers pass
          Clean,      \* path.Clean: Names -> Places, or Relative
          Relative,   \* what Clean makes of a name that is not absolute
          NoAdaptor,
          Clients,    \* goroutines that use the router
          PathLen,    \* PathLen[p]: the length of the string p stands for
          Caps,       \* Caps[a]: the capabilities adaptor a declares
          RootName,   \* the string "/"
          MaxMoves    \* bound: table changes between two looks of one call

Capabilities == {"CanWrite", "CanDelete", "CanMove", "CanLink", "CanChmod", "CanChown"}

ASSUME RouterAssumption ==
    /\ Places \subseteq Seq(Components)
    /\ Clean \in [Names -> Places \cup {Relative}]
    /\ Relative \notin Places
    /\ NoAdaptor \notin Adaptors
    /\ RootName \in Names
    /\ Clean[RootName] = Root
    /\ Root \in Places
    /\ Caps \in [Adaptors -> SUBSET Capabilities]
    /\ PathLen \in [Places -> Nat]
    /\ \A p, q \in Places : IsStrictPrefix(p, q) => PathLen[p] < PathLen[q]
    /\ MaxMoves \in Nat

VARIABLES mounts,     \* Router.mounts
          paths,      \* Router.paths
          closed,     \* Router.closed
          connected,  \* connected[a]: what a.IsConnected() reports
          call,       \* call[c]: the operation client c has in progress
          legal       \* history: legal[c] holds the answers that the mount
                      \* tables in force since c's first look would give

vars == <<mounts, paths, closed, connected, call, legal>>

(***************************************************************************)
(* The operations that resolve one path, with the capabilities each asks   *)
(* the adaptor for before it calls it (Chtimes, like the reads, asks for   *)
(* none), and the error for an adaptor that lacks one.                     *)
(***************************************************************************)
Needs ==
    [Open |-> {}, Stat |-> {}, Lstat |-> {}, Chtimes |-> {}, OpenFileRead |-> {},
     OpenFileWrite |-> {"CanWrite"}, Create |-> {"CanWrite"},
     Mkdir |-> {"CanWrite"}, MkdirAll |-> {"CanWrite"},
     Remove |-> {"CanDelete"}, RemoveAll |-> {"CanDelete"},
     Chmod |-> {"CanChmod"}, Chown |-> {"CanChown"},
     Readlink |-> {"CanLink"}, Symlink |-> {"CanLink"}]

OneLookOps == DOMAIN Needs

Denial(op) == IF Needs[op] = {"CanWrite"} THEN "ErrReadOnly" ELSE "ErrNotSupported"

-----------------------------------------------------------------------------
\* Results of a look at the table, and answers of an operation.
Nothing == <<"nothing">>
Refused(err) == <<"refused", err>>
RouteTo(mountPath, absPath) ==
    <<"route", mounts[mountPath], RelPath(mountPath, absPath)>>
Reach(r) == <<"adaptor", r[2], r[3]>>                  \* call adaptor r[2] with r[3]
Move(r1, r2) == <<"rename", r1[2], r1[3], r2[3]>>
Listing(S) == <<"mounts", S>>

Mounted == {p \in Places : mounts[p] # NoAdaptor}

IsRoute(r) == r[1] = "route"

\* Fault of FirstMatches: the scan goes on after a match.
LastMatches(absPath) ==
    {i \in DOMAIN paths : /\ Covers(paths[i], absPath)
                          /\ \A j \in (i + 1)..Len(paths) : ~Covers(paths[j], absPath)}

(***************************************************************************)
(* resolve: the first entry of the list that covers the path.              *)
(***************************************************************************)
FirstMatches(absPath) ==
    {i \in DOMAIN paths : /\ Covers(paths[i], absPath)
                          /\ \A j \in 1..(i - 1) : ~Covers(paths[j], absPath)}

\* Fault of Resolve: the closed check is missing.
ResolveClosed(name) ==
    IF Clean[name] = Relative THEN {Refused("ErrInvalidPath")}
    ELSE IF \A i \in DOMAIN paths : ~Covers(paths[i], Clean[name])
         THEN {Refused("ErrNotMounted")}
    ELSE {RouteTo(paths[i], Clean[name]) : i \in FirstMatches(Clean[name])}

Resolve(name) ==
    IF closed THEN {Refused("ErrClosed")}
    ELSE IF Clean[name] = Relative THEN {Refused("ErrInvalidPath")}
    ELSE IF \A i \in DOMAIN paths : ~Covers(paths[i], Clean[name])
         THEN {Refused("ErrNotMounted")}
    ELSE {RouteTo(paths[i], Clean[name]) : i \in FirstMatches(Clean[name])}

\* What an operation on one path answers once resolve returned r.
AnswerOne(op, r) ==
    IF ~IsRoute(r) THEN r
    ELSE IF Needs[op] \subseteq Caps[r[2]] THEN Reach(r)
    ELSE Refused(Denial(op))

\* What Rename answers once it has both routes.
AnswerRename(r1, r2) ==
    IF ~IsRoute(r2) THEN r2
    ELSE IF r1[2] # r2[2] THEN Refused("ErrCrossDevice")
    ELSE IF "CanMove" \notin Caps[r1[2]] THEN Refused("ErrNotSupported")
    ELSE Move(r1, r2)

\* readRootDir: the first components of the mount points, without repetition.
RootEntries == {p[1] : p \in Mounted \ {Root}}

-----------------------------------------------------------------------------
(***************************************************************************)
(* The reference answers: what an operation that looked only once, at the  *)
(* present table, would answer.                                            *)
(***************************************************************************)
Table == INSTANCE MountTable WITH found <- [c \in Clients |-> call[c].found]

Expected(op, name, to) ==
    CASE op = "Rename" ->
            UNION {IF IsRoute(r1) THEN {AnswerRename(r1, r2) : r2 \in Table!Lookup(to)}
                   ELSE {r1} : r1 \in Table!Lookup(name)}
      [] op = "ReadDir" ->
            IF name = RootName /\ Root \notin Mounted /\ ~closed
            THEN {Listing(RootEntries)}
            ELSE {IF IsRoute(r) THEN Reach(r) ELSE r : r \in Table!Lookup(name)}
      [] OTHER -> {AnswerOne(op, r) : r \in Table!Lookup(name)}

Idle == [stage |-> "idle", op |-> "none", name |-> RootName, to |-> RootName,
         first |-> Nothing, found |-> Nothing, answer |-> Nothing,
         late |-> FALSE, moves |-> 0]

Looking(c) == call[c].stage \in {"old", "list", "resolve"}

\* History: the table changed under the calls that are between two looks.
Disturb ==
    /\ \A c \in Clients : Looking(c) => call[c].moves < MaxMoves
    /\ call' = [c \in Clients |->
                  IF Looking(c) THEN [call[c] EXCEPT !.moves = @ + 1] ELSE call[c]]
    /\ legal' = [c \in Clients |->
                  IF Looking(c)
                  THEN legal[c] \cup Expected(call[c].op, call[c].name, call[c].to)'
                  ELSE legal[c]]

Init ==
    /\ mounts = [p \in Places |-> NoAdaptor]
    /\ paths = <<>>
    /\ closed = FALSE
    /\ connected \in [Adaptors -> BOOLEAN]
    /\ call = [c \in Clients |-> Idle]
    /\ legal = [c \in Clients |-> {}]

-----------------------------------------------------------------------------
(***************************************************************************)
(* The mount table.  sort.Slice is not stable: any arrangement of the list *)
(* that is longest first can result.                                       *)
(***************************************************************************)
LongestFirst(s) ==
    \A i, j \in DOMAIN s : i < j => PathLen[s[i]] >= PathLen[s[j]]

Rearranged(s) ==
    {[i \in DOMAIN s |-> s[f[i]]] : f \in Bijection(DOMAIN s, DOMAIN s)}

\* Faults of Mount: a relative path is accepted; an existing mount is replaced;
\* the list is not sorted.
MountRelative(name, a) ==
    LET p == Clean[name] IN
    /\ ~closed
    /\ p \notin Mounted
    /\ connected[a]
    /\ mounts' = [mounts EXCEPT ![p] = a]
    /\ paths' = Append(paths, p)
    /\ UNCHANGED <<closed, connected>>
    /\ Disturb

MountOver(name, a) ==
    LET p == Clean[name] IN
    /\ ~closed
    /\ p # Relative
    /\ connected[a]
    /\ mounts' = [mounts EXCEPT ![p] = a]
    /\ paths' = IF p \in Mounted THEN paths ELSE Append(paths, p)
    /\ UNCHANGED <<closed, connected>>
    /\ Disturb

MountUnsorted(name, a) ==
    LET p == Clean[name] IN
    /\ ~closed
    /\ p # Relative
    /\ mounts[p] = NoAdaptor
    /\ connected[a]
    /\ mounts' = [mounts EXCEPT ![p] = a]
    /\ paths' = Append(paths, p)
    /\ UNCHANGED <<closed, connected>>
    /\ Disturb

Mount(name, a) ==
    LET p == Clean[name] IN
    /\ ~closed
    /\ p # Relative
    /\ mounts[p] = NoAdaptor
    /\ connected[a]
    /\ mounts' = [mounts EXCEPT ![p] = a]
    /\ paths' \in {s \in Rearranged(Append(paths, p)) : LongestFirst(s)}
    /\ UNCHANGED <<closed, connected>>
    /\ Disturb

Unmount(name) ==
    LET p == Clean[name] IN
    /\ ~closed
    /\ p # Relative
    /\ mounts[p] # NoAdaptor
    /\ mounts' = [mounts EXCEPT ![p] = NoAdaptor]
    /\ paths' = RemoveFirst(paths, p)
    /\ UNCHANGED <<closed, connected>>
    /\ Disturb

Close ==
    /\ ~closed
    /\ closed' = TRUE
    /\ UNCHANGED <<mounts, paths, connected>>
    /\ Disturb

\* The owner of an adaptor connects and disconnects it as it likes.
SetConnected(a, b) ==
    /\ connected[a] # b
    /\ connected' = [connected EXCEPT ![a] = b]
    /\ UNCHANGED <<mounts, paths, closed, call, legal>>

-----------------------------------------------------------------------------
(***************************************************************************)
(* Operations.  late and legal are history: late says that the router was  *)
(* closed before the call's first look.                                    *)
(***************************************************************************)
Fresh(op, name, to) ==
    [Idle EXCEPT !.op = op, !.name = name, !.to = to, !.late = closed]

Answered(e, r, answer) ==
    [e EXCEPT !.stage = "answered", !.found = r, !.answer = answer]

Begin(c, e) ==
    /\ call[c].stage = "idle"
    /\ call' = [call EXCEPT ![c] = e]
    /\ legal' = [legal EXCEPT ![c] = Expected(e.op, e.name, e.to)]

\* The operations on one path: resolve, check the capability, call the adaptor.
LookOnce(c, op, name) ==
    /\ \E r \in Resolve(name) :
          Begin(c, Answered(Fresh(op, name, name), r, AnswerOne(op, r)))
    /\ UNCHANGED <<mounts, paths, closed, connected>>

RenameOld(c, old, new) ==
    /\ \E r \in Resolve(old) :
          LET e == Fresh("Rename", old, new) IN
          Begin(c, IF IsRoute(r)
                   THEN [e EXCEPT !.stage = "old", !.first = r, !.found = r]
                   ELSE Answered(e, r, r))
    /\ UNCHANGED <<mounts, paths, closed, connected>>

RenameNew(c) ==
    /\ call[c].stage = "old"
    /\ \E r \in Resolve(call[c].to) :
          call' = [call EXCEPT ![c] = Answered(@, r, AnswerRename(@.first, r))]
    /\ UNCHANGED <<mounts, paths, closed, connected, legal>>

\* hasRootMount is read under a read lock of its own, whether or not r.closed.
ReadDirLook(c, name) ==
    /\ Begin(c, [Fresh("ReadDir", name, name) EXCEPT !.stage =
                    IF name = RootName /\ mounts[Root] = NoAdaptor
                    THEN "list" ELSE "resolve"])
    /\ UNCHANGED <<mounts, paths, closed, connected>>

\* readRootDir takes the lock again and does not look at r.closed.
ReadDirList(c) ==
    /\ call[c].stage = "list"
    /\ call' = [call EXCEPT ![c] = Answered(@, @.found, Listing(RootEntries))]
    /\ UNCHANGED <<mounts, paths, closed, connected, legal>>

ReadDirResolve(c) ==
    /\ call[c].stage = "resolve"
    /\ \E r \in Resolve(call[c].name) :
          call' = [call EXCEPT ![c] = Answered(@, r, IF IsRoute(r) THEN Reach(r) ELSE r)]
    /\ UNCHANGED <<mounts, paths, closed, connected, legal>>

\* The adaptor, called without the lock, has returned (or was not called).
Return(c) ==
    /\ call[c].stage = "answered"
    /\ call' = [call EXCEPT ![c] = Idle]
    /\ legal' = [legal EXCEPT ![c] = {}]
    /\ UNCHANGED <<mounts, paths, closed, connected>>

Operate(c) ==
    \/ \E name \in Names :
          \/ \E op \in OneLookOps : LookOnce(c, op, name)
          \/ \E new \in Names : RenameOld(c, name, new)
          \/ ReadDirLook(c, name)
    \/ RenameNew(c)
    \/ ReadDirList(c)
    \/ ReadDirResolve(c)
    \/ Return(c)

Next ==
    \/ \E name \in Names :
          \/ \E a \in Adaptors : Mount(name, a)
          \/ Unmount(name)
    \/ Close
    \/ \E a \in Adaptors, b \in BOOLEAN : SetConnected(a, b)
    \/ \E c \in Clients : Operate(c)

Spec == Init /\ [][Next]_vars
=============================================================================
