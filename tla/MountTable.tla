----------------------------- MODULE MountTable -----------------------------
(***************************************************************************)
(* What the router promises of its mount table: a map from mount points to *)
(* adaptors, changed atomically, in which a path belongs to the longest    *)
(* mount point above it.  There is no list, no order and no lock here.     *)
(***************************************************************************)
EXTENDS VFSPath

CONSTANTS Places,     \* cleaned absolute paths that names can denote
          Adaptors,
          Names,      \* the strings callers pass
          Clean,      \* path.Clean: Names -> Places, or Relative
          Relative,
          NoAdaptor,
          Clients

VARIABLES mounts,     \* mounts[p]: the adaptor at p, or NoAdaptor
          closed,
          found       \* found[c]: the last lookup result client c was given

tableVars == <<mounts, closed, found>>

Mounted == {p \in Places : mounts[p] # NoAdaptor}

Nothing == <<"nothing">>                \* no lookup result yet
Refused(err) == <<"refused", err>>
RouteTo(mountPath, absPath) ==
    <<"route", mounts[mountPath], RelPath(mountPath, absPath)>>

(***************************************************************************)
(* mountPath is the longest mount point above absPath.                     *)
(***************************************************************************)
Owns(mountPath, absPath) ==
    /\ mountPath \in Mounted
    /\ Covers(mountPath, absPath)
    /\ \A p \in Mounted : Covers(p, absPath) => Covers(p, mountPath)

(***************************************************************************)
(* The lookup of a name, as the set of its results (one, for a name that   *)
(* denotes one path).                                                      *)
(***************************************************************************)
Lookup(name) ==
    IF closed THEN {Refused("ErrClosed")}
    ELSE IF Clean[name] = Relative THEN {Refused("ErrInvalidPath")}
    ELSE IF \A p \in Mounted : ~Covers(p, Clean[name])
         THEN {Refused("ErrNotMounted")}
    ELSE {RouteTo(p, Clean[name]) : p \in {q \in Mounted : Owns(q, Clean[name])}}

-----------------------------------------------------------------------------
TableInit ==
    /\ mounts = [p \in Places |-> NoAdaptor]
    /\ closed = FALSE
    /\ found = [c \in Clients |-> Nothing]

MountAt(p, a) ==
    /\ ~closed
    /\ mounts[p] = NoAdaptor
    /\ mounts' = [mounts EXCEPT ![p] = a]
    /\ UNCHANGED <<closed, found>>

UnmountAt(p) ==
    /\ ~closed
    /\ mounts[p] # NoAdaptor
    /\ mounts' = [mounts EXCEPT ![p] = NoAdaptor]
    /\ UNCHANGED <<closed, found>>

CloseTable ==
    /\ ~closed
    /\ closed' = TRUE
    /\ UNCHANGED <<mounts, found>>

Find(c, name) ==
    /\ \E r \in Lookup(name) : found' = [found EXCEPT ![c] = r]
    /\ UNCHANGED <<mounts, closed>>

Forget(c) ==
    /\ found' = [found EXCEPT ![c] = Nothing]
    /\ UNCHANGED <<mounts, closed>>

TableNext ==
    \/ \E p \in Places :
          \/ \E a \in Adaptors : MountAt(p, a)
          \/ UnmountAt(p)
    \/ CloseTable
    \/ \E c \in Clients : (\E name \in Names : Find(c, name)) \/ Forget(c)

TableSpec == TableInit /\ [][TableNext]_tableVars
=============================================================================
