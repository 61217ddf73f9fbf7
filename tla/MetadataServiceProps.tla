------------------------- MODULE MetadataServiceProps -------------------------
(***************************************************************************)
(* What the metadata service promises: properties of MetadataService.      *)
(***************************************************************************)
EXTENDS MetadataService

Metas == {NoMeta} \cup [stat : Versions \ {0}, read : Versions]
Docs == {NoDoc} \cup [stat : Versions \ {0}, content : Versions]
Stages == {"idle", "get", "check", "look", "stat", "read", "fill", "put", "index",
           "forget", "deleteRow", "deleteDoc", "done"}
Calls == [op : {"none", "Extract", "GetOrExtract", "Store", "StoreWithContent", "Delete"},
          at : Paths, stage : Stages, meta : Metas, failed : BOOLEAN,
          alone : BOOLEAN]

\* Type correctness of the service, its files and its calls: metadata, wherever
\* it is kept, comes from a Stat that found the file.
TypeOK ==
    /\ disk \in [Paths -> Versions]
    /\ last \in [Paths -> Versions \ {0}]
    /\ cache \in [Paths -> Metas]
    /\ store \in [Paths -> Metas]
    /\ index \in [Paths -> Docs]
    /\ call \in [Clients -> Calls]
    /\ faults \in 0..MaxFaults

Whole(meta) == meta.read \in {0, meta.stat}

(***************************************************************************)
(* Stat and the reading of the content are two looks at a file that may    *)
(* change between them, and the row that results may mix two versions.     *)
(* GetOrExtract compares only ModTime, so such a row must never look       *)
(* current: whatever the store or the cache holds under the file's present *)
(* ModTime was read, if at all, from the present content.                  *)
(***************************************************************************)
CurrentIsWhole ==
    \A p \in Paths :
        disk[p] # 0 => \A meta \in {store[p], cache[p]} :
                            meta.stat = disk[p] => Whole(meta)

(***************************************************************************)
(* Delete, when no other call overlaps it and nothing fails, leaves no     *)
(* trace of the file in any of the three places.                           *)
(***************************************************************************)
DeleteForgets ==
    \A c \in Clients :
        LET e == call[c] IN
        At(c, "done") /\ e.op = "Delete" /\ e.alone /\ faults = 0
        => cache[e.at] = NoMeta /\ store[e.at] = NoMeta /\ index[e.at] = NoDoc

Orphan(p) == index[p] # NoDoc /\ store[p] = NoMeta

\* What a step that makes an orphan is, for OrphansOnlyFromDelete.
ExplainsOrphans ==
    \A p \in Paths :
        Orphan(p)' /\ ~Orphan(p) =>
            \E c \in Clients :
                /\ call[c].at = p
                /\ \/ At(c, "deleteRow")
                   \/ At(c, "index") /\ ~call[c].alone

(***************************************************************************)
(* Store writes the row before the document and Delete removes it before   *)
(* the document, so a search hit without a row arises in two ways only:    *)
(* Delete is between its two removals, or the row was deleted by another   *)
(* call while Store was between its two writes.  Store on its own never    *)
(* makes one, whatever fails and wherever the process dies.                *)
(***************************************************************************)
OrphansOnlyFromDelete == [][ExplainsOrphans]_vars

Succeeded(c, p) ==
    At(c, "done") /\ call[c].op = "GetOrExtract" /\ call[c].at = p /\ ~call[c].failed

(***************************************************************************)
(* A row that missed a change of its file is put right: while GetOrExtract *)
(* of the file keeps succeeding, the row agrees with the file again and    *)
(* again.  The cache may answer with old metadata, and a call that was     *)
(* slow may put older metadata back, but only for so long.                 *)
(***************************************************************************)
RowsConverge ==
    \A p \in Paths :
        []<>(\E c \in Clients : Succeeded(c, p)) => []<>(store[p].stat = disk[p])

=============================================================================
