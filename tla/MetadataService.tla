--------------------------- MODULE MetadataService ---------------------------
(***************************************************************************)
(* pkg/metadata/service.go.  The service keeps metadata of files in three  *)
(* places: a cache in memory that answers for five minutes, a SQLite store *)
(* and, when there is one, a full-text index.  Only the cache is under the *)
(* service's lock, and no call holds it while it reads the file or writes  *)
(* to the store or the index: every such access is a step of its own, and  *)
(* the file, the other calls and a crash of the process come in between.   *)
(***************************************************************************)
EXTENDS Integers, FiniteSets

CONSTANTS Paths,      \* adaptor:path keys
          Dirs,       \* the paths that name directories
          Clients,    \* goroutines that use the service
          Ops,        \* the operations the clients use
          HasIndex,   \* built by NewServiceWithIndex
          MaxVersion, \* bound: versions of one file
          MaxFaults   \* bound: failed accesses to store, index or file

ASSUME ServiceAssumption ==
    /\ Paths # {} /\ Dirs \subseteq Paths
    /\ Ops \subseteq {"Extract", "GetOrExtract", "Store", "StoreWithContent", "Delete"}
    /\ HasIndex \in BOOLEAN
    /\ MaxVersion \in Nat \ {0}
    /\ MaxFaults \in Nat

VARIABLES disk,   \* disk[p]: version of the file, 0 when there is none
          last,   \* last[p]: the newest version the file has had
          cache,  \* cache[p]: an entry younger than five minutes; an older
                  \* one stays in the map, where no reader heeds it
          store,  \* store[p]: the row of the metadata table
          index,  \* index[p]: the document of the search index
          call,   \* call[c]: the call client c is in; history: alone, whether
                  \* no other call was in progress since it began
          faults  \* number of failed accesses so far

vars == <<disk, last, cache, store, index, call, faults>>
fileVars == <<disk, last>>
dataVars == <<cache, store, index>>

Versions == 0..MaxVersion

(***************************************************************************)
(* Metadata of a file: stat is the version Stat saw (it stands for size,   *)
(* mode and ModTime, and every version has a ModTime of its own), read the *)
(* version the extractors read, 0 when nothing was read or extracted.      *)
(***************************************************************************)
NoMeta == [stat |-> 0, read |-> 0]
NoDoc == [stat |-> 0, content |-> 0]
Doc(meta, content) == [stat |-> meta.stat, content |-> content]

Idle == [op |-> "none", at |-> CHOOSE p \in Paths : TRUE, stage |-> "idle",
         meta |-> NoMeta, failed |-> FALSE, alone |-> TRUE]

Init ==
    /\ disk = [p \in Paths |-> 1]
    /\ last = [p \in Paths |-> 1]
    /\ cache = [p \in Paths |-> NoMeta]
    /\ store = [p \in Paths |-> NoMeta]
    /\ index = [p \in Paths |-> NoDoc]
    /\ call = [c \in Clients |-> Idle]
    /\ faults = 0

At(c, stage) == call[c].stage = stage
Goto(c, stage) == call' = [call EXCEPT ![c].stage = stage]
Fail(c) == call' = [call EXCEPT ![c].stage = "done", ![c].failed = TRUE]

\* An access to the store, the index or the file fails.
Fault ==
    /\ faults < MaxFaults
    /\ faults' = faults + 1

-----------------------------------------------------------------------------
(***************************************************************************)
(* A call starts.  Store and StoreWithContent are given the metadata the   *)
(* same client extracted last.                                             *)
(***************************************************************************)
FirstStage ==
    [Extract |-> "look", GetOrExtract |-> "get", Store |-> "put",
     StoreWithContent |-> "put", Delete |-> "forget"]

Begin(c, op, p) ==
    /\ At(c, "idle")
    /\ op \in {"Store", "StoreWithContent"} =>
            call[c].meta # NoMeta /\ call[c].at = p
    /\ call' = [d \in Clients |->
          IF d # c THEN [call[d] EXCEPT !.alone = FALSE]
          ELSE [op |-> op, at |-> p, stage |-> FirstStage[op], failed |-> FALSE,
                meta |-> IF op \in {"Store", "StoreWithContent"} THEN call[c].meta ELSE NoMeta,
                alone |-> \A o \in Clients \ {c} : At(o, "idle")]]
    /\ UNCHANGED <<fileVars, dataVars, faults>>

Return(c) ==
    /\ At(c, "done")
    /\ call' = [call EXCEPT ![c] =
                    [Idle EXCEPT !.at = call[c].at,
                                 !.meta = IF call[c].op \in {"Extract", "GetOrExtract"}
                                          THEN call[c].meta ELSE NoMeta]]
    /\ UNCHANGED <<fileVars, dataVars, faults>>

\* Extract has its result: GetOrExtract goes on to put it in the store.
Got(c, meta) ==
    call' = [call EXCEPT ![c].meta = meta,
                         ![c].stage = IF call[c].op = "Extract" THEN "done" ELSE "put"]

-----------------------------------------------------------------------------
\* Fault of CheckRow: a row is good for as long as the file is there.
CheckRowExists(c) ==
    /\ At(c, "check")
    /\ Goto(c, IF disk[call[c].at] # 0 THEN "done" ELSE "look")
    /\ UNCHANGED <<fileVars, dataVars, faults>>

(***************************************************************************)
(* GetOrExtract: the row of the store, if its ModTime is still the file's. *)
(* A Stat that fails is a row that is not fresh; in Extract it is an error *)
(* of the call, whether or not the file is there.                          *)
(***************************************************************************)
GetRow(c) ==
    LET p == call[c].at IN
    /\ At(c, "get")
    /\ \/ /\ call' = [call EXCEPT ![c].meta = store[p],
                                  ![c].stage = IF store[p] = NoMeta THEN "look" ELSE "check"]
          /\ UNCHANGED faults
       \/ Fault /\ Fail(c)
    /\ UNCHANGED <<fileVars, dataVars>>

CheckRow(c) ==
    /\ At(c, "check")
    /\ \/ /\ Goto(c, IF call[c].meta.stat = disk[call[c].at] THEN "done" ELSE "look")
          /\ UNCHANGED faults
       \/ Fault /\ Goto(c, "look")
    /\ UNCHANGED <<fileVars, dataVars>>

\* Extract: the cache, then Stat, then Open and Read, then the cache again.
LookInCache(c) ==
    LET p == call[c].at IN
    /\ At(c, "look")
    /\ IF cache[p] # NoMeta THEN Got(c, cache[p]) ELSE Goto(c, "stat")
    /\ UNCHANGED <<fileVars, dataVars, faults>>

StatFile(c) ==
    LET p == call[c].at IN
    /\ At(c, "stat")
    /\ \/ disk[p] = 0 /\ Fail(c) /\ UNCHANGED faults
       \/ /\ disk[p] # 0
          /\ call' = [call EXCEPT ![c].meta = [stat |-> disk[p], read |-> 0],
                                  ![c].stage = IF p \in Dirs THEN "fill" ELSE "read"]
          /\ UNCHANGED faults
       \/ disk[p] # 0 /\ Fault /\ Fail(c)
    /\ UNCHANGED <<fileVars, dataVars>>

\* An error of Open, Read or an extractor leaves the metadata as Stat gave it.
ReadFile(c) ==
    /\ At(c, "read")
    /\ \/ /\ call' = [call EXCEPT ![c].meta.read = disk[call[c].at], ![c].stage = "fill"]
          /\ UNCHANGED faults
       \/ Fault /\ Goto(c, "fill")
    /\ UNCHANGED <<fileVars, dataVars>>

\* Fault of FillCache: the file is looked at after its content was read.
FillCacheStatLast(c) ==
    LET m == [call[c].meta EXCEPT !.stat = IF disk[call[c].at] = 0 THEN @
                                           ELSE disk[call[c].at]] IN
    /\ At(c, "fill")
    /\ cache' = [cache EXCEPT ![call[c].at] = m]
    /\ Got(c, m)
    /\ UNCHANGED <<fileVars, store, index, faults>>

FillCache(c) ==
    /\ At(c, "fill")
    /\ cache' = [cache EXCEPT ![call[c].at] = call[c].meta]
    /\ Got(c, call[c].meta)
    /\ UNCHANGED <<fileVars, store, index, faults>>

\* Fault of PutRow: Store goes on to the index when the store has failed.
PutRowThenIndex(c) ==
    LET storing == call[c].op \in {"Store", "StoreWithContent"} IN
    /\ At(c, "put")
    /\ \/ /\ store' = [store EXCEPT ![call[c].at] = call[c].meta]
          /\ UNCHANGED faults
       \/ Fault /\ UNCHANGED store
    /\ Goto(c, IF storing /\ HasIndex THEN "index" ELSE "done")
    /\ UNCHANGED <<fileVars, cache, index>>

\* store.Put.  GetOrExtract only warns when it fails, Store returns the error.
PutRow(c) ==
    LET storing == call[c].op \in {"Store", "StoreWithContent"} IN
    /\ At(c, "put")
    /\ \/ /\ store' = [store EXCEPT ![call[c].at] = call[c].meta]
          /\ Goto(c, IF storing /\ HasIndex THEN "index" ELSE "done")
          /\ UNCHANGED faults
       \/ /\ Fault
          /\ IF storing THEN Fail(c) ELSE Goto(c, "done")
          /\ UNCHANGED store
    /\ UNCHANGED <<fileVars, cache, index>>

(***************************************************************************)
(* Store replaces the document, dropping its content; StoreWithContent     *)
(* reads the content now and indexes nothing when there is none.  Neither  *)
(* fails when the index does.                                              *)
(***************************************************************************)
PutDoc(c) ==
    LET p == call[c].at IN
    /\ At(c, "index")
    /\ \/ /\ call[c].op = "Store"
          /\ index' = [index EXCEPT ![p] = Doc(call[c].meta, 0)]
          /\ UNCHANGED faults
       \/ /\ call[c].op = "StoreWithContent"
          /\ index' = IF disk[p] = 0 THEN index
                      ELSE [index EXCEPT ![p] = Doc(call[c].meta, disk[p])]
          /\ UNCHANGED faults
       \/ Fault /\ UNCHANGED index
    /\ Goto(c, "done")
    /\ UNCHANGED <<fileVars, cache, store>>

\* Fault of Forget: the cache keeps what it has.
ForgetNothing(c) ==
    /\ At(c, "forget")
    /\ Goto(c, "deleteRow")
    /\ UNCHANGED <<fileVars, cache, store, index, faults>>

\* Delete: cache, store and index, in this order.
Forget(c) ==
    /\ At(c, "forget")
    /\ cache' = [cache EXCEPT ![call[c].at] = NoMeta]
    /\ Goto(c, "deleteRow")
    /\ UNCHANGED <<fileVars, store, index, faults>>

DeleteRow(c) ==
    /\ At(c, "deleteRow")
    /\ \/ /\ store' = [store EXCEPT ![call[c].at] = NoMeta]
          /\ Goto(c, IF HasIndex THEN "deleteDoc" ELSE "done")
          /\ UNCHANGED faults
       \/ Fault /\ Fail(c) /\ UNCHANGED store
    /\ UNCHANGED <<fileVars, cache, index>>

DeleteDoc(c) ==
    /\ At(c, "deleteDoc")
    /\ \/ /\ index' = [index EXCEPT ![call[c].at] = NoDoc]
          /\ UNCHANGED faults
       \/ Fault /\ UNCHANGED index
    /\ Goto(c, "done")
    /\ UNCHANGED <<fileVars, cache, store>>

ClearCache ==
    /\ cache' = [p \in Paths |-> NoMeta]
    /\ UNCHANGED <<fileVars, store, index, call, faults>>

-----------------------------------------------------------------------------
\* Five minutes pass.
Expire(p) ==
    /\ cache[p] # NoMeta
    /\ cache' = [cache EXCEPT ![p] = NoMeta]
    /\ UNCHANGED <<fileVars, store, index, call, faults>>

\* The program ends or crashes, in the middle of any call, and is started again.
Restart ==
    /\ cache' = [p \in Paths |-> NoMeta]
    /\ call' = [c \in Clients |-> Idle]
    /\ UNCHANGED <<fileVars, store, index, faults>>

\* Someone else writes or removes the file.
WriteFile(p) ==
    /\ last[p] < MaxVersion
    /\ disk' = [disk EXCEPT ![p] = last[p] + 1]
    /\ last' = [last EXCEPT ![p] = @ + 1]
    /\ UNCHANGED <<dataVars, call, faults>>

RemoveFile(p) ==
    /\ disk[p] # 0
    /\ disk' = [disk EXCEPT ![p] = 0]
    /\ UNCHANGED <<last, dataVars, call, faults>>

Extracting(c) == GetRow(c) \/ CheckRow(c) \/ LookInCache(c) \/ StatFile(c)
                 \/ ReadFile(c) \/ FillCache(c)

Working(c) == Extracting(c) \/ PutRow(c) \/ PutDoc(c)
              \/ Forget(c) \/ DeleteRow(c) \/ DeleteDoc(c)

Next ==
    \/ \E c \in Clients :
          \/ \E op \in Ops, p \in Paths : Begin(c, op, p)
          \/ Working(c)
          \/ Return(c)
    \/ \E p \in Paths : Expire(p) \/ WriteFile(p) \/ RemoveFile(p)
    \/ ClearCache
    \/ Restart

Spec == Init /\ [][Next]_vars

(***************************************************************************)
(* Goroutines that can run do, and time passes.  That a client calls, that *)
(* a file is written and that the process dies are not fair.               *)
(***************************************************************************)
Fairness ==
    /\ \A c \in Clients : WF_vars(Working(c)) /\ WF_vars(Return(c))
    /\ \A p \in Paths : WF_vars(Expire(p))

FairSpec == Spec /\ Fairness
=============================================================================
