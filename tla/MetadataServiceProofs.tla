------------------------- MODULE MetadataServiceProofs -------------------------
(***************************************************************************)
(* Proofs about the metadata service, for any files, clients, versions and *)
(* number of failures, with an index or without; about Walk and            *)
(* UpdateDirectory, for any tree of any depth; and about the tables and    *)
(* documents that are searched, for any files, words and metadata.         *)
(***************************************************************************)
EXTENDS MetadataServiceProps, MetadataTreeProps, MetadataSearchProps, SequenceTheorems, TLAPS

\* Metadata is no newer than the file has been, and read after Stat if at all.
Sound(meta, newest) ==
    /\ meta.stat <= newest
    /\ meta.read = 0 \/ (meta.stat <= meta.read /\ meta.read <= newest)

Storing == {"Store", "StoreWithContent"}

\* What the stage of a call says of its operation, and of what it has.
Fits(e) ==
    /\ e.stage \in {"get", "check", "look", "stat", "read", "fill"} => e.op \in {"Extract", "GetOrExtract"}
    /\ e.stage \in {"forget", "deleteRow", "deleteDoc"} => e.op = "Delete"
    /\ e.op = "Delete" => e.stage \in {"forget", "deleteRow", "deleteDoc", "done"}
    /\ e.stage = "put" => e.op \in Storing \cup {"GetOrExtract"}
    /\ e.stage = "index" => e.op \in Storing /\ HasIndex
    /\ e.stage \in {"read", "fill", "put", "index"} => e.meta # NoMeta
    /\ e.op \in Storing => e.meta # NoMeta

\* What a call that nothing overlaps has reached in the three places.
Reached(e, ca, st, ix, fl) ==
    e.alone =>
        /\ e.stage = "index" => st[e.at] # NoMeta
        /\ e.op = "Delete" /\ fl = 0 =>
              /\ e.stage \in {"deleteRow", "deleteDoc", "done"} => ca[e.at] = NoMeta
              /\ e.stage \in {"deleteDoc", "done"} => st[e.at] = NoMeta
              /\ e.stage = "done" => ix[e.at] = NoDoc

\* No other call is in progress with one that is alone.
Apart ==
    \A c, d \in Clients :
        c # d /\ call[c].alone /\ call[c].stage # "idle" => call[d].stage = "idle"

DataSound == \A p \in Paths : Sound(store[p], last[p]) /\ Sound(cache[p], last[p])

CallFine(c) ==
    /\ Sound(call[c].meta, last[call[c].at])
    /\ Fits(call[c])
    /\ Reached(call[c], cache, store, index, faults)

IInv ==
    /\ TypeOK
    /\ \A p \in Paths : disk[p] \in {0, last[p]}
    /\ HasIndex \/ \A p \in Paths : index[p] = NoDoc
    /\ DataSound
    /\ Apart
    /\ \A c \in Clients : CallFine(c)

-----------------------------------------------------------------------------
LEMMA NoMetaIsSound ==
    /\ NoMeta \in Metas /\ NoDoc \in Docs
    /\ \A newest \in Versions : Sound(NoMeta, newest)
BY ServiceAssumption DEF NoMeta, NoDoc, Metas, Docs, Sound, Versions

LEMMA MetasAre ==
    ASSUME NEW meta \in Metas
    PROVE  /\ meta.stat \in Nat /\ meta.read \in Nat
           /\ meta # NoMeta => meta \in [stat : Versions \ {0}, read : Versions]
BY ServiceAssumption DEF NoMeta, Metas, Versions

LEMMA IdleIsFine ==
    /\ Idle \in Calls
    /\ Idle.stage = "idle" /\ Idle.meta = NoMeta /\ Fits(Idle)
    /\ \A ca, st, ix, fl : Reached(Idle, ca, st, ix, fl)
<1>1. (CHOOSE p \in Paths : TRUE) \in Paths
  BY ServiceAssumption
<1>2. Idle \in Calls
  BY <1>1, NoMetaIsSound DEF Idle, Calls, Stages
<1> QED
  BY <1>2 DEF Idle, Fits, Reached, Storing

LEMMA InitIInv == Init => IInv
<1> SUFFICES ASSUME Init PROVE IInv
  OBVIOUS
<1>1. 1 \in Versions \ {0} /\ 0 \in 0..MaxFaults
  BY ServiceAssumption DEF Versions
<1>2. TypeOK
  BY <1>1, NoMetaIsSound, IdleIsFine DEF Init, TypeOK
<1>3. DataSound /\ \A p \in Paths : disk[p] \in {0, last[p]} /\ index[p] = NoDoc
  BY <1>1, NoMetaIsSound DEF Init, DataSound
<1>4. \A c \in Clients : call[c] = Idle
  BY DEF Init
<1>5. \A c \in Clients : CallFine(c)
  BY <1>1, <1>2, <1>4, NoMetaIsSound, IdleIsFine DEF CallFine, TypeOK, Calls
<1>6. Apart
  BY <1>4, IdleIsFine DEF Apart
<1> QED
  BY <1>2, <1>3, <1>5, <1>6 DEF IInv

(***************************************************************************)
(* A step of the call of c, which may change the three places under its    *)
(* own path: calls that are alone are not disturbed, as there are none.    *)
(***************************************************************************)
LEMMA OneCall ==
    ASSUME IInv, NEW c \in Clients, NEW e \in Calls,
           call' = [call EXCEPT ![c] = e], call[c].stage # "idle",
           e.alone /\ e.stage # "idle" => call[c].alone,
           UNCHANGED fileVars,
           cache' \in [Paths -> Metas], store' \in [Paths -> Metas], index' \in [Paths -> Docs],
           \A p \in Paths : Sound(store'[p], last[p]) /\ Sound(cache'[p], last[p]),
           HasIndex \/ \A p \in Paths : index'[p] = NoDoc,
           faults' \in 0..MaxFaults,
           Sound(e.meta, last[e.at]), Fits(e), Reached(e, cache', store', index', faults')
    PROVE  IInv'
<1>1. \A d \in Clients : call'[d] = IF d = c THEN e ELSE call[d]
  BY DEF IInv, TypeOK
<1>2. TypeOK'
  BY DEF IInv, TypeOK, fileVars
<1>3. Apart'
  BY <1>1 DEF IInv, Apart
<1>4. ASSUME NEW d \in Clients PROVE CallFine(d)'
  <2>1. CASE d = c
    BY <1>1, <2>1 DEF CallFine, fileVars
  <2>2. CASE d # c
    <3>1. ~call[d].alone \/ call[d].stage = "idle"
      BY <2>2 DEF IInv, Apart
    <3>2. Reached(call[d], cache', store', index', faults')
      BY <3>1 DEF Reached, IInv, CallFine, Fits
    <3> QED
      BY <1>1, <2>2, <3>2 DEF IInv, CallFine, fileVars
  <2> QED
    BY <2>1, <2>2
<1> QED
  BY <1>2, <1>3, <1>4 DEF IInv, DataSound, fileVars

(***************************************************************************)
(* A step that only moves the call of c on, or ends it, leaves the three   *)
(* places and the metadata in hand alone.                                  *)
(***************************************************************************)
LEMMA Record ==
    ASSUME NEW e \in Calls, NEW stage \in Stages, NEW meta \in Metas, NEW failed \in BOOLEAN
    PROVE  LET d == [e EXCEPT !.stage = stage, !.meta = meta, !.failed = failed]
           IN /\ d \in Calls
              /\ d.stage = stage /\ d.meta = meta /\ d.failed = failed
              /\ d.op = e.op /\ d.at = e.at /\ d.alone = e.alone
BY DEF Calls

LEMMA GotoIs ==
    ASSUME TypeOK, NEW c \in Clients, NEW stage \in Stages
    PROVE  \E e \in Calls :
              /\ Goto(c, stage) <=> call' = [call EXCEPT ![c] = e]
              /\ e.stage = stage /\ e.meta = call[c].meta
              /\ e.op = call[c].op /\ e.at = call[c].at /\ e.alone = call[c].alone
<1> DEFINE e == [call[c] EXCEPT !.stage = stage]
<1>1. call[c] \in Calls
  BY DEF TypeOK
<1>2. /\ e \in Calls /\ e.stage = stage /\ e.meta = call[c].meta
      /\ e.op = call[c].op /\ e.at = call[c].at /\ e.alone = call[c].alone
  BY <1>1 DEF Calls
<1>3. Goto(c, stage) <=> call' = [call EXCEPT ![c] = e]
  BY DEF Goto
<1> QED
  BY <1>2, <1>3

LEMMA FailIs ==
    ASSUME TypeOK, NEW c \in Clients
    PROVE  \E e \in Calls :
              /\ Fail(c) <=> call' = [call EXCEPT ![c] = e]
              /\ e.stage = "done" /\ e.meta = call[c].meta
              /\ e.op = call[c].op /\ e.at = call[c].at /\ e.alone = call[c].alone
<1> DEFINE e == [call[c] EXCEPT !.stage = "done", !.failed = TRUE]
<1>1. call[c] \in Calls
  BY DEF TypeOK
<1>2. /\ e \in Calls /\ e.stage = "done" /\ e.meta = call[c].meta
      /\ e.op = call[c].op /\ e.at = call[c].at /\ e.alone = call[c].alone
  BY <1>1 DEF Calls, Stages
<1>3. Fail(c) <=> call' = [call EXCEPT ![c] = e]
  BY DEF Fail
<1> QED
  BY <1>2, <1>3

LEMMA GotIs ==
    ASSUME TypeOK, NEW c \in Clients, NEW meta \in Metas
    PROVE  \E e \in Calls :
              /\ Got(c, meta) <=> call' = [call EXCEPT ![c] = e]
              /\ e.stage = IF call[c].op = "Extract" THEN "done" ELSE "put"
              /\ e.meta = meta
              /\ e.op = call[c].op /\ e.at = call[c].at /\ e.alone = call[c].alone
<1> DEFINE e == [call[c] EXCEPT !.meta = meta,
                                !.stage = IF call[c].op = "Extract" THEN "done" ELSE "put"]
<1>1. call[c] \in Calls
  BY DEF TypeOK
<1>2. /\ e \in Calls /\ e.meta = meta
      /\ e.stage = IF call[c].op = "Extract" THEN "done" ELSE "put"
      /\ e.op = call[c].op /\ e.at = call[c].at /\ e.alone = call[c].alone
  BY <1>1 DEF Calls, Stages
<1>3. Got(c, meta) <=> call' = [call EXCEPT ![c] = e]
  BY DEF Got
<1> QED
  BY <1>2, <1>3

LEMMA FaultIs == TypeOK /\ Fault => faults' \in 0..MaxFaults /\ faults' # 0
BY ServiceAssumption DEF TypeOK, Fault

\* What IInv says of one call and of the places, in the form the steps use.
LEMMA Known ==
    ASSUME IInv, NEW c \in Clients
    PROVE  /\ TypeOK /\ call[c] \in Calls /\ call[c].at \in Paths /\ call[c].meta \in Metas
           /\ \A p \in Paths : store[p] \in Metas /\ cache[p] \in Metas /\ index[p] \in Docs
           /\ \A p \in Paths : Sound(store[p], last[p]) /\ Sound(cache[p], last[p])
           /\ CallFine(c)
BY DEF IInv, TypeOK, Calls, DataSound

-----------------------------------------------------------------------------
LEMMA GetRowIInv == \A c \in Clients : IInv /\ GetRow(c) => IInv'
<1> SUFFICES ASSUME NEW c \in Clients, IInv, GetRow(c) PROVE IInv'
  OBVIOUS
<1>1. call[c].stage = "get" /\ call[c].op \in {"Extract", "GetOrExtract"}
  BY Known DEF GetRow, At, CallFine, Fits
<1>2. CASE Fault /\ Fail(c)
  <2>1. PICK e \in Calls :
              /\ call' = [call EXCEPT ![c] = e]
              /\ e.stage = "done" /\ e.meta = call[c].meta
              /\ e.op = call[c].op /\ e.at = call[c].at /\ e.alone = call[c].alone
    BY <1>2, FailIs, Known
  <2>2. Fits(e) /\ Reached(e, cache', store', index', faults') /\ Sound(e.meta, last[e.at])
    BY <2>1, <1>1, Known DEF Fits, Reached, CallFine, Storing
  <2>3. faults' \in 0..MaxFaults
    BY <1>2, FaultIs, Known
  <2> QED
    BY <1>1, <2>1, <2>2, <2>3, OneCall DEF GetRow, dataVars, IInv, TypeOK, DataSound
<1> DEFINE found == [call[c] EXCEPT !.meta = store[call[c].at],
                                    !.stage = IF store[call[c].at] = NoMeta THEN "look" ELSE "check"]
<1>3. CASE call' = [call EXCEPT ![c] = found] /\ faults' = faults
  <2>1. /\ found \in Calls /\ found.meta = store[call[c].at]
        /\ found.stage = IF store[call[c].at] = NoMeta THEN "look" ELSE "check"
        /\ found.op = call[c].op /\ found.at = call[c].at /\ found.alone = call[c].alone
    BY Known DEF Calls, Stages
  <2> HIDE DEF found
  <2>2. Fits(found) /\ Reached(found, cache', store', index', faults')
        /\ Sound(found.meta, last[found.at])
    BY <1>1, <2>1, Known DEF Fits, Reached, CallFine, Storing
  <2> QED
    BY <1>1, <1>3, <2>1, <2>2, OneCall DEF GetRow, dataVars, IInv, TypeOK, DataSound
<1> QED
  BY <1>2, <1>3 DEF GetRow

LEMMA CheckRowIInv == \A c \in Clients : IInv /\ CheckRow(c) => IInv'
<1> SUFFICES ASSUME NEW c \in Clients, IInv, CheckRow(c) PROVE IInv'
  OBVIOUS
<1>1. call[c].stage = "check" /\ call[c].op \in {"Extract", "GetOrExtract"}
  BY Known DEF CheckRow, At, CallFine, Fits
<1>2. /\ \E stage \in {"done", "look"} : Goto(c, stage)
      /\ faults' \in 0..MaxFaults
  BY FaultIs, Known DEF CheckRow, TypeOK
<1>3. PICK e \in Calls :
            /\ call' = [call EXCEPT ![c] = e]
            /\ e.stage \in {"done", "look"} /\ e.meta = call[c].meta
            /\ e.op = call[c].op /\ e.at = call[c].at /\ e.alone = call[c].alone
  BY <1>2, GotoIs, Known DEF Stages
<1>4. Fits(e) /\ Reached(e, cache', store', index', faults') /\ Sound(e.meta, last[e.at])
  BY <1>1, <1>3, Known DEF Fits, Reached, CallFine, Storing
<1> QED
  BY <1>1, <1>2, <1>3, <1>4, OneCall DEF CheckRow, dataVars, IInv, TypeOK, DataSound

LEMMA LookInCacheIInv == \A c \in Clients : IInv /\ LookInCache(c) => IInv'
<1> SUFFICES ASSUME NEW c \in Clients, IInv, LookInCache(c) PROVE IInv'
  OBVIOUS
<1>1. call[c].stage = "look" /\ call[c].op \in {"Extract", "GetOrExtract"}
  BY Known DEF LookInCache, At, CallFine, Fits
<1>2. PICK e \in Calls :
            /\ call' = [call EXCEPT ![c] = e]
            /\ e.stage \in {"stat", "put", "done"}
            /\ e.stage = "put" => call[c].op = "GetOrExtract" /\ e.meta # NoMeta
            /\ e.meta \in {call[c].meta, cache[call[c].at]}
            /\ e.op = call[c].op /\ e.at = call[c].at /\ e.alone = call[c].alone
  <2>1. CASE cache[call[c].at] # NoMeta
    BY <1>1, <2>1, GotIs, Known DEF LookInCache
  <2>2. CASE cache[call[c].at] = NoMeta
    BY <2>2, GotoIs, Known DEF LookInCache, Stages
  <2> QED
    BY <2>1, <2>2
<1>3. Fits(e) /\ Reached(e, cache', store', index', faults') /\ Sound(e.meta, last[e.at])
  BY <1>1, <1>2, Known DEF Fits, Reached, CallFine, Storing
<1> QED
  BY <1>1, <1>2, <1>3, OneCall DEF LookInCache, dataVars, IInv, TypeOK, DataSound

LEMMA StatFileIInv == \A c \in Clients : IInv /\ StatFile(c) => IInv'
<1> SUFFICES ASSUME NEW c \in Clients, IInv, StatFile(c) PROVE IInv'
  OBVIOUS
<1> DEFINE p == call[c].at
<1>1. call[c].stage = "stat" /\ call[c].op \in {"Extract", "GetOrExtract"}
  BY Known DEF StatFile, At, CallFine, Fits
<1>2. PICK e \in Calls :
            /\ call' = [call EXCEPT ![c] = e]
            /\ e.stage \in {"done", "read", "fill"}
            /\ e.op = call[c].op /\ e.at = p /\ e.alone = call[c].alone
            /\ \/ e.stage = "done" /\ e.meta = call[c].meta
               \/ e.meta = [stat |-> disk[p], read |-> 0] /\ disk[p] # 0
  <2>1. CASE Fail(c)
    BY <2>1, FailIs, Known
  <2>2. CASE ~Fail(c)
    <3> DEFINE seen == [stat |-> disk[p], read |-> 0]
               e == [call[c] EXCEPT !.meta = seen,
                                    !.stage = IF p \in Dirs THEN "fill" ELSE "read"]
    <3>0. disk[p] # 0
      BY <2>2 DEF StatFile
    <3>1. seen \in Metas
      BY <3>0, Known, ServiceAssumption DEF Metas, TypeOK, Versions
    <3> HIDE DEF seen
    <3>2. /\ e \in Calls /\ e.stage \in {"read", "fill"} /\ e.meta = seen
          /\ e.op = call[c].op /\ e.at = p /\ e.alone = call[c].alone
      BY <3>1, Known DEF Calls, Stages
    <3>3. call' = [call EXCEPT ![c] = e]
      BY <2>2 DEF StatFile, seen
    <3> QED
      BY <3>0, <3>2, <3>3 DEF seen
  <2> QED
    BY <2>1, <2>2
<1>5. faults' \in 0..MaxFaults
  BY FaultIs, Known DEF StatFile, TypeOK
<1>3. Sound(e.meta, last[e.at])
  BY <1>2, Known, ServiceAssumption DEF Sound, CallFine, IInv, TypeOK, Versions
<1>4. Fits(e) /\ Reached(e, cache', store', index', faults')
  BY <1>1, <1>2, Known DEF Fits, Reached, Storing, NoMeta
<1> QED
  BY <1>1, <1>2, <1>3, <1>4, <1>5, OneCall DEF StatFile, dataVars, IInv, TypeOK, DataSound

LEMMA ReadFileIInv == \A c \in Clients : IInv /\ ReadFile(c) => IInv'
<1> SUFFICES ASSUME NEW c \in Clients, IInv, ReadFile(c) PROVE IInv'
  OBVIOUS
<1> DEFINE p == call[c].at
<1>1. call[c].stage = "read" /\ call[c].op \in {"Extract", "GetOrExtract"} /\ call[c].meta # NoMeta
  BY Known DEF ReadFile, At, CallFine, Fits
<1>2. /\ call[c].meta \in [stat : Versions \ {0}, read : Versions]
      /\ disk[p] \in Versions /\ last[p] \in Versions /\ disk[p] \in {0, last[p]}
      /\ call[c].meta.stat <= last[p]
  BY <1>1, Known, MetasAre DEF IInv, TypeOK, CallFine, Sound
<1>3. PICK e \in Calls :
            /\ call' = [call EXCEPT ![c] = e]
            /\ e.stage = "fill" /\ e.op = call[c].op /\ e.at = p /\ e.alone = call[c].alone
            /\ e.meta \in {call[c].meta, [call[c].meta EXCEPT !.read = disk[p]]}
            /\ faults' \in 0..MaxFaults
  <2>1. CASE Fault /\ Goto(c, "fill")
    BY <2>1, GotoIs, FaultIs, Known DEF Stages
  <2> DEFINE meta == [call[c].meta EXCEPT !.read = disk[p]]
             e == [call[c] EXCEPT !.meta = meta, !.stage = "fill"]
  <2>2. CASE call' = [call EXCEPT ![c] = e] /\ faults' = faults
    <3>1. meta \in Metas
      BY <1>2 DEF Metas
    <3> HIDE DEF meta
    <3>2. /\ e \in Calls /\ e.stage = "fill" /\ e.meta = meta
          /\ e.op = call[c].op /\ e.at = p /\ e.alone = call[c].alone
      BY <3>1, Known DEF Calls, Stages
    <3>3. faults' \in 0..MaxFaults
      BY <2>2, Known DEF TypeOK
    <3> QED
      BY <2>2, <3>2, <3>3 DEF meta
  <2>3. call[c] \in Calls
    BY Known
  <2>4. [call[c] EXCEPT !.meta.read = disk[p], !.stage = "fill"] = e
    BY <2>3 DEF Calls
  <2> QED
    BY <2>1, <2>2, <2>4 DEF ReadFile
<1>4. Sound(e.meta, last[e.at])
  BY <1>2, <1>3, Known, ServiceAssumption DEF Sound, CallFine, Versions
<1>5. e.meta # NoMeta
  BY <1>2, <1>3 DEF NoMeta
<1>6. Fits(e) /\ Reached(e, cache', store', index', faults')
  BY <1>1, <1>3, <1>5, Known DEF Fits, Reached, Storing
<1> QED
  BY <1>1, <1>3, <1>4, <1>6, OneCall DEF ReadFile, dataVars, IInv, TypeOK, DataSound

LEMMA FillCacheIInv == \A c \in Clients : IInv /\ FillCache(c) => IInv'
<1> SUFFICES ASSUME NEW c \in Clients, IInv, FillCache(c) PROVE IInv'
  OBVIOUS
<1>1. call[c].stage = "fill" /\ call[c].op \in {"Extract", "GetOrExtract"} /\ call[c].meta # NoMeta
  BY Known DEF FillCache, At, CallFine, Fits
<1>2. PICK e \in Calls :
            /\ call' = [call EXCEPT ![c] = e]
            /\ e.stage = IF call[c].op = "Extract" THEN "done" ELSE "put"
            /\ e.meta = call[c].meta
            /\ e.op = call[c].op /\ e.at = call[c].at /\ e.alone = call[c].alone
  BY GotIs, Known DEF FillCache
<1>3. Fits(e) /\ Reached(e, cache', store', index', faults') /\ Sound(e.meta, last[e.at])
  BY <1>1, <1>2, Known DEF Fits, Reached, CallFine, Storing
<1>4. /\ cache' \in [Paths -> Metas]
      /\ \A p \in Paths : Sound(cache'[p], last[p])
  BY Known DEF FillCache, CallFine, TypeOK
<1> QED
  BY <1>1, <1>2, <1>3, <1>4, OneCall DEF FillCache, IInv, TypeOK, DataSound

LEMMA PutRowIInv == \A c \in Clients : IInv /\ PutRow(c) => IInv'
<1> SUFFICES ASSUME NEW c \in Clients, IInv, PutRow(c) PROVE IInv'
  OBVIOUS
<1> DEFINE p == call[c].at
<1>1. /\ call[c].stage = "put" /\ call[c].op \in Storing \cup {"GetOrExtract"}
      /\ call[c].op \in Storing => call[c].meta # NoMeta
  BY Known DEF PutRow, At, CallFine, Fits
<1>2. PICK e \in Calls :
            /\ call' = [call EXCEPT ![c] = e]
            /\ e.stage \in {"index", "done"}
            /\ e.meta = call[c].meta /\ e.op = call[c].op /\ e.at = p /\ e.alone = call[c].alone
            /\ e.stage = "index" => e.op \in Storing /\ HasIndex /\ store' = [store EXCEPT ![p] = e.meta]
            /\ store' \in {store, [store EXCEPT ![p] = e.meta]}
            /\ faults' \in 0..MaxFaults
  <2>1. CASE faults' = faults /\ store' = [store EXCEPT ![p] = call[c].meta]
             /\ Goto(c, IF call[c].op \in Storing /\ HasIndex THEN "index" ELSE "done")
    <3>1. PICK stage \in {"index", "done"} :
              stage = (IF call[c].op \in Storing /\ HasIndex THEN "index" ELSE "done")
      OBVIOUS
    <3>2. Goto(c, stage) /\ stage \in Stages
      BY <2>1, <3>1 DEF Stages
    <3>3. PICK e \in Calls :
              /\ call' = [call EXCEPT ![c] = e]
              /\ e.stage = stage /\ e.meta = call[c].meta
              /\ e.op = call[c].op /\ e.at = call[c].at /\ e.alone = call[c].alone
      BY <3>2, GotoIs, Known
    <3>4. faults' \in 0..MaxFaults
      BY <2>1, Known DEF TypeOK
    <3> QED
      BY <2>1, <3>1, <3>3, <3>4
  <2>2. CASE Fault /\ store' = store /\ Fail(c)
    BY <2>2, FailIs, FaultIs, Known
  <2>3. CASE Fault /\ store' = store /\ Goto(c, "done")
    BY <2>3, GotoIs, FaultIs, Known DEF Stages
  <2> QED
    BY <2>1, <2>2, <2>3 DEF PutRow, Storing
<1>3. /\ store' \in [Paths -> Metas]
      /\ \A q \in Paths : Sound(store'[q], last[q])
      /\ e.stage = "index" => store'[p] # NoMeta
  BY <1>1, <1>2, Known DEF CallFine, TypeOK
<1>4. Fits(e) /\ Reached(e, cache', store', index', faults') /\ Sound(e.meta, last[e.at])
  BY <1>1, <1>2, <1>3, Known DEF Fits, Reached, CallFine, Storing
<1> QED
  BY <1>1, <1>2, <1>3, <1>4, OneCall DEF PutRow, IInv, TypeOK, DataSound

LEMMA PutDocIInv == \A c \in Clients : IInv /\ PutDoc(c) => IInv'
<1> SUFFICES ASSUME NEW c \in Clients, IInv, PutDoc(c) PROVE IInv'
  OBVIOUS
<1> DEFINE p == call[c].at
<1>1. call[c].stage = "index" /\ call[c].op \in Storing /\ call[c].meta # NoMeta
  BY Known DEF PutDoc, At, CallFine, Fits
<1>2. PICK e \in Calls :
            /\ call' = [call EXCEPT ![c] = e]
            /\ e.stage = "done" /\ e.meta = call[c].meta
            /\ e.op = call[c].op /\ e.at = p /\ e.alone = call[c].alone
  BY GotoIs, Known DEF PutDoc, Stages
<1>3. faults' \in 0..MaxFaults
  BY FaultIs, Known DEF PutDoc, TypeOK
<1>4. /\ Doc(call[c].meta, 0) \in Docs /\ disk[p] \in Versions
      /\ Doc(call[c].meta, disk[p]) \in Docs
  BY <1>1, Known, MetasAre, ServiceAssumption DEF Doc, Docs, IInv, TypeOK, Versions
<1>5. index' \in [Paths -> Docs]
  BY <1>4, Known DEF PutDoc, TypeOK
<1>6. HasIndex
  BY Known DEF PutDoc, At, CallFine, Fits
<1>7. Fits(e) /\ Reached(e, cache', store', index', faults') /\ Sound(e.meta, last[e.at])
  BY <1>1, <1>2, Known DEF Fits, Reached, CallFine, Storing
<1> QED
  BY <1>1, <1>2, <1>3, <1>5, <1>6, <1>7, OneCall DEF PutDoc, IInv, TypeOK, DataSound

LEMMA ForgetIInv == \A c \in Clients : IInv /\ Forget(c) => IInv'
<1> SUFFICES ASSUME NEW c \in Clients, IInv, Forget(c) PROVE IInv'
  OBVIOUS
<1>1. call[c].stage = "forget" /\ call[c].op = "Delete"
  BY Known DEF Forget, At, CallFine, Fits
<1>2. PICK e \in Calls :
            /\ call' = [call EXCEPT ![c] = e]
            /\ e.stage = "deleteRow" /\ e.meta = call[c].meta
            /\ e.op = call[c].op /\ e.at = call[c].at /\ e.alone = call[c].alone
  BY GotoIs, Known DEF Forget, Stages
<1>3. /\ cache' \in [Paths -> Metas] /\ cache'[call[c].at] = NoMeta
      /\ \A p \in Paths : Sound(cache'[p], last[p])
  BY Known, NoMetaIsSound DEF Forget, TypeOK
<1>4. Fits(e) /\ Reached(e, cache', store', index', faults') /\ Sound(e.meta, last[e.at])
  BY <1>1, <1>2, <1>3, Known DEF Fits, Reached, CallFine, Storing
<1> QED
  BY <1>1, <1>2, <1>3, <1>4, OneCall DEF Forget, IInv, TypeOK, DataSound

LEMMA DeleteRowIInv == \A c \in Clients : IInv /\ DeleteRow(c) => IInv'
<1> SUFFICES ASSUME NEW c \in Clients, IInv, DeleteRow(c) PROVE IInv'
  OBVIOUS
<1> DEFINE p == call[c].at
<1>1. call[c].stage = "deleteRow" /\ call[c].op = "Delete"
  BY Known DEF DeleteRow, At, CallFine, Fits
<1>2. PICK e \in Calls :
            /\ call' = [call EXCEPT ![c] = e]
            /\ e.stage \in {"deleteDoc", "done"} /\ e.meta = call[c].meta
            /\ e.op = call[c].op /\ e.at = p /\ e.alone = call[c].alone
            /\ \/ /\ faults' = faults /\ store' = [store EXCEPT ![p] = NoMeta]
                  /\ e.stage = "done" => ~HasIndex
               \/ faults' # 0 /\ faults' \in 0..MaxFaults /\ store' = store
  <2>1. CASE faults' = faults /\ store' = [store EXCEPT ![p] = NoMeta]
             /\ Goto(c, IF HasIndex THEN "deleteDoc" ELSE "done")
    <3>1. CASE HasIndex
      BY <2>1, <3>1, GotoIs, Known DEF Stages
    <3>2. CASE ~HasIndex
      BY <2>1, <3>2, GotoIs, Known DEF Stages
    <3> QED
      BY <3>1, <3>2
  <2>2. CASE Fault /\ Fail(c) /\ store' = store
    BY <2>2, FailIs, FaultIs, Known
  <2> QED
    BY <2>1, <2>2 DEF DeleteRow
<1>3. /\ store' \in [Paths -> Metas]
      /\ \A q \in Paths : Sound(store'[q], last[q])
      /\ faults' \in 0..MaxFaults
      /\ faults' = 0 => faults = 0 /\ store'[p] = NoMeta
  BY <1>2, Known, NoMetaIsSound DEF TypeOK
<1>4. HasIndex \/ index[p] = NoDoc
  BY Known DEF IInv
<1>5. Fits(e) /\ Reached(e, cache', store', index', faults') /\ Sound(e.meta, last[e.at])
  BY <1>1, <1>2, <1>3, <1>4, Known DEF DeleteRow, Fits, Reached, CallFine, Storing
<1> QED
  BY <1>1, <1>2, <1>3, <1>5, OneCall DEF DeleteRow, IInv, TypeOK, DataSound

LEMMA DeleteDocIInv == \A c \in Clients : IInv /\ DeleteDoc(c) => IInv'
<1> SUFFICES ASSUME NEW c \in Clients, IInv, DeleteDoc(c) PROVE IInv'
  OBVIOUS
<1> DEFINE p == call[c].at
<1>1. call[c].stage = "deleteDoc" /\ call[c].op = "Delete"
  BY Known DEF DeleteDoc, At, CallFine, Fits
<1>2. PICK e \in Calls :
            /\ call' = [call EXCEPT ![c] = e]
            /\ e.stage = "done" /\ e.meta = call[c].meta
            /\ e.op = call[c].op /\ e.at = p /\ e.alone = call[c].alone
  BY GotoIs, Known DEF DeleteDoc, Stages
<1>3. /\ index' \in [Paths -> Docs]
      /\ HasIndex \/ \A q \in Paths : index'[q] = NoDoc
      /\ faults' \in 0..MaxFaults
      /\ faults' = 0 => faults = 0 /\ index'[p] = NoDoc
  BY FaultIs, Known, NoMetaIsSound DEF DeleteDoc, IInv, TypeOK
<1>4. Fits(e) /\ Reached(e, cache', store', index', faults') /\ Sound(e.meta, last[e.at])
  BY <1>1, <1>2, <1>3, Known DEF DeleteDoc, Fits, Reached, CallFine, Storing
<1> QED
  BY <1>1, <1>2, <1>3, <1>4, OneCall DEF DeleteDoc, IInv, TypeOK, DataSound

LEMMA ReturnIInv == \A c \in Clients : IInv /\ Return(c) => IInv'
<1> SUFFICES ASSUME NEW c \in Clients, IInv, Return(c) PROVE IInv'
  OBVIOUS
<1> DEFINE p == call[c].at
           kept == IF call[c].op \in {"Extract", "GetOrExtract"} THEN call[c].meta ELSE NoMeta
           e == [Idle EXCEPT !.at = p, !.meta = kept]
<1>1. call[c].stage = "done"
  BY DEF Return, At
<1>2. kept \in Metas /\ Sound(kept, last[p])
  BY Known, NoMetaIsSound DEF CallFine, TypeOK
<1>3. call' = [call EXCEPT ![c] = e]
  BY DEF Return
<1> HIDE DEF kept
<1>4. /\ e \in Calls /\ e.stage = "idle" /\ e.meta = kept /\ e.at = p /\ e.op = Idle.op
  BY <1>2, IdleIsFine, Known DEF Calls
<1>5. Idle.op = "none"
  BY DEF Idle
<1> HIDE DEF e
<1>6. Fits(e) /\ Reached(e, cache', store', index', faults') /\ Sound(e.meta, last[e.at])
  BY <1>2, <1>4, <1>5 DEF Fits, Reached, Storing
<1> QED
  BY <1>1, <1>3, <1>4, <1>6, OneCall DEF Return, dataVars, IInv, TypeOK, DataSound

(***************************************************************************)
(* A call that begins: any other one in progress is no longer alone, and   *)
(* it is alone itself when there is none.                                  *)
(***************************************************************************)
Operations == {"Extract", "GetOrExtract", "Store", "StoreWithContent", "Delete"}

LEMMA BeginIInv ==
    \A c \in Clients, op \in Operations, p \in Paths : IInv /\ Begin(c, op, p) => IInv'
<1> SUFFICES ASSUME NEW c \in Clients, NEW op \in Operations, NEW p \in Paths, IInv, Begin(c, op, p)
             PROVE  IInv'
  OBVIOUS
<1> DEFINE held == IF op \in Storing THEN call[c].meta ELSE NoMeta
           alone == \A o \in Clients \ {c} : At(o, "idle")
           e == [op |-> op, at |-> p, stage |-> FirstStage[op], failed |-> FALSE,
                 meta |-> held, alone |-> alone]
           overlapped(d) == [call[d] EXCEPT !.alone = FALSE]
<1>1. call' = [d \in Clients |-> IF d # c THEN overlapped(d) ELSE e]
  BY DEF Begin, Storing
<1>2. op \in Storing => call[c].meta # NoMeta /\ call[c].at = p
  BY DEF Begin, Storing
<1>3. op \in {"Extract", "GetOrExtract", "Store", "StoreWithContent", "Delete"}
  BY DEF Operations
<1>4. held \in Metas /\ Sound(held, last[p])
  BY <1>2, Known, NoMetaIsSound DEF CallFine, TypeOK
<1>5. alone \in BOOLEAN
  OBVIOUS
<1> HIDE DEF held, alone
<1>6. /\ e.op = op /\ e.at = p /\ e.stage = FirstStage[op] /\ e.meta = held /\ e.alone = alone
      /\ FirstStage[op] \in {"look", "get", "put", "forget"}
      /\ e \in Calls
  BY <1>3, <1>4, <1>5 DEF FirstStage, Calls, Stages
<1>7. \A d \in Clients :
          /\ overlapped(d) \in Calls /\ overlapped(d).alone = FALSE
          /\ overlapped(d).op = call[d].op /\ overlapped(d).at = call[d].at
          /\ overlapped(d).stage = call[d].stage /\ overlapped(d).meta = call[d].meta
  BY Known DEF Calls
<1>8. Fits(e)
  BY <1>2, <1>3, <1>6 DEF Fits, Storing, FirstStage, held
<1>9. Reached(e, cache', store', index', faults')
  BY <1>3, <1>6 DEF Reached, FirstStage
<1> HIDE DEF e
<1>10. TypeOK'
  <2>1. UNCHANGED <<disk, last, cache, store, index, faults>>
    BY DEF Begin, fileVars, dataVars
  <2>2. \A d \in Clients : (IF d # c THEN overlapped(d) ELSE e) \in Calls
    BY <1>6, <1>7
  <2>3. call' \in [Clients -> Calls]
    BY <1>1, <2>2
  <2> QED
    BY <2>1, <2>3, Known DEF TypeOK
<1>11. Apart'
  <2> SUFFICES ASSUME NEW a \in Clients, NEW b \in Clients, a # b,
                      call'[a].alone, call'[a].stage # "idle"
               PROVE  call'[b].stage = "idle"
    BY DEF Apart
  <2>1. a = c
    BY <1>1, <1>7
  <2>2. call[b].stage = "idle"
    BY <1>1, <1>6, <2>1 DEF alone, At
  <2> QED
    BY <1>1, <1>7, <2>1, <2>2
<1>12. ASSUME NEW d \in Clients PROVE CallFine(d)'
  <2>1. CASE d = c
    BY <1>1, <1>4, <1>6, <1>8, <1>9, <2>1 DEF CallFine, Begin, fileVars
  <2>2. CASE d # c
    <3> DEFINE o == overlapped(d)
    <3>1. call'[d] = o
      BY <1>1, <2>2
    <3>2. /\ o.alone = FALSE /\ o.op = call[d].op /\ o.at = call[d].at
          /\ o.stage = call[d].stage /\ o.meta = call[d].meta
      BY <1>7
    <3> HIDE DEF o
    <3>3. Fits(o) /\ Reached(o, cache', store', index', faults') /\ Sound(o.meta, last[o.at])
      BY <3>2, Known DEF CallFine, Fits, Reached
    <3> QED
      BY <3>1, <3>3 DEF CallFine, Begin, fileVars
  <2> QED
    BY <2>1, <2>2
<1> QED
  BY <1>10, <1>11, <1>12 DEF IInv, DataSound, Begin, fileVars, dataVars

LEMMA ClearCacheIInv == IInv /\ ClearCache => IInv'
<1> SUFFICES ASSUME IInv, ClearCache PROVE IInv'
  OBVIOUS
<1>1. TypeOK'
  BY NoMetaIsSound DEF ClearCache, IInv, TypeOK, fileVars
<1>2. DataSound'
  BY NoMetaIsSound DEF ClearCache, IInv, TypeOK, DataSound, fileVars
<1>3. \A c \in Clients : CallFine(c)'
  BY Known DEF ClearCache, CallFine, Reached, fileVars
<1> QED
  BY <1>1, <1>2, <1>3 DEF ClearCache, IInv, Apart, fileVars

LEMMA ExpireIInv == \A p \in Paths : IInv /\ Expire(p) => IInv'
<1> SUFFICES ASSUME NEW p \in Paths, IInv, Expire(p) PROVE IInv'
  OBVIOUS
<1>1. TypeOK'
  BY NoMetaIsSound DEF Expire, IInv, TypeOK, fileVars
<1>2. DataSound'
  BY NoMetaIsSound DEF Expire, IInv, TypeOK, DataSound, fileVars
<1>3. \A c \in Clients : CallFine(c)'
  BY Known DEF Expire, CallFine, Reached, fileVars, TypeOK
<1> QED
  BY <1>1, <1>2, <1>3 DEF Expire, IInv, Apart, fileVars

LEMMA RestartIInv == IInv /\ Restart => IInv'
<1> SUFFICES ASSUME IInv, Restart PROVE IInv'
  OBVIOUS
<1>1. TypeOK'
  BY NoMetaIsSound, IdleIsFine DEF Restart, IInv, TypeOK, fileVars
<1>2. DataSound'
  BY NoMetaIsSound DEF Restart, IInv, TypeOK, DataSound, fileVars
<1>3. \A c \in Clients : call'[c] = Idle
  BY DEF Restart
<1>4. Idle.at \in Paths
  BY IdleIsFine DEF Calls
<1>5. ASSUME NEW c \in Clients PROVE CallFine(c)'
  BY <1>1, <1>3, <1>4, IdleIsFine, NoMetaIsSound DEF CallFine, TypeOK
<1>6. Apart'
  BY <1>3, IdleIsFine DEF Apart
<1> QED
  BY <1>1, <1>2, <1>5, <1>6 DEF Restart, IInv, fileVars

\* Metadata stays sound when the file gets a newer version.
LEMMA SoundStays ==
    ASSUME NEW meta \in Metas, NEW old \in Nat, NEW new \in Nat, old <= new, Sound(meta, old)
    PROVE  Sound(meta, new)
BY MetasAre DEF Sound

LEMMA FilesIInv == \A p \in Paths : IInv /\ (WriteFile(p) \/ RemoveFile(p)) => IInv'
<1> SUFFICES ASSUME NEW p \in Paths, IInv, WriteFile(p) \/ RemoveFile(p) PROVE IInv'
  OBVIOUS
<1>1. /\ UNCHANGED <<dataVars, call, faults>>
      /\ disk' \in [Paths -> Versions] /\ last' \in [Paths -> Versions \ {0}]
      /\ \A q \in Paths : disk'[q] \in {0, last'[q]} /\ last[q] <= last'[q]
  <2>1. CASE WriteFile(p)
    BY <2>1, ServiceAssumption DEF WriteFile, IInv, TypeOK, Versions
  <2>2. CASE RemoveFile(p)
    BY <2>2, ServiceAssumption DEF RemoveFile, IInv, TypeOK, Versions
  <2> QED
    BY <2>1, <2>2
<1>2. \A q \in Paths : last[q] \in Nat /\ last'[q] \in Nat
  BY <1>1, ServiceAssumption DEF IInv, TypeOK, Versions
<1>3. TypeOK'
  BY <1>1 DEF IInv, TypeOK, dataVars
<1>4. DataSound'
  BY <1>1, <1>2, SoundStays DEF IInv, TypeOK, DataSound, dataVars
<1>5. ASSUME NEW c \in Clients PROVE CallFine(c)'
  BY <1>1, <1>2, SoundStays, Known DEF CallFine, dataVars
<1> QED
  BY <1>1, <1>3, <1>4, <1>5 DEF IInv, Apart, dataVars

LEMMA NextIInv == IInv /\ [Next]_vars => IInv'
<1> SUFFICES ASSUME IInv, [Next]_vars PROVE IInv'
  OBVIOUS
<1>1. ASSUME NEW c \in Clients, NEW op \in Ops, NEW p \in Paths, Begin(c, op, p) PROVE IInv'
  BY <1>1, BeginIInv, ServiceAssumption DEF Operations
<1>2. ASSUME NEW c \in Clients, Working(c) PROVE IInv'
  BY <1>2, GetRowIInv, CheckRowIInv, LookInCacheIInv, StatFileIInv, ReadFileIInv, FillCacheIInv,
     PutRowIInv, PutDocIInv, ForgetIInv, DeleteRowIInv, DeleteDocIInv DEF Working, Extracting
<1>3. ASSUME NEW c \in Clients, Return(c) PROVE IInv'
  BY <1>3, ReturnIInv
<1>4. ASSUME NEW p \in Paths, Expire(p) \/ WriteFile(p) \/ RemoveFile(p) PROVE IInv'
  BY <1>4, ExpireIInv, FilesIInv
<1>5. CASE UNCHANGED vars
  BY <1>5 DEF vars, IInv, TypeOK, DataSound, Apart, CallFine
<1> QED
  BY <1>1, <1>2, <1>3, <1>4, <1>5, ClearCacheIInv, RestartIInv DEF Next

LEMMA Invariance == Spec => []IInv
BY InitIInv, NextIInv, PTL DEF Spec

-----------------------------------------------------------------------------
LEMMA IInvIsWhole == IInv => CurrentIsWhole
<1> SUFFICES ASSUME IInv, NEW p \in Paths, disk[p] # 0,
                    NEW meta \in {store[p], cache[p]}, meta.stat = disk[p]
             PROVE  Whole(meta)
  BY DEF CurrentIsWhole
<1>1. disk[p] = last[p] /\ Sound(meta, last[p]) /\ meta \in Metas
  BY DEF IInv, TypeOK, DataSound
<1>2. last[p] \in Nat
  BY ServiceAssumption DEF IInv, TypeOK, Versions
<1> QED
  BY <1>1, <1>2, MetasAre DEF Sound, Whole

LEMMA IInvForgets == IInv => DeleteForgets
BY DEF IInv, CallFine, Reached, DeleteForgets, At

\* Any step from a state of the invariant explains the orphans it makes.
LEMMA StepExplains == IInv /\ [Next]_vars => ExplainsOrphans
<1> SUFFICES ASSUME IInv, [Next]_vars, NEW p \in Paths, Orphan(p)', ~Orphan(p)
             PROVE  \E c \in Clients :
                        /\ call[c].at = p
                        /\ \/ At(c, "deleteRow")
                           \/ At(c, "index") /\ ~call[c].alone
  BY DEF ExplainsOrphans
<1>1. store'[p] # store[p] \/ index'[p] # index[p]
  BY DEF Orphan
<1>2. ASSUME NEW c \in Clients, PutRow(c) PROVE FALSE
  <2>1. call[c].meta # NoMeta /\ index' = index
    BY <1>2, Known DEF PutRow, At, CallFine, Fits
  <2>2. store'[p] \in {store[p], call[c].meta}
    BY <1>2, Known DEF PutRow, TypeOK
  <2> QED
    BY <2>1, <2>2 DEF Orphan
<1>3. ASSUME NEW c \in Clients, PutDoc(c) PROVE call[c].at = p /\ At(c, "index") /\ ~call[c].alone
  <2>1. At(c, "index") /\ store' = store
    BY <1>3 DEF PutDoc
  <2>2. index'[p] # index[p] /\ store[p] = NoMeta
    BY <2>1 DEF Orphan
  <2>3. call[c].at = p
    BY <1>3, <2>2, Known DEF PutDoc, TypeOK
  <2> QED
    BY <2>1, <2>2, <2>3, Known DEF CallFine, Reached, At
<1>4. ASSUME NEW c \in Clients, DeleteRow(c) PROVE call[c].at = p /\ At(c, "deleteRow")
  <2>1. At(c, "deleteRow") /\ index' = index
    BY <1>4 DEF DeleteRow
  <2>2. store'[p] # store[p]
    BY <2>1 DEF Orphan
  <2> QED
    BY <1>4, <2>1, <2>2, Known DEF DeleteRow, TypeOK
<1>5. ASSUME NEW c \in Clients, DeleteDoc(c) PROVE FALSE
  <2>1. store' = store /\ index'[p] \in {index[p], NoDoc}
    BY <1>5, Known DEF DeleteDoc, TypeOK
  <2> QED
    BY <2>1 DEF Orphan
<1>6. ASSUME NEW c \in Clients, Extracting(c) \/ Forget(c) \/ Return(c) PROVE FALSE
  BY <1>6, <1>1 DEF Extracting, GetRow, CheckRow, LookInCache, StatFile, ReadFile, FillCache,
     Forget, Return, dataVars
<1>7. ASSUME NEW c \in Clients, NEW op \in Ops, NEW q \in Paths, Begin(c, op, q) PROVE FALSE
  BY <1>7, <1>1 DEF Begin, dataVars
<1>8. ASSUME NEW q \in Paths, Expire(q) \/ WriteFile(q) \/ RemoveFile(q) PROVE FALSE
  BY <1>8, <1>1 DEF Expire, WriteFile, RemoveFile, dataVars
<1>9. ~ClearCache /\ ~Restart /\ ~UNCHANGED vars
  BY <1>1 DEF ClearCache, Restart, vars
<1> QED
  BY <1>2, <1>3, <1>4, <1>5, <1>6, <1>7, <1>8, <1>9 DEF Next, Working

-----------------------------------------------------------------------------
(***************************************************************************)
(* The service, its files and its calls keep their types, and a call keeps *)
(* the metadata of a file that was there in every stage.                   *)
(***************************************************************************)
THEOREM ServiceTyped == Spec => []TypeOK
BY Invariance, PTL DEF IInv

(***************************************************************************)
(* Metadata that looks current is whole (service.go:55-118): a row or a    *)
(* cache entry under the file's present ModTime describes one version,     *)
(* however the two looks of Extract, other calls, changes of the file and  *)
(* failures interleave.                                                    *)
(***************************************************************************)
THEOREM ServiceCurrentIsWhole == Spec => []CurrentIsWhole
BY Invariance, IInvIsWhole, PTL

(***************************************************************************)
(* Delete forgets (service.go:270-290): a Delete that nothing overlaps and *)
(* in a service where nothing has failed leaves neither cache entry, row   *)
(* nor document.                                                           *)
(***************************************************************************)
THEOREM ServiceDeleteForgets == Spec => []DeleteForgets
BY Invariance, IInvForgets, PTL

(***************************************************************************)
(* A search hit without a row comes from Delete (service.go:121-290):      *)
(* Store and StoreWithContent on their own leave none behind, whatever     *)
(* fails and wherever the process dies.                                    *)
(***************************************************************************)
THEOREM ServiceOrphansOnlyFromDelete == Spec => OrphansOnlyFromDelete
BY Invariance, StepExplains, PTL DEF Spec, OrphansOnlyFromDelete

-----------------------------------------------------------------------------
(***************************************************************************)
(* The traversals.                                                         *)
(***************************************************************************)
Frames == [dir : Paths, left : SUBSET Paths, batch : SUBSET [path : Paths, meta : Metas]]

Trips == [kind : {"none", "Walk", "UpdateDirectory"},
          stage : {"rest", "stat", "called", "list", "next", "ok", "err"},
          root : Paths \cup {NoPath}, at : Paths \cup {NoPath}, frames : Seq(Frames)]

\* A path is there only with the directory it is in, and so for those that stayed.
TreeHolds ==
    /\ \A p \in Here : Parent[p] # NoPath => Parent[p] \in Here
    /\ steady \subseteq Here
    /\ \A p \in steady : Parent[p] # NoPath => Parent[p] \in steady

Levels == 1..Len(trip.frames)

\* The frames are those of a directory, of one in it, and so on from the root.
Stacked ==
    \A i \in Levels :
        LET f == trip.frames[i] IN
        /\ f.dir \in Below(trip.root)
        /\ IF i = 1 THEN f.dir = trip.root ELSE Parent[f.dir] = trip.frames[i - 1].dir
        /\ \A p \in f.left : Parent[p] = f.dir
        /\ \A b \in f.batch : /\ Parent[b.path] = f.dir /\ b.meta # NoMeta
                              /\ Sound(b.meta, last[b.path])

\* What the stage of the traversal says of where it is.
Placed ==
    /\ trip.kind = "none" <=> trip.stage = "rest"
    /\ trip.kind # "none" => trip.root \in Paths
    /\ trip.stage \in {"rest", "ok", "err"} => trip.frames = <<>>
    /\ trip.stage = "stat" => trip.kind = "Walk"
    /\ trip.stage \in {"stat", "called", "list"} =>
          /\ trip.at \in Below(trip.root)
          /\ IF trip.frames = <<>> THEN trip.at = trip.root ELSE Parent[trip.at] = Top.dir
    /\ trip.kind = "UpdateDirectory" /\ trip.stage \in {"called", "next"} => trip.frames # <<>>

\* The call that the traversal waits for; no other is in progress.
Calling ==
    LET e == call[Traveller] IN
    /\ \A c \in Clients : call[c].stage # "idle" => c = Traveller /\ trip.stage = "called"
    /\ trip.stage = "called" =>
          /\ e.stage # "idle" /\ e.at = trip.at
          /\ e.op = IF trip.kind = "Walk" THEN "GetOrExtract" ELSE "Extract"
          /\ e.op = "Extract" =>
                /\ e.stage \in {"look", "stat", "read", "fill", "done"}
                /\ e.stage = "done" /\ ~e.failed => e.meta # NoMeta

Pending(p) == trip.stage \in {"stat", "called"} /\ trip.at = p

\* Walk: what was called back for, is to be, or will be listed.
Visiting ==
    trip.kind = "Walk" =>
        /\ \A p \in Paths : visits[p] \in {0, 1}
        /\ \A p \in Paths : visits[p] = 1 =>
              p \in Below(trip.root) /\ (p # trip.root => visits[Parent[p]] = 1)
        /\ \A p \in Paths : Pending(p) =>
              visits[p] = 0 /\ (p # trip.root => visits[Parent[p]] = 1)
        /\ trip.stage = "list" =>
              /\ visits[trip.at] = 1
              /\ \A p \in Paths : Parent[p] = trip.at => visits[p] = 0
              /\ \A i \in Levels : trip.frames[i].dir # trip.at
        /\ \A i \in Levels :
              /\ visits[trip.frames[i].dir] = 1
              /\ \A p \in trip.frames[i].left : visits[p] = 0 /\ ~Pending(p)
              /\ \A j \in Levels : i # j => trip.frames[i].dir # trip.frames[j].dir
        /\ trip.stage # "err" =>
              /\ visits[trip.root] = 1 \/ Pending(trip.root)
              /\ \A p \in steady : Parent[p] # NoPath =>
                    (visits[Parent[p]] = 1 =>
                        \/ visits[p] = 1 \/ Pending(p)
                        \/ trip.stage = "list" /\ trip.at = Parent[p]
                        \/ \E i \in Levels : p \in trip.frames[i].left
                        \/ Parent[p] \in told)

\* UpdateDirectory has yet to deal with p, or with a directory above it.
Ahead(p) ==
    \/ trip.stage = "called" /\ p \in Below(trip.at)
    \/ trip.stage = "list" /\ p # trip.at /\ p \in Below(trip.at)
    \/ \E i \in Levels : \/ \E q \in trip.frames[i].left : p \in Below(q)
                         \/ \E b \in trip.frames[i].batch : b.path = p

Storable ==
    trip.kind = "UpdateDirectory" /\ trip.stage # "err" =>
        \A p \in (Below(trip.root) \ {trip.root}) \cap steady :
            store[p] # NoMeta \/ Ahead(p) \/ Reported(p)

TInv ==
    /\ trip \in Trips /\ visits \in [Paths -> Nat] /\ steady \subseteq Paths
    /\ TreeHolds /\ Stacked /\ Placed /\ Calling /\ Visiting /\ Storable

-----------------------------------------------------------------------------
\* The tree: what is below a path.
LEMMA ParentIs == ASSUME NEW p \in Paths PROVE Parent[p] = NoPath \/ (Parent[p] \in Dirs /\ Parent[p] \in Paths)
BY TreeAssumption, ServiceAssumption

LEMMA BelowSelf == ASSUME NEW p \in Paths PROVE p \in Below(p) /\ Below(p) \subseteq Paths
BY DEF Below

LEMMA BelowChild ==
    ASSUME NEW d, NEW k \in Below(d), NEW p \in Paths, Parent[p] = k
    PROVE  p \in Below(d)
BY DEF Below

LEMMA BelowInduction ==
    ASSUME NEW d, NEW S \in SUBSET Paths, d \in S,
           \A p \in Paths : Parent[p] \in S => p \in S
    PROVE  Below(d) \subseteq S
BY DEF Below

\* What is below a path is at or below one that is in it, and so is its parent.
LEMMA BelowFirst ==
    ASSUME NEW d \in Paths, NEW p \in Below(d), p # d
    PROVE  /\ Parent[p] \in Below(d)
           /\ \E k \in Paths : Parent[k] = d /\ p \in Below(k)
<1> DEFINE S == {q \in Below(d) : q = d \/ (/\ Parent[q] \in Below(d)
                                            /\ \E k \in Paths : Parent[k] = d /\ q \in Below(k))}
<1>1. S \in SUBSET Paths /\ d \in S
  BY BelowSelf
<1>2. ASSUME NEW q \in Paths, Parent[q] \in S PROVE q \in S
  <2>1. q \in Below(d) /\ Parent[q] \in Below(d)
    BY <1>2, BelowChild
  <2>2. CASE Parent[q] = d
    BY <2>1, <2>2, BelowSelf
  <2>3. CASE Parent[q] # d
    <3>1. PICK k \in Paths : Parent[k] = d /\ Parent[q] \in Below(k)
      BY <1>2, <2>3
    <3>2. q \in Below(k)
      BY <3>1, BelowChild
    <3> QED
      BY <2>1, <3>1, <3>2
  <2> QED
    BY <2>2, <2>3
<1> HIDE DEF S
<1>3. Below(d) \subseteq S
  BY <1>1, <1>2, BelowInduction
<1> QED
  BY <1>3 DEF S

LEMMA NotAbove == ASSUME NEW d \in Paths PROVE Parent[d] \notin Below(d)
<1> SUFFICES ASSUME Parent[d] \in Below(d) PROVE FALSE
  OBVIOUS
<1>1. \A p \in Below(d) : Parent[p] \in Below(d)
  BY BelowFirst
<1>2. Below(d) \in SUBSET Paths /\ Below(d) # {}
  BY BelowSelf
<1> QED
  BY <1>1, <1>2, TreeAssumption

LEMMA FileIsAlone == ASSUME NEW p \in Paths \ Dirs PROVE Below(p) = {p}
<1>1. \A q \in Paths : Parent[q] # p
  BY ParentIs, TreeAssumption
<1>2. Below(p) \subseteq {p}
  BY <1>1, BelowInduction, {p} \in SUBSET Paths
<1> QED
  BY <1>2, BelowSelf

\* What was told is told of all that is below.
LEMMA ReportedBelow ==
    /\ \A p \in Paths \cap told : \A q \in Below(p) : Reported(q)
    /\ \A p, q \in Paths : Parent[q] = p /\ (p \in told \/ Reported(p)) => Reported(q)
BY BelowSelf, BelowChild DEF Reported

\* A step tells more, and takes nothing back.
LEMMA ReportedStays == ASSUME told \subseteq told' PROVE \A p : Reported(p) => Reported(p)'
BY DEF Reported, Below

\* What stayed, stayed with all that is above it.
LEMMA SteadyAbove ==
    ASSUME TreeHolds, NEW d \in Paths, NEW p \in Below(d) \cap steady PROVE d \in steady
<1> DEFINE S == {q \in Paths : q \in steady => d \in steady}
<1>1. ASSUME NEW q \in Paths, Parent[q] \in S PROVE q \in S
  BY <1>1, TreeAssumption DEF TreeHolds
<1>2. S \in SUBSET Paths /\ d \in S
  OBVIOUS
<1> HIDE DEF S
<1>3. Below(d) \subseteq S
  BY <1>1, <1>2, BelowInduction
<1> QED
  BY <1>3, BelowSelf DEF S

-----------------------------------------------------------------------------
\* The stack of directories.
LEMMA StackIs ==
    ASSUME trip \in Trips
    PROVE  /\ trip.frames \in Seq(Frames) /\ Len(trip.frames) \in Nat
           /\ \A i \in Levels : trip.frames[i] \in Frames
           /\ trip.frames # <<>> =>
                 /\ Len(trip.frames) \in Levels /\ Top = trip.frames[Len(trip.frames)]
                 /\ Top \in Frames /\ Top.dir \in Paths
                 /\ Rest \in Seq(Frames) /\ Len(Rest) = Len(trip.frames) - 1
                 /\ \A i \in 1..Len(trip.frames) - 1 : Rest[i] = trip.frames[i]
<1>1. trip.frames \in Seq(Frames)
  BY DEF Trips
<1>2. Len(trip.frames) \in Nat /\ \A i \in Levels : trip.frames[i] \in Frames
  BY <1>1, LenProperties, ElementOfSeq DEF Levels
<1>3. ASSUME trip.frames # <<>>
      PROVE  /\ Len(trip.frames) \in Levels /\ Top = trip.frames[Len(trip.frames)]
             /\ Top \in Frames /\ Top.dir \in Paths
             /\ Rest \in Seq(Frames) /\ Len(Rest) = Len(trip.frames) - 1
             /\ \A i \in 1..Len(trip.frames) - 1 : Rest[i] = trip.frames[i]
  <2>1. Len(trip.frames) >= 1
    BY <1>1, <1>2, <1>3, EmptySeq
  <2>2. Len(trip.frames) \in Levels
    BY <1>2, <2>1 DEF Levels
  <2>3. Top \in Frames /\ Top.dir \in Paths
    BY <1>2, <2>2 DEF Top, Frames
  <2>4. /\ Rest \in Seq(Frames) /\ Len(Rest) = Len(trip.frames) - 1
        /\ \A i \in 1..Len(trip.frames) - 1 : Rest[i] = trip.frames[i]
    <3> DEFINE n == Len(trip.frames) - 1
    <3>1. n \in Nat /\ \A i \in 1..n : trip.frames[i] \in Frames
      BY <1>2, <2>1 DEF Levels
    <3>2. Rest = [i \in 1..n |-> trip.frames[i]]
      BY <1>1, <1>2, <2>1 DEF Rest
    <3> QED
      BY <3>1, <3>2
  <2> QED
    BY <2>2, <2>3, <2>4 DEF Top
<1> QED
  BY <1>1, <1>2, <1>3

\* Its top replaced, or another directory on it.
LEMMA TopIs ==
    ASSUME trip \in Trips, trip.frames # <<>>, NEW f \in Frames
    PROVE  /\ Append(Rest, f) \in Seq(Frames) /\ Append(Rest, f) # <<>>
           /\ Len(Append(Rest, f)) = Len(trip.frames)
           /\ \A i \in Levels :
                 Append(Rest, f)[i] = IF i = Len(trip.frames) THEN f ELSE trip.frames[i]
BY StackIs, AppendProperties DEF Levels

LEMMA PushIs ==
    ASSUME trip \in Trips, NEW f \in Frames
    PROVE  /\ Append(trip.frames, f) \in Seq(Frames) /\ Append(trip.frames, f) # <<>>
           /\ Len(Append(trip.frames, f)) = Len(trip.frames) + 1
           /\ \A i \in 1..Len(trip.frames) + 1 :
                 Append(trip.frames, f)[i] = IF i = Len(trip.frames) + 1 THEN f ELSE trip.frames[i]
BY StackIs, AppendProperties DEF Levels

\* A step that takes a directory off the stack, replaces its top or enters one more.
LEMMA StackedPop ==
    ASSUME trip \in Trips, Stacked, trip.frames # <<>>,
           trip'.root = trip.root, trip'.frames = Rest, UNCHANGED last
    PROVE  Stacked'
<1>1. /\ Len(trip.frames) \in Nat /\ Len(trip'.frames) = Len(trip.frames) - 1
      /\ \A i \in 1..Len(trip'.frames) : i \in Levels /\ trip'.frames[i] = trip.frames[i]
      /\ \A i \in 1..Len(trip'.frames) : i # 1 => trip'.frames[i - 1] = trip.frames[i - 1]
  BY StackIs DEF Levels
<1>2. ASSUME NEW i \in 1..Len(trip'.frames)
      PROVE  LET g == trip'.frames[i] IN
             /\ g.dir \in Below(trip.root)
             /\ IF i = 1 THEN g.dir = trip.root ELSE Parent[g.dir] = trip'.frames[i - 1].dir
             /\ \A p \in g.left : Parent[p] = g.dir
             /\ \A b \in g.batch : /\ Parent[b.path] = g.dir /\ b.meta # NoMeta
                                   /\ Sound(b.meta, last[b.path])
  <2>1. /\ i \in Levels /\ trip'.frames[i] = trip.frames[i]
        /\ i # 1 => trip'.frames[i - 1] = trip.frames[i - 1]
    BY <1>1
  <2>2. LET g == trip.frames[i] IN
        /\ g.dir \in Below(trip.root)
        /\ IF i = 1 THEN g.dir = trip.root ELSE Parent[g.dir] = trip.frames[i - 1].dir
        /\ \A p \in g.left : Parent[p] = g.dir
        /\ \A b \in g.batch : /\ Parent[b.path] = g.dir /\ b.meta # NoMeta
                              /\ Sound(b.meta, last[b.path])
    BY <2>1 DEF Stacked
  <2> QED
    BY <2>1, <2>2
<1> QED
  BY <1>1, <1>2 DEF Stacked, Levels, Below

LEMMA StackedTop ==
    ASSUME trip \in Trips, Stacked, trip.frames # <<>>, NEW f \in Frames,
           trip'.root = trip.root, trip'.frames = Append(Rest, f), UNCHANGED last,
           f.dir = Top.dir, f.left \subseteq Top.left,
           \A b \in f.batch : \/ b \in Top.batch
                              \/ /\ Parent[b.path] = f.dir /\ b.meta # NoMeta
                                 /\ Sound(b.meta, last[b.path])
    PROVE  Stacked'
<1>1. /\ Len(trip.frames) \in Nat /\ Len(trip.frames) \in Levels
      /\ Top = trip.frames[Len(trip.frames)]
      /\ Len(trip'.frames) = Len(trip.frames)
      /\ \A i \in Levels : trip'.frames[i] = IF i = Len(trip.frames) THEN f ELSE trip.frames[i]
  BY StackIs, TopIs
<1>2. \A i \in Levels : i # 1 => i - 1 \in Levels /\ i - 1 # Len(trip.frames)
  BY <1>1 DEF Levels
<1>3. \A i \in Levels : trip'.frames[i].dir = trip.frames[i].dir
  BY <1>1
<1>4. ASSUME NEW i \in Levels
      PROVE  LET g == trip'.frames[i] IN
             /\ g.dir \in Below(trip.root)
             /\ IF i = 1 THEN g.dir = trip.root ELSE Parent[g.dir] = trip'.frames[i - 1].dir
             /\ \A p \in g.left : Parent[p] = g.dir
             /\ \A b \in g.batch : /\ Parent[b.path] = g.dir /\ b.meta # NoMeta
                                   /\ Sound(b.meta, last[b.path])
  BY <1>1, <1>2, <1>3 DEF Stacked
<1> QED
  BY <1>1, <1>4 DEF Stacked, Levels, Below

LEMMA StackedPush ==
    ASSUME trip \in Trips, Stacked, NEW f \in Frames,
           trip'.root = trip.root, trip'.frames = Append(trip.frames, f), UNCHANGED last,
           f.dir \in Below(trip.root),
           IF trip.frames = <<>> THEN f.dir = trip.root ELSE Parent[f.dir] = Top.dir,
           \A p \in f.left : Parent[p] = f.dir,
           f.batch = {}
    PROVE  Stacked'
<1>1. /\ Len(trip.frames) \in Nat
      /\ trip.frames # <<>> =>
            Len(trip.frames) \in Levels /\ Top = trip.frames[Len(trip.frames)]
      /\ trip.frames = <<>> => Len(trip.frames) = 0
      /\ Len(trip'.frames) = Len(trip.frames) + 1
      /\ \A i \in 1..Len(trip.frames) + 1 :
            trip'.frames[i] = IF i = Len(trip.frames) + 1 THEN f ELSE trip.frames[i]
  BY StackIs, PushIs
<1>2. \A i \in 1..Len(trip.frames) + 1 : i # 1 => i - 1 \in Levels
  BY <1>1 DEF Levels
<1>3. trip.frames # <<>> => Len(trip.frames) # 0
  BY <1>1 DEF Levels
<1>4. ASSUME NEW i \in 1..Len(trip.frames) + 1
      PROVE  LET g == trip'.frames[i] IN
             /\ g.dir \in Below(trip.root)
             /\ IF i = 1 THEN g.dir = trip.root ELSE Parent[g.dir] = trip'.frames[i - 1].dir
             /\ \A p \in g.left : Parent[p] = g.dir
             /\ \A b \in g.batch : /\ Parent[b.path] = g.dir /\ b.meta # NoMeta
                                   /\ Sound(b.meta, last[b.path])
  <2>1. CASE i = Len(trip.frames) + 1
    <3>1. trip'.frames[i] = f
      BY <1>1, <2>1
    <3>2. IF i = 1 THEN trip.frames = <<>>
          ELSE trip.frames # <<>> /\ trip'.frames[i - 1] = Top
      BY <1>1, <1>2, <1>3, <2>1 DEF Levels
    <3> QED
      BY <3>1, <3>2
  <2>2. CASE i # Len(trip.frames) + 1
    <3>1. i \in Levels /\ trip'.frames[i] = trip.frames[i]
      BY <1>1, <2>2 DEF Levels
    <3>2. i # 1 => trip'.frames[i - 1] = trip.frames[i - 1]
      BY <1>1, <1>2, <3>1 DEF Levels
    <3> QED
      BY <3>1, <3>2 DEF Stacked
  <2> QED
    BY <2>1, <2>2
<1> QED
  BY <1>1, <1>4 DEF Stacked, Levels, Below

LEMMA StackedSame ==
    ASSUME Stacked, trip'.root = trip.root, trip'.frames = trip.frames, last' = last
    PROVE  Stacked' /\ Levels' = Levels
<1>1. Levels' = Levels
  BY DEF Levels
<1> QED
  BY <1>1 DEF Stacked

LEMMA StackedEmpty == ASSUME trip'.frames = <<>> PROVE Stacked'
<1>1. Len(<<>>) = 0 /\ 1..0 = {}
  OBVIOUS
<1> QED
  BY <1>1 DEF Stacked, Levels

-----------------------------------------------------------------------------
\* The service's invariant holds of the traversals' steps too.
LEMMA TookIInv == IInv /\ At(Traveller, "done") /\ Took => IInv'
<1> SUFFICES ASSUME IInv, At(Traveller, "done"), Took PROVE IInv'
  OBVIOUS
<1>1. Traveller \in Clients /\ call[Traveller].stage # "idle"
  BY TreeAssumption DEF At
<1>2. /\ Sound(Idle.meta, last[Idle.at]) /\ Fits(Idle) /\ Idle \in Calls
      /\ Idle.stage = "idle" /\ Reached(Idle, cache', store', index', faults')
  BY IdleIsFine, NoMetaIsSound DEF IInv, TypeOK, Calls
<1> QED
  BY <1>1, <1>2, OneCall DEF Took, dataVars, IInv, TypeOK, DataSound

\* Of the metadata of a batch, each row takes one.
LEMMA BatchedIs ==
    ASSUME IInv, TInv, trip.frames # <<>>, NEW p \in Paths
    PROVE  LET m == Batched(Top.batch)[p] IN
           /\ m \in Metas /\ Sound(m, last[p])
           /\ store[p] # NoMeta \/ (\E b \in Top.batch : b.path = p) => m # NoMeta
<1>1. /\ Top \in Frames /\ Len(trip.frames) \in Levels /\ Top = trip.frames[Len(trip.frames)]
  BY StackIs DEF TInv
<1>2. \A b \in Top.batch : b.meta \in Metas /\ b.meta # NoMeta /\ Sound(b.meta, last[b.path])
  BY <1>1 DEF TInv, Stacked, Frames
<1>3. CASE \E b \in Top.batch : b.path = p
  <2> DEFINE b == CHOOSE b \in Top.batch : b.path = p
  <2>1. b \in Top.batch /\ b.path = p
    BY <1>3
  <2>2. Batched(Top.batch)[p] = b.meta
    BY <1>3 DEF Batched
  <2> QED
    BY <1>2, <2>1, <2>2
<1>4. CASE ~\E b \in Top.batch : b.path = p
  <2>1. Batched(Top.batch)[p] = store[p]
    BY <1>4 DEF Batched
  <2> QED
    BY <1>4, <2>1 DEF IInv, TypeOK, DataSound
<1> QED
  BY <1>3, <1>4

LEMMA BatchPutIInv == IInv /\ TInv /\ BatchPut => IInv'
<1> SUFFICES ASSUME IInv, TInv, BatchPut PROVE IInv'
  OBVIOUS
<1>1. trip.frames # <<>> /\ \A c \in Clients : call[c].stage = "idle"
  BY DEF TInv, Placed, Calling, BatchPut, Travels
<1>2. /\ UNCHANGED <<disk, last, cache, index, call>>
      /\ \/ store' = Batched(Top.batch) /\ faults' = faults
         \/ store' = store /\ Fault
  BY DEF BatchPut, fileVars
<1>3. /\ store' \in [Paths -> Metas]
      /\ \A p \in Paths : Sound(store'[p], last[p])
  <2>1. Batched(Top.batch) \in [Paths -> Metas]
    BY <1>1, BatchedIs DEF Batched
  <2> QED
    BY <1>1, <1>2, <2>1, BatchedIs DEF IInv, TypeOK, DataSound
<1>4. faults' \in 0..MaxFaults
  BY <1>2, FaultIs DEF IInv, TypeOK
<1>5. TypeOK' /\ DataSound' /\ Apart'
  BY <1>2, <1>3, <1>4 DEF IInv, TypeOK, DataSound, Apart
<1>6. ASSUME NEW c \in Clients PROVE CallFine(c)'
  <2>1. Reached(call[c], cache', store', index', faults')
    BY <1>1 DEF IInv, CallFine, Fits, Reached
  <2> QED
    BY <1>2, <2>1 DEF IInv, CallFine
<1> QED
  BY <1>2, <1>5, <1>6 DEF IInv

LEMMA RequestFailsIInv == IInv /\ RequestFails => IInv'
<1> SUFFICES ASSUME IInv, RequestFails PROVE IInv'
  OBVIOUS
<1>1. UNCHANGED <<disk, last, cache, store, index, call>>
  BY DEF RequestFails, vars, fileVars, dataVars
<1>2. faults' \in 0..MaxFaults /\ (faults' = 0 => faults = 0)
  BY FaultIs DEF RequestFails, vars, IInv, TypeOK
<1>3. \A c \in Clients : CallFine(c)'
  BY <1>1, <1>2 DEF IInv, CallFine, Reached
<1> QED
  BY <1>1, <1>2, <1>3 DEF IInv, TypeOK, DataSound, Apart

LEMMA TreeIInv == IInv /\ TInv /\ [TreeNext]_allVars => IInv'
<1> SUFFICES ASSUME IInv, TInv, [TreeNext]_allVars PROVE IInv'
  OBVIOUS
<1>1. ASSUME UNCHANGED vars PROVE IInv'
  BY <1>1, NextIInv
<1>2. ASSUME NEW op \in {"Extract", "GetOrExtract"}, NEW p \in Paths, Call(op, p) PROVE IInv'
  BY <1>2, BeginIInv, TreeAssumption DEF Call, Operations
<1>3. CASE \E kind \in Kinds, p \in Dirs : StartTrip(kind, p)
  BY <1>1, <1>3 DEF StartTrip
<1>4. CASE WalkStat
  BY <1>2, <1>4, RequestFailsIInv DEF WalkStat, Here
<1>5. CASE WalkVisit \/ UpdateCollect
  BY <1>5, TookIInv DEF WalkVisit, UpdateCollect
<1>6. CASE WalkList \/ WalkNext \/ UpdateList
  BY <1>1, <1>6, RequestFailsIInv DEF WalkList, WalkNext, UpdateList
<1>7. CASE UpdateNext
  <2>1. trip.frames # <<>>
    BY <1>7 DEF TInv, Placed, UpdateNext, Travels
  <2>2. Top.left \subseteq Paths
    BY <2>1, StackIs DEF TInv, Frames
  <2> QED
    BY <1>2, <1>7, <2>2 DEF UpdateNext
<1>8. CASE Working(Traveller)
  BY <1>8, NextIInv, TreeAssumption DEF Next
<1>9. CASE \E p \in Paths : TreeWrite(p) \/ TreeRemove(p)
  BY <1>9, FilesIInv DEF TreeWrite, TreeRemove
<1>10. CASE TreeRestart
  BY <1>10, RestartIInv DEF TreeRestart
<1>11. CASE UNCHANGED allVars
  BY <1>1, <1>11 DEF allVars
<1> QED
  BY <1>3, <1>4, <1>5, <1>6, <1>7, <1>8, <1>9, <1>10, <1>11, BatchPutIInv
  DEF TreeNext, Walking, Updating

-----------------------------------------------------------------------------
\* What every step of a traversal needs.
LEMMA TypesHold ==
    ASSUME TInv
    PROVE  /\ trip \in Trips /\ visits \in [Paths -> Nat] /\ steady \subseteq Paths
           /\ DOMAIN trip = {"kind", "stage", "root", "at", "frames"}
           /\ trip.kind # "none" => trip.root \in Paths /\ Below(trip.root) \subseteq Paths
           /\ trip.stage \in {"stat", "called", "list"} => trip.at \in Below(trip.root) /\ trip.at \in Paths
<1>1. trip.stage \in {"stat", "called", "list"} => trip.kind # "none"
  BY DEF TInv, Placed
<1> QED
  BY <1>1, BelowSelf DEF TInv, Trips, Placed

LEMMA TreeSame == TreeHolds /\ UNCHANGED <<disk, steady>> => TreeHolds'
BY DEF TreeHolds, Here

LEMMA NoLevels == ASSUME trip'.frames = <<>> PROVE Levels' = {} /\ Len(trip'.frames) = 0
<1>1. Len(<<>>) = 0 /\ 1..0 = {}
  OBVIOUS
<1> QED
  BY <1>1 DEF Levels

\* A traversal that ends in an error owes nothing any more.
LEMMA ErrKeeps ==
    ASSUME TInv, trip.kind # "none", trip' = Finish("err"), TreeHolds', Calling',
           visits' \in [Paths -> Nat], steady' \subseteq Paths,
           trip.kind = "Walk" =>
              \A p \in Paths : /\ visits'[p] \in {0, 1}
                               /\ visits'[p] = 1 => p \in Below(trip.root)
                                     /\ (p # trip.root => visits'[Parent[p]] = 1)
    PROVE  TInv'
<1>1. /\ trip'.kind = trip.kind /\ trip'.root = trip.root /\ trip'.stage = "err"
      /\ trip'.frames = <<>> /\ trip' \in Trips
  <2>1. <<>> \in Seq(Frames)
    OBVIOUS
  <2> QED
    BY <2>1, TypesHold DEF Finish, Trips
<1>2. Stacked' /\ Levels' = {}
  BY <1>1, StackedEmpty, NoLevels
<1>3. Placed'
  BY <1>1 DEF TInv, Placed, Trips
<1>4. Visiting'
  BY <1>1, <1>2 DEF Visiting, Pending
<1>5. Storable'
  BY <1>1 DEF Storable
<1> QED
  BY <1>1, <1>2, <1>3, <1>4, <1>5 DEF TInv

LEMMA CallBackKeeps ==
    ASSUME TInv, trip.kind = "Walk", trip.stage \in {"stat", "called"},
           NEW next \in {"next", "list"}, CallBack(next),
           UNCHANGED <<disk, last, steady>>,
           told \subseteq told',
           next = "next" => trip.at \notin Dirs \cap steady \/ trip.at \in told',
           trip'.stage # "called" => Calling'
    PROVE  TInv'
<1> DEFINE a == trip.at
<1>1. /\ a \in Paths /\ a \in Below(trip.root) /\ trip.root \in Paths
      /\ Below(trip.root) \subseteq Paths
  BY TypesHold
<1>2. Visiting /\ Pending(a) /\ visits[a] = 0 /\ (a # trip.root => visits[Parent[a]] = 1)
  BY <1>1 DEF TInv, Visiting, Pending
<1>3. /\ visits' \in [Paths -> Nat] /\ visits'[a] = 1
      /\ \A p \in Paths : p # a => visits'[p] = visits[p]
  BY <1>1, <1>2, TypesHold DEF CallBack
<1>4. \A p \in Paths : visits'[p] \in {0, 1}
  BY <1>2, <1>3 DEF Visiting
<1>5. ASSUME NEW p \in Paths, visits'[p] = 1
      PROVE  p \in Below(trip.root) /\ (p # trip.root => visits'[Parent[p]] = 1)
  <2>1. p \in Below(trip.root) /\ (p # trip.root => visits[Parent[p]] = 1)
    BY <1>1, <1>2, <1>3, <1>5 DEF Visiting
  <2>2. p # trip.root => Parent[p] \in Paths
    BY <1>1, <2>1, BelowFirst
  <2> QED
    BY <1>2, <1>3, <2>1, <2>2
<1>6. TreeHolds' /\ steady' \subseteq Paths
  BY TreeSame, TypesHold DEF TInv
<1>7. CASE trip' = Finish("err")
  <2>1. Calling'
    BY <1>7 DEF Finish, TInv, Trips
  <2> QED
    BY <1>3, <1>4, <1>5, <1>6, <1>7, <2>1, ErrKeeps
<1>8. CASE trip' = [trip EXCEPT !.stage = next]
  <2>1. /\ trip'.kind = "Walk" /\ trip'.root = trip.root /\ trip'.at = a /\ trip'.stage = next
        /\ trip'.frames = trip.frames /\ trip' \in Trips
    BY <1>8, TypesHold DEF Trips
  <2>2. Stacked' /\ Levels' = Levels
    BY <2>1 DEF TInv, Stacked, Levels
  <2>3. Placed'
    BY <2>1 DEF TInv, Placed, Top
  <2>4. Storable'
    BY <2>1 DEF Storable
  <2>5. \A p \in Paths : ~Pending(p)'
    BY <2>1 DEF Pending
  <2>6. next = "list" =>
           /\ \A p \in Paths : Parent[p] = a => visits'[p] = 0
           /\ \A i \in Levels : trip.frames[i].dir # a
    <3>1. ASSUME NEW p \in Paths, Parent[p] = a PROVE visits'[p] = 0
      <4>1. p # trip.root /\ p # a
        BY <1>1, <3>1, NotAbove, BelowSelf
      <4>2. visits[p] # 1
        BY <1>2, <3>1, <4>1 DEF Visiting
      <4> QED
        BY <1>2, <1>3, <4>1, <4>2 DEF Visiting
    <3> QED
      BY <1>2, <2>1, <3>1 DEF Visiting
  <2>7. ASSUME NEW i \in Levels
        PROVE  /\ visits'[trip.frames[i].dir] = 1
               /\ \A p \in trip.frames[i].left : visits'[p] = 0
               /\ \A j \in Levels : i # j => trip.frames[i].dir # trip.frames[j].dir
    <3>1. trip.frames[i] \in Frames
      BY StackIs, TypesHold
    <3> QED
      BY <1>2, <1>3, <3>1 DEF Visiting, Frames, Pending
  <2>8. visits'[trip.root] = 1
    BY <1>1, <1>2, <1>3 DEF Visiting, Pending
  <2>9. ASSUME NEW p \in steady, Parent[p] # NoPath, visits'[Parent[p]] = 1
        PROVE  \/ visits'[p] = 1
               \/ next = "list" /\ a = Parent[p]
               \/ \E i \in Levels : p \in trip.frames[i].left
               \/ Parent[p] \in told'
    <3>1. p \in Paths /\ Parent[p] \in Paths /\ Parent[p] \in Dirs /\ Parent[p] \in steady
      BY <2>9, ParentIs, TypesHold DEF TInv, TreeHolds
    <3>2. CASE Parent[p] = a
      BY <3>1, <3>2
    <3>3. CASE Parent[p] # a
      <4>1. visits[Parent[p]] = 1
        BY <1>3, <2>9, <3>1, <3>3
      <4>2. \/ visits[p] = 1 \/ Pending(p) \/ \E i \in Levels : p \in trip.frames[i].left
            \/ Parent[p] \in told
        BY <1>2, <2>9, <4>1 DEF Visiting
      <4> QED
        BY <1>3, <3>1, <4>2 DEF Pending
    <3> QED
      BY <3>2, <3>3
  <2>10. Visiting'
    <3>1. \A p \in Paths : (Pending(p) => visits[p] = 0 /\ (p # trip.root => visits[Parent[p]] = 1))'
      BY <2>5
    <3>2. (trip.stage = "list" =>
              /\ visits[trip.at] = 1
              /\ \A p \in Paths : Parent[p] = trip.at => visits[p] = 0
              /\ \A i \in Levels : trip.frames[i].dir # trip.at)'
      BY <1>3, <2>1, <2>2, <2>6
    <3>3. (\A i \in Levels :
              /\ visits[trip.frames[i].dir] = 1
              /\ \A p \in trip.frames[i].left : visits[p] = 0 /\ ~Pending(p)
              /\ \A j \in Levels : i # j => trip.frames[i].dir # trip.frames[j].dir)'
      <4>1. \A i \in Levels : trip.frames[i] \in Frames
        BY StackIs, TypesHold
      <4> QED
        BY <2>1, <2>2, <2>5, <2>7, <4>1 DEF Frames
    <3>4. (visits[trip.root] = 1)'
      BY <2>1, <2>8
    <3>5. (\A p \in steady : Parent[p] # NoPath =>
              (visits[Parent[p]] = 1 =>
                  \/ visits[p] = 1 \/ Pending(p)
                  \/ trip.stage = "list" /\ trip.at = Parent[p]
                  \/ \E i \in Levels : p \in trip.frames[i].left
                  \/ Parent[p] \in told))'
      BY <2>1, <2>2, <2>9
    <3>6. (\A p \in Paths : visits[p] = 1 =>
              p \in Below(trip.root) /\ (p # trip.root => visits[Parent[p]] = 1))'
      BY <1>5, <2>1 DEF Below
    <3> QED
      BY <1>4, <3>1, <3>2, <3>3, <3>4, <3>5, <3>6 DEF Visiting
  <2>11. Calling'
    BY <2>1
  <2> QED
    BY <1>3, <1>6, <2>1, <2>2, <2>3, <2>4, <2>10, <2>11 DEF TInv
<1> QED
  BY <1>7, <1>8 DEF CallBack

LEMMA StartKeeps ==
    ASSUME TInv, NEW kind \in Kinds, NEW p \in Dirs, StartTrip(kind, p) PROVE TInv'
<1>1. /\ kind \in {"Walk", "UpdateDirectory"} /\ p \in Paths
      /\ trip'.kind = kind /\ trip'.root = p /\ trip'.at = p /\ trip'.frames = <<>>
      /\ trip'.stage = IF kind = "Walk" THEN "stat" ELSE "list"
      /\ trip' \in Trips
  <2>1. <<>> \in Seq(Frames)
    OBVIOUS
  <2> QED
    BY <2>1, TreeAssumption, ServiceAssumption DEF StartTrip, Trips
<1>2. /\ visits' = [q \in Paths |-> 0] /\ steady' = Here
      /\ UNCHANGED <<disk, last, cache, store, index, call, faults>>
  BY DEF StartTrip, vars
<1>3. TreeHolds' /\ steady' \subseteq Paths
  BY <1>2 DEF TInv, TreeHolds, Here
<1>4. Stacked' /\ Levels' = {}
  BY <1>1, StackedEmpty, NoLevels
<1>5. Placed'
  BY <1>1, BelowSelf DEF Placed, Below
<1>6. Calling'
  <2>1. \A c \in Clients : call[c].stage = "idle"
    BY TreeAssumption DEF TInv, Calling, StartTrip, At
  <2> QED
    BY <1>1, <1>2, <2>1 DEF Calling
<1>7. Visiting'
  <2>1. \A q \in Paths : visits'[q] = 0
    BY <1>2
  <2>2. \A q \in steady' : Parent[q] # NoPath => Parent[q] \in Paths
    BY <1>3, ParentIs
  <2>3. kind = "Walk" => Pending(p)' /\ \A q \in Paths : Pending(q)' => q = p
    BY <1>1 DEF Pending
  <2> QED
    BY <1>1, <1>2, <1>4, <2>1, <2>2, <2>3 DEF Visiting
<1>8. Storable'
  <2>1. ASSUME kind = "UpdateDirectory", NEW q \in Below(p) \ {p} PROVE Ahead(q)'
    BY <1>1, <2>1 DEF Ahead, Below
  <2> QED
    BY <1>1, <2>1 DEF Storable, Below
<1> QED
  BY <1>1, <1>2, <1>3, <1>4, <1>5, <1>6, <1>7, <1>8 DEF TInv

\* When no call is expected, none is in progress.
LEMMA NoCall == ASSUME Calling, trip.stage # "called" PROVE \A c \in Clients : call[c].stage = "idle"
BY DEF Calling

LEMMA CallingNone ==
    ASSUME \A c \in Clients : call'[c].stage = "idle", trip'.stage # "called" PROVE Calling'
BY DEF Calling

\* The traversal calls, or has its answer.
LEMMA CallIs ==
    ASSUME IInv, TInv, NEW op \in {"Extract", "GetOrExtract"}, NEW p \in Paths, Call(op, p),
           trip.stage # "called", trip'.stage = "called", trip'.at = p,
           op = IF trip'.kind = "Walk" THEN "GetOrExtract" ELSE "Extract"
    PROVE  /\ Calling'
           /\ UNCHANGED <<disk, last, cache, store, index, faults>>
<1>1. \A c \in Clients : call[c].stage = "idle"
  BY NoCall DEF TInv
<1>2. /\ Traveller \in Clients
      /\ \A c \in Clients : c # Traveller => call'[c] = [call[c] EXCEPT !.alone = FALSE]
      /\ call'[Traveller].op = op /\ call'[Traveller].at = p
      /\ call'[Traveller].stage = IF op = "Extract" THEN "look" ELSE "get"
      /\ call'[Traveller].failed = FALSE
  BY TreeAssumption DEF Call, Begin, FirstStage
<1>3. \A c \in Clients : c # Traveller => call'[c].stage = call[c].stage
  BY <1>2 DEF IInv, TypeOK, Calls
<1> QED
  BY <1>1, <1>2, <1>3 DEF Calling, Call, Begin, fileVars, dataVars

LEMMA TookIs ==
    ASSUME IInv, TInv, At(Traveller, "done"), Took
    PROVE  /\ \A c \in Clients : call'[c].stage = "idle"
           /\ UNCHANGED <<disk, last, cache, store, index, faults>>
<1>1. /\ call' = [call EXCEPT ![Traveller] = Idle]
      /\ UNCHANGED <<disk, last, cache, store, index, faults>>
  BY DEF Took, fileVars, dataVars
<1>2. \A c \in Clients : c # Traveller => call[c].stage = "idle"
  BY DEF TInv, Calling
<1> QED
  BY <1>1, <1>2, IdleIsFine DEF IInv, TypeOK

LEMMA WalkStatKeeps == ASSUME IInv, TInv, WalkStat PROVE TInv'
<1> DEFINE a == trip.at
<1>1. /\ trip.kind = "Walk" /\ trip.stage = "stat" /\ a \in Paths /\ a \in Below(trip.root)
      /\ steady' = steady
  BY TypesHold DEF WalkStat, Travels
<1>2. CASE /\ RequestFails /\ CallBack("next") /\ told' = told \cup {a}
  <2>1. UNCHANGED <<disk, last, cache, store, index, call>>
    BY <1>2 DEF RequestFails, vars, fileVars, dataVars
  <2>2. trip'.stage # "called" => Calling'
    BY <1>1, <2>1, NoCall, CallingNone DEF TInv
  <2> QED
    BY <1>1, <1>2, <2>1, <2>2, CallBackKeeps
<1>3. CASE /\ a \in Here /\ Call("GetOrExtract", a) /\ trip' = [trip EXCEPT !.stage = "called"]
           /\ UNCHANGED <<visits, told>>
  <2>1. Call("GetOrExtract", a) /\ trip' = [trip EXCEPT !.stage = "called"] /\ visits' = visits
        /\ told' = told
    BY <1>3
  <2>2. /\ trip'.kind = "Walk" /\ trip'.root = trip.root /\ trip'.at = a /\ trip'.stage = "called"
        /\ trip'.frames = trip.frames /\ trip' \in Trips
    BY <1>1, <2>1, TypesHold DEF Trips
  <2>3. Calling' /\ UNCHANGED <<disk, last, cache, store, index, faults>>
    BY <1>1, <2>1, <2>2, CallIs
  <2>4. Stacked' /\ Levels' = Levels
    BY <2>2, <2>3, StackedSame DEF TInv
  <2>5. Placed'
    BY <1>1, <2>2 DEF TInv, Placed, Top, Below
  <2>6. Visiting'
    <3>1. Visiting /\ \A p \in Paths : Pending(p)' = Pending(p)
      BY <1>1, <2>2 DEF TInv, Pending
    <3>2. \A i \in Levels : trip.frames[i] \in Frames
      BY StackIs, TypesHold
    <3>3. steady \subseteq Paths /\ trip.root \in Paths
      BY <1>1, TypesHold
    <3>4. (\A i \in Levels :
              /\ visits[trip.frames[i].dir] = 1
              /\ \A p \in trip.frames[i].left : visits[p] = 0 /\ ~Pending(p)
              /\ \A j \in Levels : i # j => trip.frames[i].dir # trip.frames[j].dir)'
      BY <1>1, <2>1, <2>2, <2>4, <3>1, <3>2 DEF Visiting, Frames
    <3>5. (\A p \in steady : Parent[p] # NoPath =>
              (visits[Parent[p]] = 1 =>
                  \/ visits[p] = 1 \/ Pending(p)
                  \/ trip.stage = "list" /\ trip.at = Parent[p]
                  \/ \E i \in Levels : p \in trip.frames[i].left
                  \/ Parent[p] \in told))'
      BY <1>1, <2>1, <2>2, <2>4, <3>1, <3>3 DEF Visiting
    <3>6. (\A p \in Paths : visits[p] = 1 =>
              p \in Below(trip.root) /\ (p # trip.root => visits[Parent[p]] = 1))'
      BY <1>1, <2>1, <2>2, <3>1 DEF Visiting, Below
    <3> QED
      BY <1>1, <2>1, <2>2, <3>1, <3>3, <3>4, <3>5, <3>6 DEF Visiting
  <2>7. Storable'
    BY <2>2 DEF Storable
  <2> QED
    BY <1>1, <2>1, <2>2, <2>3, <2>4, <2>5, <2>6, <2>7, TreeSame, TypesHold DEF TInv
<1> QED
  BY <1>2, <1>3 DEF WalkStat

LEMMA WalkVisitKeeps == ASSUME IInv, TInv, WalkVisit PROVE TInv'
<1> DEFINE next == IF trip.at \in Dirs THEN "list" ELSE "next"
<1>1. /\ trip.kind = "Walk" /\ trip.stage = "called" /\ At(Traveller, "done")
      /\ CallBack(next) /\ Took /\ steady' = steady /\ told' = told
  BY DEF WalkVisit, Travels
<1>2. Calling' \/ trip'.stage = "called"
  BY <1>1, TookIs, CallingNone
<1>3. trip.at \in Dirs => next # "next"
  OBVIOUS
<1> QED
  BY <1>1, <1>2, <1>3, TookIs, CallBackKeeps

LEMMA WalkListKeeps == ASSUME TInv, WalkList PROVE TInv'
<1> DEFINE a == trip.at
           n == Len(trip.frames)
<1>1. /\ trip.kind = "Walk" /\ trip.stage = "list" /\ a \in Paths /\ a \in Below(trip.root)
      /\ UNCHANGED <<disk, last, cache, store, index, call, visits, steady, told>>
      /\ trip.root \in Paths
  BY TypesHold DEF WalkList, Travels, RequestFails, vars, fileVars, dataVars
<1>2. Calling' \/ trip'.stage = "called"
  BY <1>1, NoCall, CallingNone DEF TInv
<1>3. CASE trip' = Finish("err")
  BY <1>1, <1>2, <1>3, ErrKeeps, TreeSame DEF TInv, Visiting, Finish, Trips
<1>4. CASE a \in Here /\ trip' = Entered
  <2>1. trip' = [trip EXCEPT !.frames = Append(@, Enter(a)), !.stage = "next"]
    BY <1>4 DEF Entered
  <2>2. Enter(a) \in Frames /\ \A p \in Enter(a).left : p \in Paths /\ Parent[p] = a
    BY <1>1 DEF Enter, Entries, Here, Frames
  <2>3. /\ trip'.kind = "Walk" /\ trip'.root = trip.root /\ trip'.stage = "next"
        /\ trip'.frames = Append(trip.frames, Enter(a)) /\ trip' \in Trips
    BY <1>1, <2>1, <2>2, TypesHold, PushIs DEF Trips
  <2>4. /\ n \in Nat /\ trip'.frames # <<>> /\ Levels' = Levels \cup {n + 1} /\ n + 1 \notin Levels
        /\ \A i \in Levels : trip'.frames[i] = trip.frames[i] /\ trip.frames[i] \in Frames
        /\ trip'.frames[n + 1] = Enter(a)
    BY <2>2, <2>3, PushIs, StackIs, TypesHold DEF Levels
  <2>5. Stacked'
    <3>1. IF trip.frames = <<>> THEN a = trip.root ELSE Parent[a] = Top.dir
      BY <1>1 DEF TInv, Placed
    <3>2. Enter(a).dir = a /\ Enter(a).batch = {}
      BY DEF Enter
    <3> QED
      BY <1>1, <2>2, <2>3, <3>1, <3>2, StackedPush, TypesHold DEF TInv
  <2>6. Placed'
    BY <1>1, <2>3, <2>4 DEF TInv, Placed
  <2>7. Visiting'
    <3>1. Visiting /\ \A p \in Paths : ~Pending(p) /\ ~Pending(p)'
      BY <1>1, <2>3 DEF TInv, Pending
    <3>2. /\ Enter(a).dir = a /\ Enter(a).left = Entries(a)
          /\ visits[a] = 1 /\ \A p \in Entries(a) : visits[p] = 0
          /\ \A i \in Levels : trip.frames[i].dir # a
      BY <1>1, <3>1 DEF Enter, Visiting, Entries, Here
    <3>3. (\A i \in Levels :
              /\ visits[trip.frames[i].dir] = 1
              /\ \A p \in trip.frames[i].left : visits[p] = 0 /\ ~Pending(p)
              /\ \A j \in Levels : i # j => trip.frames[i].dir # trip.frames[j].dir)'
      <4>1. ASSUME NEW i \in Levels'
            PROVE  /\ visits'[trip'.frames[i].dir] = 1
                   /\ \A p \in trip'.frames[i].left : visits'[p] = 0 /\ p \in Paths
                   /\ \A j \in Levels' : i # j => trip'.frames[i].dir # trip'.frames[j].dir
        <5>1. CASE i \in Levels
          BY <1>1, <2>4, <3>1, <3>2, <5>1 DEF Visiting, Frames
        <5>2. CASE i = n + 1
          BY <1>1, <2>2, <2>4, <3>1, <3>2, <5>2 DEF Visiting
        <5> QED
          BY <2>4, <5>1, <5>2
      <4> QED
        BY <3>1, <4>1
    <3>4. (\A p \in steady : Parent[p] # NoPath =>
              (visits[Parent[p]] = 1 =>
                  \/ visits[p] = 1 \/ Pending(p)
                  \/ trip.stage = "list" /\ trip.at = Parent[p]
                  \/ \E i \in Levels : p \in trip.frames[i].left
                  \/ Parent[p] \in told))'
      <4>1. ASSUME NEW p \in steady, Parent[p] # NoPath, visits[Parent[p]] = 1
            PROVE  visits[p] = 1 \/ (\E i \in Levels' : p \in trip'.frames[i].left) \/ Parent[p] \in told
        <5>1. p \in Paths /\ p \in Here
          BY TypesHold DEF TInv, TreeHolds
        <5>2. CASE Parent[p] = a
          BY <2>4, <3>2, <5>1, <5>2 DEF Entries
        <5>3. CASE Parent[p] # a
          BY <1>1, <2>4, <3>1, <4>1, <5>1, <5>3 DEF Visiting
        <5> QED
          BY <5>2, <5>3
      <4> QED
        BY <1>1, <4>1
    <3>5. (\A p \in Paths : visits[p] = 1 =>
              p \in Below(trip.root) /\ (p # trip.root => visits[Parent[p]] = 1))'
      BY <1>1, <2>3, <3>1 DEF Visiting, Below
    <3>6. visits[trip.root] = 1 /\ \A p \in Paths : visits[p] \in {0, 1}
      BY <1>1, <3>1 DEF Visiting
    <3> QED
      BY <1>1, <2>3, <3>1, <3>3, <3>4, <3>5, <3>6 DEF Visiting
  <2>8. Storable' /\ (trip'.stage = "called" => Calling')
    BY <2>3 DEF Storable
  <2> QED
    BY <1>1, <1>2, <2>3, <2>5, <2>6, <2>7, <2>8, TreeSame, TypesHold DEF TInv
<1> QED
  BY <1>3, <1>4 DEF WalkList

LEMMA WalkNextKeeps == ASSUME TInv, WalkNext PROVE TInv'
<1> DEFINE n == Len(trip.frames)
<1>1. /\ trip.kind = "Walk" /\ trip.stage = "next" /\ trip.root \in Paths
      /\ UNCHANGED <<disk, last, cache, store, index, call, faults, visits, steady, told>>
      /\ \A c \in Clients : call'[c].stage = "idle"
      /\ TreeHolds' /\ steady' \subseteq Paths /\ visits' \in [Paths -> Nat]
  BY TypesHold, NoCall, TreeSame DEF WalkNext, Travels, vars, TInv
<1>2. Visiting /\ (\A p \in Paths : ~Pending(p)) /\ ~Pending(trip.root)
  BY <1>1 DEF TInv, Pending
<1>3. /\ n \in Nat /\ \A i \in Levels : trip.frames[i] \in Frames
      /\ visits[trip.root] = 1 /\ \A p \in Paths : visits[p] \in {0, 1}
      /\ \A p \in Paths : visits[p] = 1 =>
             p \in Below(trip.root) /\ (p # trip.root => visits[Parent[p]] = 1)
  BY <1>1, <1>2, StackIs, TypesHold DEF Visiting
<1>8. ASSUME NEW i \in Levels
      PROVE  /\ visits[trip.frames[i].dir] = 1
             /\ \A p \in trip.frames[i].left : p \in Paths /\ visits[p] = 0
             /\ \A j \in Levels : i # j => trip.frames[i].dir # trip.frames[j].dir
             /\ \A p \in trip.frames[i].left : Parent[p] = trip.frames[i].dir
  BY <1>1, <1>2, <1>3 DEF TInv, Visiting, Stacked, Frames
\* What a step that leaves the visits alone needs, in this stage.
<1>4. ASSUME trip' \in Trips, trip'.kind = "Walk", trip'.root = trip.root,
             trip'.stage \in {"stat", "next", "ok"}, Stacked', Placed',
             \A i \in Levels' :
                 /\ i \in Levels /\ trip'.frames[i].dir = trip.frames[i].dir
                 /\ trip'.frames[i].left \subseteq trip.frames[i].left
                 /\ \A p \in trip'.frames[i].left : ~(trip'.stage = "stat" /\ trip'.at = p),
             \A i \in Levels : \A p \in trip.frames[i].left :
                 \/ trip'.stage = "stat" /\ trip'.at = p
                 \/ i \in Levels' /\ p \in trip'.frames[i].left,
             trip'.stage = "stat" =>
                 visits[trip'.at] = 0 /\ (trip'.at # trip.root => visits[Parent[trip'.at]] = 1)
      PROVE  TInv'
  <2>1. \A p \in Paths : Pending(p)' <=> trip'.stage = "stat" /\ trip'.at = p
    BY <1>4 DEF Pending
  <2>2. (\A i \in Levels :
            /\ visits[trip.frames[i].dir] = 1
            /\ \A p \in trip.frames[i].left : visits[p] = 0 /\ ~Pending(p)
            /\ \A j \in Levels : i # j => trip.frames[i].dir # trip.frames[j].dir)'
    <3>1. ASSUME NEW i \in Levels'
          PROVE  /\ visits[trip'.frames[i].dir] = 1
                 /\ \A p \in trip'.frames[i].left :
                        p \in Paths /\ visits[p] = 0 /\ ~(trip'.stage = "stat" /\ trip'.at = p)
                 /\ \A j \in Levels' : i # j => trip'.frames[i].dir # trip'.frames[j].dir
      BY <1>4, <1>8
    <3> QED
      BY <1>1, <2>1, <3>1
  <2>3. (\A p \in steady : Parent[p] # NoPath =>
            (visits[Parent[p]] = 1 =>
                \/ visits[p] = 1 \/ Pending(p)
                \/ trip.stage = "list" /\ trip.at = Parent[p]
                \/ \E i \in Levels : p \in trip.frames[i].left
                \/ Parent[p] \in told))'
    <3>1. ASSUME NEW p \in steady, Parent[p] # NoPath, visits[Parent[p]] = 1
          PROVE  \/ visits[p] = 1 \/ Pending(p)' \/ Parent[p] \in told
                 \/ \E i \in Levels' : p \in trip'.frames[i].left
      <4>1. p \in Paths
        BY TypesHold
      <4>2. visits[p] = 1 \/ Parent[p] \in told \/ \E i \in Levels : p \in trip.frames[i].left
        BY <1>1, <1>2, <3>1, <4>1 DEF Visiting
      <4> QED
        BY <1>4, <2>1, <4>1, <4>2
    <3> QED
      BY <1>1, <3>1
  <2>4. (\A p \in Paths : visits[p] = 1 =>
            p \in Below(trip.root) /\ (p # trip.root => visits[Parent[p]] = 1))'
    BY <1>1, <1>3, <1>4 DEF Below
  <2>5. Visiting'
    BY <1>1, <1>3, <1>4, <2>1, <2>2, <2>3, <2>4 DEF Visiting
  <2> QED
    BY <1>1, <1>4, <2>5, CallingNone DEF TInv, Storable
<1>5. CASE trip.frames = <<>>
  <2>1. trip' = Finish("ok")
    BY <1>5 DEF WalkNext
  <2>2. /\ trip'.kind = "Walk" /\ trip'.root = trip.root /\ trip'.stage = "ok"
        /\ trip'.frames = <<>> /\ trip' \in Trips
    BY <1>1, <1>5, <2>1, TypesHold DEF Finish, Trips
  <2>3. Levels = {} /\ Levels' = {} /\ Stacked'
    BY <1>5, <2>2, StackedEmpty, NoLevels DEF Levels
  <2>4. Placed'
    BY <1>1, <2>2 DEF Placed
  <2> QED
    BY <1>4, <2>2, <2>3, <2>4
<1>6. CASE trip.frames # <<>> /\ Top.left = {}
  <2>1. trip' = [trip EXCEPT !.frames = Rest]
    BY <1>6 DEF WalkNext
  <2>2. /\ trip'.kind = "Walk" /\ trip'.root = trip.root /\ trip'.stage = "next"
        /\ trip'.frames = Rest /\ trip' \in Trips
    BY <1>1, <1>6, <2>1, StackIs, TypesHold DEF Trips
  <2>3. Stacked'
    BY <1>1, <1>6, <2>2, StackedPop, TypesHold DEF TInv
  <2>4. Placed'
    BY <1>1, <2>2 DEF TInv, Placed
  <2>5. /\ Levels' = Levels \ {n} /\ trip.frames[n].left = {}
        /\ \A i \in Levels' : trip'.frames[i] = trip.frames[i]
    BY <1>3, <1>6, <2>2, StackIs, TypesHold DEF Levels
  <2> QED
    BY <1>4, <2>2, <2>3, <2>4, <2>5
<1>7. CASE trip.frames # <<>> /\ Top.left # {}
  <2>1. PICK p \in Top.left :
            trip' = [trip EXCEPT !.frames = Append(Rest, [Top EXCEPT !.left = @ \ {p}]),
                                 !.at = p, !.stage = "stat"]
    BY <1>7 DEF WalkNext
  <2> DEFINE f == [Top EXCEPT !.left = @ \ {p}]
  <2>2. /\ n \in Levels /\ Top \in Frames /\ Top = trip.frames[n]
        /\ f \in Frames /\ f.dir = Top.dir /\ f.left = Top.left \ {p} /\ f.batch = Top.batch
        /\ p \in Paths
    BY <1>7, StackIs, TypesHold DEF Frames
  <2>3. /\ trip'.kind = "Walk" /\ trip'.root = trip.root /\ trip'.stage = "stat" /\ trip'.at = p
        /\ trip'.frames = Append(Rest, f) /\ trip' \in Trips
    BY <1>1, <1>7, <2>1, <2>2, TopIs, TypesHold DEF Trips
  <2>4. /\ Len(trip'.frames) = n /\ trip'.frames # <<>> /\ Levels' = Levels
        /\ \A i \in Levels : trip'.frames[i] = IF i = n THEN f ELSE trip.frames[i]
    BY <1>7, <2>2, <2>3, TopIs, TypesHold DEF Levels
  <2>5. Stacked'
    BY <1>1, <1>7, <2>2, <2>3, StackedTop, TypesHold DEF TInv
  <2>6. Parent[p] = Top.dir /\ Top.dir \in Below(trip.root) /\ p \in Below(trip.root)
    BY <2>2, BelowChild DEF TInv, Stacked
  <2>7. Placed'
    <3>1. Top' = f
      BY <2>2, <2>4 DEF Top
    <3> QED
      BY <1>1, <2>2, <2>3, <2>4, <2>6, <3>1 DEF Placed, Below
  <2>8. \A i \in Levels : i # n => p \notin trip.frames[i].left
    BY <1>8, <2>2, <2>6
  <2>9. visits[p] = 0 /\ visits[Top.dir] = 1
    BY <1>8, <2>2
  <2>10. \A i \in Levels' :
            /\ i \in Levels /\ trip'.frames[i].dir = trip.frames[i].dir
            /\ trip'.frames[i].left \subseteq trip.frames[i].left
            /\ \A q \in trip'.frames[i].left : ~(trip'.stage = "stat" /\ trip'.at = q)
    BY <2>2, <2>3, <2>4, <2>8
  <2>11. \A i \in Levels : \A q \in trip.frames[i].left :
            \/ trip'.stage = "stat" /\ trip'.at = q
            \/ i \in Levels' /\ q \in trip'.frames[i].left
    BY <2>2, <2>3, <2>4
  <2> QED
    BY <1>4, <2>3, <2>5, <2>6, <2>7, <2>9, <2>10, <2>11
<1> QED
  BY <1>5, <1>6, <1>7

\* In UpdateDirectory there is nothing to say of the visits.
LEMMA UpdateListKeeps == ASSUME TInv, UpdateList PROVE TInv'
<1> DEFINE a == trip.at
           n == Len(trip.frames)
<1>1. /\ trip.kind = "UpdateDirectory" /\ trip.stage = "list" /\ trip.root \in Paths
      /\ a \in Paths /\ a \in Below(trip.root)
      /\ UNCHANGED <<disk, last, cache, store, index, call, visits, steady>> /\ told \subseteq told'
      /\ \A c \in Clients : call'[c].stage = "idle"
      /\ TreeHolds /\ TreeHolds' /\ steady' \subseteq Paths /\ visits' \in [Paths -> Nat]
  BY TypesHold, NoCall, TreeSame
  DEF UpdateList, UpdateFails, Travels, RequestFails, vars, fileVars, dataVars, TInv
<1>2. \A p : Reported(p) => Reported(p)'
  BY <1>1, ReportedStays
<1>3. CASE UpdateFails(a, trip.frames) /\ trip.frames = <<>>
  <2>1. trip' = Finish("err")
    BY <1>3 DEF UpdateFails
  <2> QED
    BY <1>1, <2>1, ErrKeeps, CallingNone DEF Finish, TInv, Trips
<1>4. CASE UpdateFails(a, trip.frames) /\ trip.frames # <<>>
  <2>1. trip' = [trip EXCEPT !.frames = trip.frames, !.stage = "next"] /\ told' = told \cup {a}
    BY <1>4 DEF UpdateFails
  <2>2. /\ trip'.kind = "UpdateDirectory" /\ trip'.root = trip.root /\ trip'.stage = "next"
        /\ trip'.frames = trip.frames /\ trip' \in Trips
    BY <1>1, <2>1, TypesHold DEF Trips
  <2>3. Stacked' /\ Levels' = Levels
    BY <1>1, <2>2, StackedSame DEF TInv
  <2>4. Placed'
    BY <1>1, <1>4, <2>2 DEF Placed
  <2>5. Storable'
    <3>1. ASSUME NEW p \in (Below(trip.root) \ {trip.root}) \cap steady, Ahead(p)
          PROVE  Ahead(p)' \/ Reported(p)'
      <4>1. CASE p \in Below(a)
        BY <2>1, <4>1 DEF Reported, Below
      <4>2. CASE p \notin Below(a)
        BY <1>1, <2>2, <2>3, <3>1, <4>2 DEF Ahead
      <4> QED
        BY <4>1, <4>2
    <3> QED
      BY <1>1, <1>2, <2>2, <3>1 DEF TInv, Storable
  <2> QED
    BY <1>1, <2>2, <2>3, <2>4, <2>5, CallingNone DEF TInv, Visiting
<1>5. CASE a \in Here /\ trip' = Entered
  <2>1. trip' = [trip EXCEPT !.frames = Append(@, Enter(a)), !.stage = "next"]
    BY <1>5 DEF Entered
  <2>2. /\ Enter(a) \in Frames /\ Enter(a).left = Entries(a) /\ Enter(a).dir = a /\ Enter(a).batch = {}
        /\ \A p \in Entries(a) : Parent[p] = a
    BY <1>1 DEF Enter, Entries, Here, Frames
  <2>3. /\ trip'.kind = "UpdateDirectory" /\ trip'.root = trip.root /\ trip'.stage = "next"
        /\ trip'.frames = Append(trip.frames, Enter(a)) /\ trip' \in Trips
    BY <1>1, <2>1, <2>2, TypesHold, PushIs DEF Trips
  <2>4. /\ n \in Nat /\ trip'.frames # <<>> /\ Levels' = Levels \cup {n + 1} /\ n + 1 \notin Levels
        /\ \A i \in Levels : trip'.frames[i] = trip.frames[i]
        /\ trip'.frames[n + 1] = Enter(a)
    BY <2>2, <2>3, PushIs, StackIs, TypesHold DEF Levels
  <2>5. Stacked'
    <3>1. IF trip.frames = <<>> THEN a = trip.root ELSE Parent[a] = Top.dir
      BY <1>1 DEF TInv, Placed
    <3> QED
      BY <1>1, <2>2, <2>3, <3>1, StackedPush, TypesHold DEF TInv
  <2>6. Placed'
    BY <1>1, <2>3, <2>4 DEF Placed
  <2>7. Storable'
    <3>1. ASSUME NEW p \in (Below(trip.root) \ {trip.root}) \cap steady, Ahead(p) PROVE Ahead(p)'
      <4>1. CASE \E i \in Levels : \/ \E q \in trip.frames[i].left : p \in Below(q)
                                   \/ \E b \in trip.frames[i].batch : b.path = p
        BY <2>4, <4>1 DEF Ahead
      <4>2. CASE p # a /\ p \in Below(a)
        <5>1. PICK k \in Paths : Parent[k] = a /\ p \in Below(k)
          BY <1>1, <4>2, BelowFirst
        <5>2. k \in Here
          BY <1>1, <3>1, <5>1, SteadyAbove DEF TreeHolds
        <5> QED
          BY <2>2, <2>4, <5>1, <5>2 DEF Ahead, Entries
      <4> QED
        BY <1>1, <3>1, <4>1, <4>2 DEF Ahead
    <3> QED
      BY <1>1, <1>2, <2>3, <3>1 DEF TInv, Storable
  <2> QED
    BY <1>1, <2>3, <2>5, <2>6, <2>7, CallingNone DEF TInv, Visiting
<1> QED
  BY <1>3, <1>4, <1>5 DEF UpdateList

LEMMA UpdateNextKeeps == ASSUME IInv, TInv, UpdateNext PROVE TInv'
<1> DEFINE n == Len(trip.frames)
<1>1. /\ trip.kind = "UpdateDirectory" /\ trip.stage = "next" /\ trip.root \in Paths
      /\ UNCHANGED <<visits, steady, told>>
      /\ trip.frames # <<>>
  BY TypesHold DEF UpdateNext, Travels, TInv, Placed
<1>2. PICK p \in Top.left :
          /\ Call("Extract", p)
          /\ trip' = [trip EXCEPT !.frames = Append(Rest, [Top EXCEPT !.left = @ \ {p}]),
                                  !.at = p, !.stage = "called"]
  BY DEF UpdateNext
<1> DEFINE f == [Top EXCEPT !.left = @ \ {p}]
<1>3. /\ n \in Levels /\ Top \in Frames /\ Top = trip.frames[n]
      /\ f \in Frames /\ f.dir = Top.dir /\ f.left = Top.left \ {p} /\ f.batch = Top.batch
      /\ p \in Paths
  BY <1>1, StackIs, TypesHold DEF Frames
<1>4. /\ trip'.kind = "UpdateDirectory" /\ trip'.root = trip.root /\ trip'.stage = "called"
      /\ trip'.at = p /\ trip'.frames = Append(Rest, f) /\ trip' \in Trips
  BY <1>1, <1>2, <1>3, TopIs, TypesHold DEF Trips
<1>5. Calling' /\ UNCHANGED <<disk, last, cache, store, index, faults>>
  BY <1>1, <1>2, <1>3, <1>4, CallIs
<1>6. /\ Len(trip'.frames) = n /\ trip'.frames # <<>> /\ Levels' = Levels
      /\ \A i \in Levels : trip'.frames[i] = IF i = n THEN f ELSE trip.frames[i]
  BY <1>1, <1>3, <1>4, TopIs, TypesHold DEF Levels
<1>7. Stacked'
  BY <1>1, <1>3, <1>4, <1>5, StackedTop, TypesHold DEF TInv
<1>8. Parent[p] = Top.dir /\ Top.dir \in Below(trip.root) /\ p \in Below(trip.root)
  BY <1>3, BelowChild DEF TInv, Stacked
<1>9. Placed'
  <2>1. Top' = f
    BY <1>3, <1>6 DEF Top
  <2> QED
    BY <1>1, <1>3, <1>4, <1>6, <1>8, <2>1 DEF Placed, Below
<1>10. Storable'
  <2>1. ASSUME NEW q \in (Below(trip.root) \ {trip.root}) \cap steady, Ahead(q) PROVE Ahead(q)'
    <3>1. PICK i \in Levels : \/ \E k \in trip.frames[i].left : q \in Below(k)
                              \/ \E b \in trip.frames[i].batch : b.path = q
      BY <1>1, <2>1 DEF Ahead
    <3>2. CASE q \in Below(p)
      BY <1>4, <3>2 DEF Ahead, Below
    <3>3. CASE q \notin Below(p)
      <4>1. \/ \E k \in trip'.frames[i].left : q \in Below(k)
            \/ \E b \in trip'.frames[i].batch : b.path = q
        BY <1>3, <1>6, <3>1, <3>3
      <4> QED
        BY <1>6, <4>1 DEF Ahead
    <3> QED
      BY <3>2, <3>3
  <2> QED
    BY <1>1, <1>4, <1>5, <2>1, ReportedStays DEF TInv, Storable
<1> QED
  BY <1>1, <1>4, <1>5, <1>7, <1>9, <1>10, TreeSame, TypesHold DEF TInv, Visiting

LEMMA UpdateCollectKeeps == ASSUME IInv, TInv, UpdateCollect PROVE TInv'
<1> DEFINE a == trip.at
           n == Len(trip.frames)
           e == call[Traveller]
<1>1. /\ trip.kind = "UpdateDirectory" /\ trip.stage = "called" /\ At(Traveller, "done")
      /\ trip.root \in Paths /\ a \in Paths /\ a \in Below(trip.root)
      /\ trip.frames # <<>> /\ Took /\ UNCHANGED <<visits, steady>> /\ told \subseteq told'
      /\ Parent[a] = Top.dir
  BY TypesHold DEF UpdateCollect, Travels, TInv, Placed
<1>2. /\ UNCHANGED <<disk, last, cache, store, index, faults>>
      /\ \A c \in Clients : call'[c].stage = "idle"
      /\ TreeHolds' /\ steady' \subseteq Paths /\ visits' \in [Paths -> Nat]
  BY <1>1, TookIs, TreeSame, TypesHold DEF TInv
<1>6. \A p : Reported(p) => Reported(p)'
  BY <1>1, ReportedStays
<1>3. /\ e.at = a /\ e.stage = "done"
      /\ ~e.failed => e.meta # NoMeta
      /\ e.meta \in Metas /\ Sound(e.meta, last[a])
  BY <1>1, TreeAssumption DEF TInv, Calling, At, IInv, TypeOK, Calls, CallFine
<1>4. CASE e.failed
  <2>1. trip' = [trip EXCEPT !.stage = "next"] /\ told' = told \cup {a}
    BY <1>4 DEF UpdateCollect
  <2>2. /\ trip'.kind = "UpdateDirectory" /\ trip'.root = trip.root /\ trip'.stage = "next"
        /\ trip'.frames = trip.frames /\ trip' \in Trips
    BY <1>1, <2>1, TypesHold DEF Trips
  <2>3. Stacked' /\ Levels' = Levels
    BY <1>2, <2>2, StackedSame DEF TInv
  <2>4. Placed'
    BY <1>1, <2>2 DEF Placed
  <2>5. Storable'
    <3>1. ASSUME NEW p \in (Below(trip.root) \ {trip.root}) \cap steady, Ahead(p)
          PROVE  Ahead(p)' \/ Reported(p)'
      <4>1. CASE p \in Below(a)
        BY <2>1, <4>1 DEF Reported, Below
      <4>2. CASE p \notin Below(a)
        BY <1>1, <2>2, <2>3, <3>1, <4>2 DEF Ahead
      <4> QED
        BY <4>1, <4>2
    <3> QED
      BY <1>1, <1>2, <1>6, <2>2, <3>1 DEF TInv, Storable
  <2> QED
    BY <1>1, <1>2, <2>2, <2>3, <2>4, <2>5, CallingNone DEF TInv, Visiting
<1>5. CASE ~e.failed
  <2> DEFINE new == [path |-> a, meta |-> e.meta]
             f == [Top EXCEPT !.batch = @ \cup {new}]
             next == IF a \in Dirs THEN "list" ELSE "next"
  <2>1. trip' = [trip EXCEPT !.frames = Append(Rest, f), !.stage = next]
    BY <1>5 DEF UpdateCollect
  <2>2. /\ n \in Levels /\ Top \in Frames /\ Top = trip.frames[n]
        /\ f \in Frames /\ f.dir = Top.dir /\ f.left = Top.left /\ f.batch = Top.batch \cup {new}
    <3>1. n \in Levels /\ Top \in Frames /\ Top = trip.frames[n]
      BY <1>1, StackIs, TypesHold
    <3>2. new \in [path : Paths, meta : Metas]
      BY <1>1, <1>3
    <3> QED
      BY <3>1, <3>2 DEF Frames
  <2>3. /\ trip'.kind = "UpdateDirectory" /\ trip'.root = trip.root /\ trip'.stage = next
        /\ trip'.at = a /\ trip'.frames = Append(Rest, f) /\ trip' \in Trips
    BY <1>1, <2>1, <2>2, TopIs, TypesHold DEF Trips
  <2>4. /\ Len(trip'.frames) = n /\ trip'.frames # <<>> /\ Levels' = Levels
        /\ \A i \in Levels : trip'.frames[i] = IF i = n THEN f ELSE trip.frames[i]
    BY <1>1, <2>2, <2>3, TopIs, TypesHold DEF Levels
  <2>5. Stacked'
    <3>1. \A b \in f.batch : \/ b \in Top.batch
                             \/ /\ Parent[b.path] = f.dir /\ b.meta # NoMeta
                                /\ Sound(b.meta, last[b.path])
      BY <1>1, <1>3, <1>5, <2>2
    <3> QED
      BY <1>1, <1>2, <2>2, <2>3, <3>1, StackedTop, TypesHold DEF TInv
  <2>6. Placed'
    <3>1. Top' = f
      BY <2>2, <2>4 DEF Top
    <3> QED
      BY <1>1, <2>2, <2>3, <2>4, <3>1 DEF Placed, Below
  <2>7. Storable'
    <3>1. ASSUME NEW p \in (Below(trip.root) \ {trip.root}) \cap steady, Ahead(p) PROVE Ahead(p)'
      <4>1. CASE \E i \in Levels : \/ \E q \in trip.frames[i].left : p \in Below(q)
                                   \/ \E b \in trip.frames[i].batch : b.path = p
        <5>1. PICK i \in Levels : \/ \E q \in trip.frames[i].left : p \in Below(q)
                                  \/ \E b \in trip.frames[i].batch : b.path = p
          BY <4>1
        <5>2. \/ \E q \in trip'.frames[i].left : p \in Below(q)
              \/ \E b \in trip'.frames[i].batch : b.path = p
          BY <2>2, <2>4, <5>1
        <5> QED
          BY <2>4, <5>2 DEF Ahead
      <4>2. CASE p \in Below(a) /\ p # a
        <5>1. a \in Dirs
          BY <1>1, <4>2, FileIsAlone
        <5> QED
          BY <2>3, <4>2, <5>1 DEF Ahead, Below
      <4>3. CASE p = a
        <5>1. new \in trip'.frames[n].batch /\ new.path = p
          BY <2>2, <2>4, <4>3
        <5> QED
          BY <2>2, <2>4, <5>1 DEF Ahead
      <4> QED
        BY <1>1, <3>1, <4>1, <4>2, <4>3 DEF Ahead
    <3> QED
      BY <1>1, <1>2, <1>6, <2>3, <3>1 DEF TInv, Storable
  <2> QED
    BY <1>1, <1>2, <2>3, <2>5, <2>6, <2>7, CallingNone DEF TInv, Visiting
<1> QED
  BY <1>4, <1>5

LEMMA BatchPutKeeps == ASSUME IInv, TInv, BatchPut PROVE TInv'
<1> DEFINE n == Len(trip.frames)
<1>1. /\ trip.kind = "UpdateDirectory" /\ trip.stage = "next" /\ trip.root \in Paths
      /\ trip.frames # <<>> /\ Top.left = {}
      /\ UNCHANGED <<disk, last, cache, index, call, visits, steady>> /\ told \subseteq told'
      /\ TreeHolds' /\ steady' \subseteq Paths /\ visits' \in [Paths -> Nat]
      /\ \A c \in Clients : call'[c].stage = "idle"
  BY NoCall, TreeSame, TypesHold DEF BatchPut, UpdateFails, Travels, TInv, Placed, fileVars
<1>2. \/ store' = Batched(Top.batch) /\ Leave
      \/ store' = store /\ UpdateFails(Top.dir, Rest)
  BY DEF BatchPut
<1>6. \A p : Reported(p) => Reported(p)'
  BY <1>1, ReportedStays
<1>3. /\ n \in Nat /\ n \in Levels /\ Top = trip.frames[n] /\ Top \in Frames
      /\ Rest \in Seq(Frames) /\ Len(Rest) = n - 1
      /\ \A i \in 1..n - 1 : Rest[i] = trip.frames[i] /\ i \in Levels
  BY <1>1, StackIs, TypesHold DEF Levels
<1>4. CASE Rest # <<>>
  <2>1. /\ trip' = [trip EXCEPT !.frames = Rest] \/ trip' = [trip EXCEPT !.frames = Rest, !.stage = "next"]
    BY <1>2, <1>4 DEF Leave, UpdateFails
  <2>2. /\ trip'.kind = "UpdateDirectory" /\ trip'.root = trip.root /\ trip'.stage = "next"
        /\ trip'.frames = Rest /\ trip' \in Trips
    BY <1>1, <1>3, <2>1, TypesHold DEF Trips
  <2>3. Stacked' /\ Levels' = Levels \ {n}
    BY <1>1, <1>3, <2>2, StackedPop, TypesHold DEF TInv, Levels
  <2>4. Placed'
    BY <1>1, <1>4, <2>2 DEF Placed
  <2>6. Storable'
    <3>1. ASSUME NEW p \in (Below(trip.root) \ {trip.root}) \cap steady,
                 store'[p] = NoMeta, ~Reported(p)'
          PROVE  Ahead(p)'
      <4>1. p \in Paths
        BY TypesHold
      <4>2. store[p] = NoMeta /\ Ahead(p)
        BY <1>1, <1>2, <1>6, <3>1, <4>1, BatchedIs DEF TInv, Storable
      <4>3. PICK i \in Levels : \/ \E q \in trip.frames[i].left : p \in Below(q)
                                \/ \E b \in trip.frames[i].batch : b.path = p
        BY <1>1, <4>2 DEF Ahead
      <4>4. i # n
        <5>1. SUFFICES ASSUME i = n PROVE FALSE
          OBVIOUS
        <5>2. PICK b \in Top.batch : b.path = p
          BY <1>1, <1>3, <4>3, <5>1
        <5>3. Parent[p] = Top.dir /\ Top.dir \in Paths
          BY <1>3, <5>2 DEF TInv, Stacked, Frames
        <5>4. store' = store /\ told' = told \cup {Top.dir}
          BY <1>1, <1>2, <3>1, <4>1, <5>2, BatchedIs DEF UpdateFails
        <5>5. p \in Below(Top.dir)
          BY <4>1, <5>3, BelowSelf, BelowChild
        <5> QED
          BY <3>1, <5>4, <5>5 DEF Reported, Below
      <4>5. i \in Levels' /\ trip'.frames[i] = trip.frames[i]
        BY <1>3, <2>2, <2>3, <4>4 DEF Levels
      <4> QED
        BY <4>3, <4>5 DEF Ahead
    <3> QED
      BY <1>1, <2>2, <3>1 DEF Storable, Below
  <2> QED
    BY <1>1, <2>2, <2>3, <2>4, <2>6, CallingNone DEF TInv, Visiting
<1>5. CASE Rest = <<>>
  <2>1. trip' = Finish("ok") \/ trip' = Finish("err")
    BY <1>2, <1>5 DEF Leave, UpdateFails
  <2>2. CASE trip' = Finish("err")
    BY <1>1, <2>2, ErrKeeps, CallingNone DEF Finish, TInv, Trips
  <2>3. CASE trip' = Finish("ok")
    <3>1. /\ trip'.kind = "UpdateDirectory" /\ trip'.root = trip.root /\ trip'.stage = "ok"
          /\ trip'.frames = <<>> /\ trip' \in Trips
      BY <1>1, <1>3, <1>5, <2>3, TypesHold DEF Finish, Trips
    <3>2. Stacked'
      BY <3>1, StackedEmpty
    <3>3. Placed'
      BY <1>1, <3>1 DEF Placed
    <3>4. store' = Batched(Top.batch)
      BY <1>2, <1>5, <3>1, TypesHold DEF UpdateFails, Finish
    <3>5. Levels = {n}
      BY <1>3, <1>5 DEF Levels
    <3>6. Storable'
      <4>1. ASSUME NEW p \in (Below(trip.root) \ {trip.root}) \cap steady, ~Reported(p)'
            PROVE  store'[p] # NoMeta
        <5>1. p \in Paths
          BY TypesHold
        <5>2. store[p] # NoMeta \/ Ahead(p)
          BY <1>1, <1>6, <4>1 DEF TInv, Storable
        <5>3. store[p] # NoMeta \/ \E b \in Top.batch : b.path = p
          BY <1>1, <1>3, <3>5, <5>2 DEF Ahead
        <5> QED
          BY <1>1, <3>4, <5>1, <5>3, BatchedIs
      <4> QED
        BY <1>1, <3>1, <3>4, <4>1 DEF Storable, Below
    <3> QED
      BY <1>1, <3>1, <3>2, <3>3, <3>6, CallingNone DEF TInv, Visiting
  <2> QED
    BY <2>1, <2>2, <2>3
<1> QED
  BY <1>4, <1>5

\* The call goes on, and has the metadata of a file when it has not failed.
LEMMA ExtractGoesOn ==
    ASSUME IInv, TInv, Working(Traveller), call[Traveller].op = "Extract"
    PROVE  LET e == call[Traveller]
               d == call'[Traveller]
           IN /\ UNCHANGED <<disk, last, store, index>>
              /\ d.op = e.op /\ d.at = e.at
              /\ d.stage \in {"look", "stat", "read", "fill", "done"}
              /\ d.stage = "done" /\ ~d.failed => d.meta # NoMeta
              /\ \A c \in Clients : c # Traveller => call'[c] = call[c]
<1> DEFINE e == call[Traveller]
           d == call'[Traveller]
<1>1. /\ Traveller \in Clients /\ e \in Calls /\ e.at \in Paths /\ TypeOK
      /\ Fits(e) /\ e.meta \in Metas
  BY TreeAssumption, Known DEF IInv, CallFine
<1>2. /\ e.stage \in {"look", "stat", "read", "fill", "done"}
      /\ e.stage = "done" /\ ~e.failed => e.meta # NoMeta
  <2>1. e.stage # "idle"
    BY <1>1 DEF Working, Extracting, GetRow, CheckRow, LookInCache, StatFile, ReadFile, FillCache,
                PutRow, PutDoc, Forget, DeleteRow, DeleteDoc, At
  <2>2. trip.stage = "called"
    BY <1>1, <2>1 DEF TInv, Calling
  <2> QED
    BY <2>2 DEF TInv, Calling
<1>3. \/ LookInCache(Traveller) \/ StatFile(Traveller)
      \/ ReadFile(Traveller) \/ FillCache(Traveller)
  BY <1>2 DEF Working, Extracting, GetRow, CheckRow, PutRow, PutDoc, Forget, DeleteRow, DeleteDoc, At
<1>4. CASE LookInCache(Traveller)
  BY <1>1, <1>2, <1>4 DEF LookInCache, At, Got, Goto, fileVars, dataVars, TypeOK, Calls
<1>5. CASE StatFile(Traveller)
  BY <1>1, <1>2, <1>5 DEF StatFile, At, Fail, fileVars, dataVars, TypeOK, Calls
<1>6. CASE ReadFile(Traveller)
  BY <1>1, <1>2, <1>6 DEF ReadFile, At, Goto, fileVars, dataVars, TypeOK, Calls
<1>7. CASE FillCache(Traveller)
  <2>1. e.meta # NoMeta
    BY <1>1, <1>7 DEF FillCache, At, Fits
  <2> QED
    BY <1>1, <1>2, <1>7, <2>1 DEF FillCache, At, Got, fileVars, TypeOK, Calls
<1> QED
  BY <1>3, <1>4, <1>5, <1>6, <1>7

LEMMA GetOrExtractGoesOn ==
    ASSUME IInv, TInv, Working(Traveller)
    PROVE  LET e == call[Traveller]
               d == call'[Traveller]
           IN /\ UNCHANGED <<disk, last>>
              /\ e.stage # "idle" /\ d.stage # "idle" /\ d.op = e.op /\ d.at = e.at
              /\ \A c \in Clients : c # Traveller => call'[c] = call[c]
<1>1. Traveller \in Clients /\ call \in [Clients -> Calls]
  BY TreeAssumption DEF IInv, TypeOK
<1>2. CASE Extracting(Traveller)
  BY <1>1, <1>2 DEF Extracting, GetRow, CheckRow, LookInCache, StatFile, ReadFile, FillCache,
                    At, Got, Goto, Fail, fileVars, dataVars, Calls
<1>3. CASE PutRow(Traveller) \/ PutDoc(Traveller)
  BY <1>1, <1>3 DEF PutRow, PutDoc, At, Goto, Fail, fileVars, Calls
<1>4. CASE Forget(Traveller) \/ DeleteRow(Traveller) \/ DeleteDoc(Traveller)
  BY <1>1, <1>4 DEF Forget, DeleteRow, DeleteDoc, At, Goto, Fail, fileVars, Calls
<1> QED
  BY <1>2, <1>3, <1>4 DEF Working

\* A step of others, which leaves the traversal and its visits alone.
LEMMA OthersKeep ==
    ASSUME TInv, UNCHANGED <<trip, visits, told>>, Stacked', TreeHolds', steady' \subseteq steady,
           trip.kind = "UpdateDirectory" => store' = store,
           Calling'
    PROVE  TInv'
<1>1. /\ trip' = trip /\ visits' = visits /\ Levels' = Levels /\ Top' = Top
      /\ steady \subseteq Paths
  BY DEF Levels, Top, TInv
<1>2. Placed'
  BY <1>1 DEF TInv, Placed, Below
<1>3. Visiting'
  <2>1. Visiting /\ \A p \in Paths \cup {NoPath} : Pending(p)' = Pending(p)
    BY <1>1 DEF TInv, Pending
  <2>2. \A i \in Levels : trip.frames[i] \in Frames
    BY StackIs DEF TInv
  <2>3. trip.root \in Paths \cup {NoPath}
    BY DEF TInv, Trips
  <2>4. ASSUME trip.kind = "Walk", NEW i \in Levels, NEW p \in trip.frames[i].left PROVE p \in Paths
    BY <2>2, <2>4 DEF Frames
  <2> QED
    BY <1>1, <2>1, <2>3, <2>4 DEF Visiting, Below
<1>4. Storable'
  <2>1. \A p : Ahead(p)' <=> Ahead(p)
    BY <1>1 DEF Ahead, Below
  <2> QED
    BY <1>1, <2>1, ReportedStays DEF TInv, Storable, Below
<1> QED
  BY <1>1, <1>2, <1>3, <1>4 DEF TInv

LEMMA WorkingKeeps == ASSUME IInv, TInv, Working(Traveller), UNCHANGED treeVars PROVE TInv'
<1> DEFINE e == call[Traveller]
<1>1. /\ UNCHANGED <<trip, visits, steady, told, disk, last>> /\ e.stage # "idle"
      /\ trip.stage = "called" /\ Traveller \in Clients
  BY GetOrExtractGoesOn, TreeAssumption DEF treeVars, TInv, Calling
<1>2. Stacked' /\ TreeHolds'
  BY <1>1, StackedSame, TreeSame DEF TInv
<1>3. trip.kind = "UpdateDirectory" => e.op = "Extract"
  BY <1>1 DEF TInv, Calling
<1>4. trip.kind = "UpdateDirectory" => store' = store
  BY <1>3, ExtractGoesOn
<1>5. Calling'
  BY <1>1, ExtractGoesOn, GetOrExtractGoesOn DEF TInv, Calling
<1> QED
  BY <1>1, <1>2, <1>4, <1>5, OthersKeep

LEMMA TreeWriteKeeps == ASSUME IInv, TInv, NEW p \in Paths, TreeWrite(p) PROVE TInv'
<1>1. /\ UNCHANGED <<trip, visits, steady, told, cache, store, index, call, faults>>
      /\ Parent[p] # NoPath => Parent[p] \in Here
      /\ last[p] < MaxVersion /\ last' = [last EXCEPT ![p] = @ + 1]
      /\ disk' = [disk EXCEPT ![p] = last[p] + 1]
      /\ TypeOK
  BY DEF TreeWrite, WriteFile, dataVars, IInv
<1>2. /\ Here' = Here \cup {p}
      /\ \A q \in Paths : last[q] \in Nat /\ last'[q] \in Nat /\ last[q] <= last'[q]
  BY <1>1, ServiceAssumption DEF Here, TypeOK, Versions
<1>3. TreeHolds'
  BY <1>1, <1>2 DEF TInv, TreeHolds
<1>4. Stacked'
  <2>1. \A i \in Levels : \A b \in trip.frames[i].batch : b.meta \in Metas /\ b.path \in Paths
    BY StackIs DEF TInv, Frames
  <2>2. \A i \in Levels : \A b \in trip.frames[i].batch : Sound(b.meta, last'[b.path])
    BY <1>2, <2>1, SoundStays DEF TInv, Stacked
  <2>3. trip' = trip /\ Levels' = Levels
    BY <1>1 DEF Levels
  <2> QED
    BY <2>2, <2>3 DEF TInv, Stacked, Below
<1>5. Calling'
  BY <1>1 DEF TInv, Calling
<1> QED
  BY <1>1, <1>3, <1>4, <1>5, OthersKeep

LEMMA TreeRemoveKeeps == ASSUME IInv, TInv, NEW p \in Paths, TreeRemove(p) PROVE TInv'
<1>1. /\ UNCHANGED <<trip, visits, told, last, cache, store, index, call, faults>>
      /\ steady' = steady \ {p} /\ disk' = [disk EXCEPT ![p] = 0] /\ Entries(p) = {}
  BY DEF TreeRemove, RemoveFile, dataVars
<1>2. Here' = Here \ {p}
  BY <1>1 DEF Here, IInv, TypeOK
<1>3. TreeHolds'
  BY <1>1, <1>2 DEF TInv, TreeHolds, Entries, Here
<1>4. Stacked'
  BY <1>1, StackedSame DEF TInv
<1>5. Calling'
  BY <1>1 DEF TInv, Calling
<1> QED
  BY <1>1, <1>3, <1>4, <1>5, OthersKeep

\* Nothing is under way at first, and after a restart.
LEMMA RestKeeps ==
    ASSUME trip' = AtRest, visits' = [p \in Paths |-> 0], steady' = {},
           \A c \in Clients : call'[c].stage = "idle",
           \A p \in Here' : Parent[p] # NoPath => Parent[p] \in Here'
    PROVE  TInv'
<1>1. /\ trip'.kind = "none" /\ trip'.stage = "rest" /\ trip'.frames = <<>> /\ trip' \in Trips
  <2>1. <<>> \in Seq(Frames)
    OBVIOUS
  <2> QED
    BY <2>1 DEF AtRest, Trips
<1>2. Stacked' /\ TreeHolds' /\ Calling' /\ Placed'
  BY <1>1, StackedEmpty, CallingNone DEF TreeHolds, Placed
<1> QED
  BY <1>1, <1>2 DEF TInv, Visiting, Storable

LEMMA TreeInitInv == TreeInit => IInv /\ TInv
<1> SUFFICES ASSUME TreeInit PROVE IInv /\ TInv
  OBVIOUS
<1>1. /\ trip.kind = "none" /\ trip.stage = "rest" /\ trip.frames = <<>> /\ trip \in Trips
  <2>1. <<>> \in Seq(Frames)
    OBVIOUS
  <2> QED
    BY <2>1 DEF TreeInit, AtRest, Trips
<1>2. Here = Paths /\ \A c \in Clients : call[c].stage = "idle"
  BY IdleIsFine DEF TreeInit, Init, Here
<1>3. TreeHolds /\ steady \subseteq Paths /\ visits \in [Paths -> Nat]
  BY <1>2, ParentIs DEF TreeInit, TreeHolds
<1>4. Stacked
  <2>1. Len(<<>>) = 0 /\ 1..0 = {}
    OBVIOUS
  <2> QED
    BY <1>1, <2>1 DEF Stacked, Levels
<1>5. Placed /\ Calling
  BY <1>1, <1>2 DEF Placed, Calling
<1> QED
  BY <1>1, <1>3, <1>4, <1>5, InitIInv DEF TInv, Visiting, Storable, TreeInit

LEMMA TreeNextInv == IInv /\ TInv /\ [TreeNext]_allVars => (IInv /\ TInv)'
<1> SUFFICES ASSUME IInv, TInv, [TreeNext]_allVars PROVE TInv'
  BY TreeIInv
<1>1. CASE Walking
  BY <1>1, WalkStatKeeps, WalkVisitKeeps, WalkListKeeps, WalkNextKeeps DEF Walking
<1>2. CASE Updating
  BY <1>2, UpdateListKeeps, UpdateNextKeeps, UpdateCollectKeeps, BatchPutKeeps DEF Updating
<1>3. CASE TreeRestart
  <2>1. UNCHANGED disk /\ \A c \in Clients : call'[c].stage = "idle"
    BY <1>3, IdleIsFine DEF TreeRestart, Restart, fileVars
  <2>2. \A p \in Here' : Parent[p] # NoPath => Parent[p] \in Here'
    BY <2>1 DEF TInv, TreeHolds, Here
  <2> QED
    BY <1>3, <2>1, <2>2, RestKeeps DEF TreeRestart
<1>4. CASE UNCHANGED allVars
  <2>1. UNCHANGED <<trip, visits, steady, told, disk, last, call, store, faults>>
    BY <1>4 DEF allVars, vars, treeVars
  <2>2. Stacked' /\ TreeHolds'
    BY <2>1, StackedSame, TreeSame DEF TInv
  <2>3. Calling'
    BY <2>1 DEF TInv, Calling
  <2> QED
    BY <2>1, <2>2, <2>3, OthersKeep
<1> QED
  BY <1>1, <1>2, <1>3, <1>4, StartKeeps, WorkingKeeps, TreeWriteKeeps, TreeRemoveKeeps DEF TreeNext

LEMMA TInvWalk == IInv /\ TInv => WalkVisitsAll
<1> SUFFICES ASSUME TInv, trip.kind = "Walk" PROVE WalkVisitsAll
  BY DEF WalkVisitsAll
<1>1. Visiting /\ trip.root \in Paths /\ TreeHolds /\ steady \subseteq Paths
  BY TypesHold DEF TInv
<1>2. \A p \in Paths : visits[p] <= 1
  BY <1>1 DEF Visiting
<1>3. \A p \in Paths \ {trip.root} : visits[p] = 1 => visits[Parent[p]] = 1
  BY <1>1 DEF Visiting
<1>4. ASSUME trip.stage = "ok", NEW p \in Below(trip.root) \cap steady
      PROVE  visits[p] = 1 \/ Reported(p)
  <2> DEFINE S == {q \in Paths : q \in steady => visits[q] = 1 \/ Reported(q)}
  <2>1. Levels = {}
    <3>1. trip.frames = <<>> /\ Len(<<>>) = 0 /\ 1..0 = {}
      BY <1>4 DEF TInv, Placed
    <3> QED
      BY <3>1 DEF Levels
  <2>2. ASSUME NEW q \in Paths, Parent[q] \in S PROVE q \in S
    <3>1. SUFFICES ASSUME q \in steady PROVE visits[q] = 1 \/ Reported(q)
      OBVIOUS
    <3>2. /\ Parent[q] # NoPath /\ Parent[q] \in Paths
          /\ visits[Parent[q]] = 1 \/ Reported(Parent[q])
      BY <1>1, <2>2, <3>1, TreeAssumption DEF TreeHolds
    <3>3. CASE Reported(Parent[q]) \/ Parent[q] \in told
      BY <3>2, <3>3, ReportedBelow
    <3>4. CASE visits[Parent[q]] = 1 /\ Parent[q] \notin told
      BY <1>1, <1>4, <2>1, <3>1, <3>2, <3>4 DEF Visiting, Pending
    <3> QED
      BY <3>2, <3>3, <3>4
  <2>3. trip.root \in S
    BY <1>1, <1>4 DEF Visiting, Pending
  <2>4. S \in SUBSET Paths
    OBVIOUS
  <2> HIDE DEF S
  <2>5. Below(trip.root) \subseteq S
    BY <2>2, <2>3, <2>4, BelowInduction
  <2> QED
    BY <2>5 DEF S
<1> QED
  BY <1>2, <1>3, <1>4 DEF WalkVisitsAll

LEMMA TInvUpdate == IInv /\ TInv => UpdateStoresAll
<1> SUFFICES ASSUME TInv, Travels("UpdateDirectory", "ok") PROVE UpdateStoresAll
  BY DEF UpdateStoresAll
<1>1. trip.frames = <<>> /\ Len(<<>>) = 0 /\ 1..0 = {}
  BY DEF TInv, Placed, Travels
<1>2. \A p : ~Ahead(p)
  BY <1>1 DEF Ahead, Levels, Travels
<1> QED
  BY <1>2 DEF TInv, Storable, UpdateStoresAll, Travels

(***************************************************************************)
(* service.go's Walk and UpdateDirectory keep what their steps rest on:    *)
(* the service's invariant, and that of the traversal.                     *)
(***************************************************************************)
THEOREM TreeInvariant == TreeSpec => [](IInv /\ TInv)
<1>1. TreeInit => IInv /\ TInv
  BY TreeInitInv
<1>2. IInv /\ TInv /\ [TreeNext]_allVars => (IInv /\ TInv)'
  BY TreeNextInv
<1> QED
  BY <1>1, <1>2, PTL DEF TreeSpec

(***************************************************************************)
(* Walk calls back at most once for a path and never below a directory it  *)
(* has not called back for; when it ends well it has called back for every *)
(* path that was there all the time, or fn was told of a failure above it. *)
(* For every tree, every order in which directories list their entries,    *)
(* and whatever others do, or fails, meanwhile.                            *)
(***************************************************************************)
THEOREM TreeWalkVisitsAll == TreeSpec => []WalkVisitsAll
<1>1. IInv /\ TInv => WalkVisitsAll
  BY TInvWalk
<1> QED
  BY <1>1, TreeInvariant, PTL

(***************************************************************************)
(* When UpdateDirectory answers well, everything below its directory that  *)
(* was there all the time has a row, or a warning was given for it or for  *)
(* something above it, in trees of any depth and whatever failed.          *)
(***************************************************************************)
THEOREM TreeUpdateStoresAll == TreeSpec => []UpdateStoresAll
<1>1. IInv /\ TInv => UpdateStoresAll
  BY TInvUpdate
<1> QED
  BY <1>1, TreeInvariant, PTL

(***************************************************************************)
(* The rows that UpdateDirectory collects and puts late, in one batch for  *)
(* a whole directory, and those of a Walk are whole when they look         *)
(* current, as those of single calls are.                                  *)
(***************************************************************************)
THEOREM TreeCurrentIsWhole == TreeSpec => []CurrentIsWhole
BY TreeInvariant, IInvIsWhole, PTL

-----------------------------------------------------------------------------
(***************************************************************************)
(* What is kept for searching, and the searches.                           *)
(***************************************************************************)

\* Exactly the rows have an id, and no two the same: what makes words left behind
\* harmless to others.
IdsDiffer ==
    /\ \A f \in Files : id[f] = NoId <=> f \notin Rows
    /\ \A f, g \in Rows : id[f] = id[g] => f = g

\* The index has every word of the columns of every row.
TextStored == \A f \in Rows : \A w \in TextOf(f, row[f]) : <<id[f], w>> \in fts

SearchIInv == SearchTypeOK /\ IdsDiffer /\ TextStored /\ HitsWereTrue

\* The words of a row are words: what the FTS index is made of.
LEMMA TextIsWords ==
    ASSUME NEW f \in Files, NEW m \in Records
    PROVE  TextOf(f, m) \subseteq Words
  BY SearchAssumption DEF TextOf

LEMMA InitSearchIInv == SearchInit => SearchIInv
  BY SearchAssumption DEF SearchInit, SearchIInv, SearchTypeOK, IdsDiffer, TextStored, HitsWereTrue, Rows

(***************************************************************************)
(* Storing keeps the invariant.  A new row has an id that no word is left  *)
(* behind for; a row replaced keeps its id, and what it has and had.       *)
(***************************************************************************)
LEMMA StoredKeeps ==
    ASSUME SearchIInv, NEW S \in SUBSET Files, NEW m \in [S -> Records], Stored(m)
    PROVE  SearchIInv'
<1>1. PICK i \in [S -> Ids] :
         /\ \A f \in S : IF f \in Rows THEN i[f] = id[f] ELSE i[f] \in Ids \ used
         /\ \A f, g \in S : i[f] = i[g] => f = g
         /\ id' = [f \in Files |-> IF f \in S THEN i[f] ELSE id[f]]
         /\ used' = used \cup {i[f] : f \in S}
         /\ fts' = fts \cup UNION {{i[f]} \X TextOf(f, m[f]) : f \in S}
  BY DEF Stored, FreshIds, Triggered
<1>2. /\ row' = [f \in Files |-> IF f \in S THEN m[f] ELSE row[f]]
      /\ had' = [f \in Files |-> IF f \in S THEN had[f] \cup TextOf(f, m[f]) ELSE had[f]]
      /\ doc' = doc
  BY DEF Stored
<1>3. \A f \in S : m[f] \in Records /\ TextOf(f, m[f]) \subseteq Words
  BY TextIsWords
<1>4. Rows' = Rows \cup S
  BY <1>2, <1>3, SearchAssumption DEF Rows
<1>5. \A f \in Rows : f \in Files /\ id[f] \in used
  BY DEF SearchIInv, SearchTypeOK, IdsDiffer, Rows
<1>6. \A f \in Rows : id'[f] = id[f]
  BY <1>1, <1>5
<1>7. \A f \in Files : \A w : <<id'[f], w>> \in fts' /\ f \in Rows' =>
         \/ f \in Rows /\ <<id[f], w>> \in fts
         \/ f \in S /\ w \in TextOf(f, m[f])
  <2> SUFFICES ASSUME NEW f \in Files, NEW w, <<id'[f], w>> \in fts', f \in Rows'
               PROVE  \/ f \in Rows /\ <<id[f], w>> \in fts
                      \/ f \in S /\ w \in TextOf(f, m[f])
    OBVIOUS
  <2>1. CASE <<id'[f], w>> \in fts
    <3>1. id'[f] \in used
      BY <2>1 DEF SearchIInv, SearchTypeOK
    <3>2. f \in Rows
      BY <3>1, <1>1, <1>4
    <3> QED
      BY <2>1, <3>2, <1>6
  <2>2. CASE <<id'[f], w>> \notin fts
    <3>1. PICK g \in S : id'[f] = i[g] /\ w \in TextOf(g, m[g])
      BY <2>2, <1>1
    <3>2. CASE f \in S
      BY <3>1, <3>2, <1>1
    <3>3. CASE f \notin S
      <4>1. f \in Rows /\ i[g] = id[f] /\ id[f] \in used
        BY <3>1, <3>3, <1>1, <1>4, <1>5
      <4>2. g \in Rows /\ id[g] = id[f]
        BY <4>1, <1>1
      <4> QED
        BY <4>1, <4>2, <3>3 DEF SearchIInv, IdsDiffer
    <3> QED
      BY <3>2, <3>3
  <2> QED
    BY <2>1, <2>2
<1>8. SearchTypeOK'
  <2>1. row' \in [Files -> Records \cup {NoRow}]
    BY <1>2, <1>3 DEF SearchIInv, SearchTypeOK
  <2>2. used' \subseteq Ids
    BY <1>1 DEF SearchIInv, SearchTypeOK
  <2>3. id' \in [Files -> used' \cup {NoId}]
    BY <1>1 DEF SearchIInv, SearchTypeOK
  <2>5. fts' \subseteq used' \X Words
    BY <1>1, <1>3 DEF SearchIInv, SearchTypeOK
  <2>6. had' \in [Files -> SUBSET Words]
    BY <1>2, <1>3 DEF SearchIInv, SearchTypeOK
  <2> QED
    BY <2>1, <2>2, <2>3, <2>5, <2>6, <1>2 DEF SearchIInv, SearchTypeOK
<1>9. IdsDiffer'
  <2>0. ASSUME NEW f \in Files PROVE id'[f] = NoId <=> f \notin Rows'
    <3>1. CASE f \in S
      BY <3>1, <1>1, <1>4, SearchAssumption
    <3>2. CASE f \notin S
      BY <3>2, <1>1, <1>4 DEF SearchIInv, IdsDiffer
    <3> QED
      BY <3>1, <3>2
  <2> SUFFICES ASSUME NEW f \in Rows', NEW g \in Rows', id'[f] = id'[g]
               PROVE  f = g
    BY <2>0 DEF IdsDiffer
  <2>1. CASE f \in Rows /\ g \in Rows
    BY <2>1, <1>6 DEF SearchIInv, IdsDiffer
  <2>2. CASE f \in S /\ g \in S
    BY <2>2, <1>1
  <2>3. CASE f \in Rows /\ g \notin Rows
    BY <2>3, <1>1, <1>4, <1>5, <1>6
  <2>4. CASE f \notin Rows /\ g \in Rows
    BY <2>4, <1>1, <1>4, <1>5, <1>6
  <2> QED
    BY <2>1, <2>2, <2>3, <2>4, <1>4
<1>10. TextStored'
  <2> SUFFICES ASSUME NEW f \in Rows', NEW w \in TextOf(f, row'[f])
               PROVE  <<id'[f], w>> \in fts'
    BY DEF TextStored, TextOf
  <2>1. CASE f \in S
    <3>1. row'[f] = m[f] /\ id'[f] = i[f]
      BY <2>1, <1>1, <1>2
    <3> QED
      BY <2>1, <3>1, <1>1
  <2>2. CASE f \notin S
    BY <2>2, <1>1, <1>2, <1>4, <1>5, <1>6 DEF SearchIInv, TextStored
  <2> QED
    BY <2>1, <2>2
<1>11. HitsWereTrue'
  <2> SUFFICES ASSUME NEW f \in Rows', NEW w \in Words, <<id'[f], w>> \in fts'
               PROVE  w \in had'[f]
    BY DEF HitsWereTrue
  <2>0. f \in Files
    BY <1>4, <1>5
  <2>1. CASE f \in Rows /\ <<id[f], w>> \in fts
    BY <2>0, <2>1, <1>2 DEF SearchIInv, HitsWereTrue
  <2>2. CASE f \in S /\ w \in TextOf(f, m[f])
    BY <2>0, <2>2, <1>2
  <2> QED
    BY <2>0, <2>1, <2>2, <1>7
<1> QED
  BY <1>8, <1>9, <1>10, <1>11 DEF SearchIInv

\* Deleting rows keeps it: their words stay in the index under ids that no row has.
LEMMA RemovedKeeps ==
    ASSUME SearchIInv, NEW S \in SUBSET Files, Removed(S)
    PROVE  SearchIInv'
<1>1. Rows' = Rows \ S
  BY DEF Removed, Rows
<1>2. \A f \in Rows' : f \in Files /\ f \in Rows /\ f \notin S
  BY <1>1 DEF Rows
<1>3. \A f \in Rows' : row'[f] = row[f] /\ id'[f] = id[f] /\ had'[f] = had[f]
  BY <1>2 DEF Removed
<1>4. fts' = fts /\ used' = used /\ doc' = doc
  BY DEF Removed
<1>5. SearchTypeOK'
  <2>1. /\ row' \in [Files -> Records \cup {NoRow}]
        /\ id' \in [Files -> used' \cup {NoId}]
        /\ had' \in [Files -> SUBSET Words]
    BY <1>4 DEF Removed, SearchIInv, SearchTypeOK
  <2> QED
    BY <1>4, <2>1 DEF SearchIInv, SearchTypeOK
<1>6. IdsDiffer'
  <2>1. \A f \in Files : id'[f] = NoId <=> f \notin Rows'
    BY <1>1 DEF Removed, SearchIInv, IdsDiffer
  <2> QED
    BY <2>1, <1>2, <1>3 DEF SearchIInv, IdsDiffer
<1>7. TextStored'
  <2> SUFFICES ASSUME NEW f \in Rows', NEW w \in TextOf(f, row'[f])
               PROVE  <<id'[f], w>> \in fts'
    BY DEF TextStored, TextOf
  <2> QED
    BY <1>2, <1>3, <1>4 DEF SearchIInv, TextStored
<1>8. HitsWereTrue'
  BY <1>2, <1>3, <1>4 DEF SearchIInv, HitsWereTrue
<1> QED
  BY <1>5, <1>6, <1>7, <1>8 DEF SearchIInv

\* What happens in bleve leaves the table alone.
LEMMA TableUnchanged ==
    ASSUME SearchIInv, UNCHANGED <<row, id, used, fts, had>>,
           doc' \in [Files -> [meta : Records, content : Contents \cup {{}}] \cup {NoRow}]
    PROVE  SearchIInv'
  BY DEF SearchIInv, SearchTypeOK, IdsDiffer, TextStored, HitsWereTrue, Rows, TextOf

LEMMA NextSearchIInv == SearchIInv /\ [SearchNext]_searchVars => SearchIInv'
<1> SUFFICES ASSUME SearchIInv, [SearchNext]_searchVars PROVE SearchIInv'
  OBVIOUS
<1> DEFINE Documents == [meta : Records, content : Contents \cup {{}}]
<1>1. ASSUME NEW f \in Files, NEW m \in Records, Put(f, m) PROVE SearchIInv'
  <2>1. [g \in {f} |-> m] \in [{f} -> Records]
    OBVIOUS
  <2> QED
    BY <1>1, <2>1, StoredKeeps DEF Put
<1>2. ASSUME NEW S \in SUBSET Files, NEW m \in [S -> Records], BatchPutRows(m) PROVE SearchIInv'
  BY <1>2, StoredKeeps DEF BatchPutRows
<1>3. ASSUME NEW f \in Files, Delete(f) PROVE SearchIInv'
  BY <1>3, RemovedKeeps DEF Delete
<1>4. ASSUME NEW S \in SUBSET Files, BatchDelete(S) PROVE SearchIInv'
  BY <1>4, RemovedKeeps DEF BatchDelete
<1>5. ASSUME NEW S \in SUBSET Files, NEW m \in [S -> Records],
             NEW x \in Contents \cup {{}}, Documented(m, x)
      PROVE  SearchIInv'
  <2>1. doc' \in [Files -> Documents \cup {NoRow}]
    BY <1>5 DEF Documented, SearchIInv, SearchTypeOK
  <2> QED
    BY <1>5, <2>1, TableUnchanged DEF Documented
<1>6. ASSUME NEW f \in Files, NEW m \in Records, NEW x \in Contents \cup {{}},
             Documented([g \in {f} |-> m], x)
      PROVE  SearchIInv'
  <2>1. [g \in {f} |-> m] \in [{f} -> Records]
    OBVIOUS
  <2> QED
    BY <1>6, <2>1, <1>5
<1>7. ASSUME NEW f \in Files, DeleteDocument(f) PROVE SearchIInv'
  <2>1. doc' \in [Files -> Documents \cup {NoRow}]
    BY <1>7 DEF DeleteDocument, SearchIInv, SearchTypeOK
  <2> QED
    BY <1>7, <2>1, TableUnchanged DEF DeleteDocument
<1>8. CASE UNCHANGED searchVars
  <2>1. doc' \in [Files -> Documents \cup {NoRow}]
    BY <1>8 DEF searchVars, SearchIInv, SearchTypeOK
  <2> QED
    BY <1>8, <2>1, TableUnchanged DEF searchVars
<1> QED
  BY <1>1, <1>2, <1>3, <1>4, <1>5, <1>6, <1>7, <1>8
     DEF SearchNext, Index, IndexWithContent, BatchIndex

LEMMA SearchInvariance == SearchSpec => []SearchIInv
  BY InitSearchIInv, NextSearchIInv, PTL DEF SearchSpec

-----------------------------------------------------------------------------
\* Whatever is stored, replaced, deleted and indexed, the tables keep their types.
THEOREM SearchTyped == SearchSpec => []SearchTypeOK
<1>1. SearchIInv => SearchTypeOK
  BY DEF SearchIInv
<1> QED
  BY <1>1, SearchInvariance, PTL

\* A text search of a build with fts5 misses no row that has the word, but for
\* words of a tag that are not in its JSON.
THEOREM EveryWordFound == SearchSpec => []TextFound
<1>1. SearchIInv => TextFound
  <2> SUFFICES ASSUME SearchIInv, NEW f \in Rows,
                      NEW w \in PathWords[f] \cup row[f].desc
                              \cup UNION {TagWords[t] \cap JSONWords[t] : t \in row[f].tags}
               PROVE  f \in FTSSearch([text |-> w, adaptor |-> NoFilter, prefix |-> NoFilter,
                                       type |-> NoFilter, tags |-> {}, min |-> 0, max |-> 0])
    BY DEF TextFound
  <2>1. w \in TextOf(f, row[f])
    BY DEF TextOf
  <2>2. <<id[f], w>> \in fts
    BY <2>1 DEF SearchIInv, TextStored
  <2> QED
    BY <2>2 DEF FTSSearch, Selected
<1> QED
  BY <1>1, SearchInvariance, PTL

\* What it finds had the word: words left behind never lead to another file.
THEOREM StaleHitsWereTrue == SearchSpec => []HitsWereTrue
<1>1. SearchIInv => HitsWereTrue
  BY DEF SearchIInv
<1> QED
  BY <1>1, SearchInvariance, PTL

-----------------------------------------------------------------------------
\* The filters that the table and bleve have in common, when they hold the same.
Passes(q, f, places) ==
    /\ q.adaptor \in {NoFilter, Adaptor[f]}
    /\ q.prefix = NoFilter \/ f \in places[q.prefix]
    /\ q.type \in {NoFilter, row[f].type}

LEMMA SelectedIs ==
    ASSUME NEW q, q.min = 0, q.max = 0, NEW f \in Rows
    PROVE  f \in Selected(q) <=>
              /\ Passes(q, f, Like)
              /\ q.tags = {} \/ \E t \in q.tags : row[f].tags \cap TagLike[t] # {}
  BY DEF Selected, Passes, Rows

LEMMA FilteredIs ==
    ASSUME InStep, NEW q, NEW f \in Rows
    PROVE  f \in Filtered(q) <=> Passes(q, f, StartsWith) /\ q.tags \subseteq row[f].tags
  BY DEF Filtered, Passes, InStep, Indexed

\* What bleve finds by metadata, the table finds, by LIKE and in the FTS index.
LEMMA TableFinds ==
    ASSUME SearchIInv, InStep, NEW q \in Queries, q.min = 0, q.max = 0,
           \A t \in q.tags : TagLike[t] = {t},
           NEW f \in BleveSearch(q), q.text \notin doc[f].content
    PROVE  f \in LikeSearch(q) /\ f \in FTSSearch(q)
<1>1. /\ f \in Rows /\ f \in Files /\ f \in Filtered(q) /\ doc[f].meta = row[f]
      /\ q.text = NoText \/ q.text \in row[f].desc
  BY DEF BleveSearch, Filtered, TermsOf, InStep, Indexed
<1>2. q.text \in Words \cup {NoText} /\ q.prefix \in Prefixes \cup {NoFilter}
  BY DEF Queries
<1>3. Passes(q, f, StartsWith) /\ q.tags \subseteq row[f].tags
  BY <1>1, FilteredIs
<1>4. Passes(q, f, Like)
  BY <1>2, <1>3, SearchAssumption DEF Passes
<1>5. q.tags = {} \/ \E t \in q.tags : row[f].tags \cap TagLike[t] # {}
  BY <1>3
<1>6. f \in Selected(q)
  BY <1>1, <1>4, <1>5, SelectedIs
<1>7. q.text # NoText => q.text \in Words /\ q.text \in TextOf(f, row[f])
  BY <1>1, <1>2 DEF TextOf
<1>8. q.text # NoText => TextOf(f, row[f]) \cap Occurs[q.text] # {}
  BY <1>7, SearchAssumption
<1>9. q.text # NoText => <<id[f], q.text>> \in fts
  BY <1>1, <1>7 DEF SearchIInv, TextStored
<1> QED
  BY <1>6, <1>8, <1>9 DEF LikeSearch, FTSSearch

\* Without a text, what the table finds with these tags; no tags filter nothing.
LEMMA LikeWithTags ==
    ASSUME NEW q \in Queries, q.min = 0, q.max = 0, q.text = NoText, NEW tags, NEW f \in Rows
    PROVE  f \in LikeSearch([q EXCEPT !.tags = tags]) <=>
              /\ Passes(q, f, Like)
              /\ tags = {} \/ \E t \in tags : row[f].tags \cap TagLike[t] # {}
<1> DEFINE r == [q EXCEPT !.tags = tags]
<1>1. /\ r.min = q.min /\ r.max = q.max /\ r.text = q.text /\ r.tags = tags
      /\ r.adaptor = q.adaptor /\ r.prefix = q.prefix /\ r.type = q.type
  BY DEF Queries
<1> HIDE DEF r
<1>2. f \in Selected(r) <=>
         /\ Passes(r, f, Like)
         /\ r.tags = {} \/ \E t \in r.tags : row[f].tags \cap TagLike[t] # {}
  BY <1>1, SelectedIs
<1>3. Passes(r, f, Like) <=> Passes(q, f, Like)
  BY <1>1 DEF Passes
<1>4. f \in LikeSearch(r) <=> f \in Selected(r)
  BY <1>1 DEF LikeSearch
<1> QED
  BY <1>1, <1>2, <1>3, <1>4 DEF r

LEMMA EachTagFinds ==
    ASSUME InStep, NEW q \in Queries, q.min = 0, q.max = 0, q.text = NoText,
           \A t \in q.tags : TagLike[t] = {t},
           q.prefix = NoFilter \/ Like[q.prefix] = StartsWith[q.prefix]
    PROVE  BleveSearch(q) = {f \in LikeSearch([q EXCEPT !.tags = {}]) :
                                \A t \in q.tags : f \in LikeSearch([q EXCEPT !.tags = {t}])}
<1>1. BleveSearch(q) \subseteq Rows
  BY DEF BleveSearch, Filtered, InStep
<1>2. LikeSearch([q EXCEPT !.tags = {}]) \subseteq Rows
  BY DEF LikeSearch, Selected
<1>3. ASSUME NEW f \in Rows
      PROVE  f \in BleveSearch(q) <=>
                /\ f \in LikeSearch([q EXCEPT !.tags = {}])
                /\ \A t \in q.tags : f \in LikeSearch([q EXCEPT !.tags = {t}])
  <2>1. f \in BleveSearch(q) <=> Passes(q, f, StartsWith) /\ q.tags \subseteq row[f].tags
    BY FilteredIs DEF BleveSearch
  <2>2. Passes(q, f, StartsWith) <=> Passes(q, f, Like)
    BY DEF Passes
  <2>3. f \in LikeSearch([q EXCEPT !.tags = {}]) <=> Passes(q, f, Like)
    BY LikeWithTags
  <2>4. ASSUME NEW t \in q.tags
        PROVE  f \in LikeSearch([q EXCEPT !.tags = {t}]) <=> Passes(q, f, Like) /\ t \in row[f].tags
    <3>1. f \in LikeSearch([q EXCEPT !.tags = {t}]) <=>
             /\ Passes(q, f, Like)
             /\ {t} = {} \/ \E u \in {t} : row[f].tags \cap TagLike[u] # {}
      BY LikeWithTags
    <3> QED
      BY <3>1
  <2> QED
    BY <2>1, <2>2, <2>3, <2>4
<1> QED
  BY <1>1, <1>2, <1>3

(***************************************************************************)
(* While the table and bleve hold the same, "metadata search" finds in the *)
(* table all that "--full-text" finds by metadata, in every build; without *)
(* a text, bleve finds what the table finds for each tag.                  *)
(***************************************************************************)
THEOREM BothSearchesAgree == SearchSpec => []SearchesAgree
<1>1. SearchIInv => SearchesAgree
  BY TableFinds, EachTagFinds DEF SearchesAgree
<1> QED
  BY <1>1, SearchInvariance, PTL
=============================================================================
