------------------------------- MODULE FileCopy -------------------------------
(***************************************************************************)
(* File handles and the copy command: cloudFile and cloudWriteFile of      *)
(* adaptors/cloud/vfs_wrapper.go, the local files of adaptors/filesystem,  *)
(* and copyFile of cmd/finspect/cp.go, which reads through one handle and  *)
(* writes through another.  A handle on an object store collects what is   *)
(* written and uploads it when it is closed; a local file changes with     *)
(* every write.  Other handles write the same files meanwhile.             *)
(***************************************************************************)
EXTENDS Integers, Sequences

CONSTANTS FilePaths, \* files
          Cloud,     \* those on an object store; the others are local
          Handles,   \* handles open for writing
          Copier,    \* the handle copyFile writes through
          Data,      \* what is written, piece by piece
          Zero,      \* what Truncate extends a file with
          Initial,   \* Initial[p]: what the file holds at first, or Nothing
          Nothing,   \* what a path without a file holds
          MaxLen,    \* bound: pieces in a file
          MaxFileFaults  \* bound: operations that fail

ASSUME FileAssumption ==
    /\ FilePaths # {} /\ Cloud \subseteq FilePaths
    /\ Copier \in Handles
    /\ Nothing \notin Seq(Data \cup {Zero})
    /\ Initial \in [FilePaths -> Seq(Data \cup {Zero}) \cup {Nothing}]
    /\ MaxLen \in Nat /\ MaxFileFaults \in Nat

VARIABLES file,    \* file[p]: what the store or the disk holds
          handle,  \* handle[h]: buffer is what was written through h, sent what
                   \* Close gave the upload, Nothing before that
          copy,    \* the copyFile call in progress; lost and disturbed are history
          fileFaults

fileVars == <<file, handle, copy, fileFaults>>

Unused == [stage |-> "none", path |-> CHOOSE p \in FilePaths : TRUE, buffer |-> <<>>,
           sent |-> Nothing]

NoCopy == [stage |-> "idle", source |-> CHOOSE p \in FilePaths : TRUE,
           dest |-> CHOOSE p \in FilePaths : TRUE, body |-> <<>>, at |-> 0, ok |-> FALSE,
           lost |-> FALSE, disturbed |-> FALSE]

FileInit ==
    /\ file = Initial
    /\ handle = [h \in Handles |-> Unused]
    /\ copy = NoCopy
    /\ fileFaults = 0

FileFault ==
    /\ fileFaults < MaxFileFaults
    /\ fileFaults' = fileFaults + 1

Zeros(n) == [i \in 1..n |-> Zero]

\* s cut or extended to n pieces.
Resized(s, n) == IF n <= Len(s) THEN SubSeq(s, 1, n) ELSE s \o Zeros(n - Len(s))

\* s with x written at offset n.
WrittenAt(s, n, x) == [Resized(s, IF Len(s) > n THEN Len(s) ELSE n + 1) EXCEPT ![n + 1] = x]

-----------------------------------------------------------------------------
(***************************************************************************)
(* Handles, as operators on the state: what Create, Write, Truncate and    *)
(* Close of handle h do to handle and file.                                *)
(***************************************************************************)
Created(h, p) ==
    /\ handle' = [handle EXCEPT ![h] = [Unused EXCEPT !.stage = "open", !.path = p]]
    /\ file' = IF p \in Cloud THEN file ELSE [file EXCEPT ![p] = <<>>]

Written(h, x) ==
    LET p == handle[h].path IN
    /\ handle' = [handle EXCEPT ![h].buffer = Append(@, x)]
    /\ file' = IF p \in Cloud \/ file[p] = Nothing THEN file
               ELSE [file EXCEPT ![p] = WrittenAt(@, Len(handle[h].buffer), x)]

\* Close of a cloud handle marks it closed, and then uploads the buffer as it is.
ClosedNow(h) ==
    handle' = IF handle[h].path \in Cloud
              THEN [handle EXCEPT ![h].stage = "uploading", ![h].sent = handle[h].buffer]
              ELSE [handle EXCEPT ![h].stage = "closed"]

Uploaded(h) ==
    /\ file' = [file EXCEPT ![handle[h].path] = handle[h].sent]
    /\ handle' = [handle EXCEPT ![h].stage = "closed"]

\* A failed upload leaves the handle closed: Close will answer nil from now on.
NotUploaded(h) ==
    /\ FileFault
    /\ handle' = [handle EXCEPT ![h].stage = "closed"]
    /\ UNCHANGED file

-----------------------------------------------------------------------------
\* What other users of handles do; copyFile notes what disturbs it.
Others == Handles \ {Copier}
Touches(p) == copy.stage # "idle" /\ p \in {copy.source, copy.dest}
Note(p) == copy' = [copy EXCEPT !.disturbed = @ \/ Touches(p)]

OtherCreates(h, p) ==
    /\ handle[h].stage \in {"none", "closed"}
    /\ Created(h, p)
    /\ Note(p)
    /\ UNCHANGED fileFaults

\* Fault of OtherWritesOn: Write does not look at closed.
OtherWritesOnClosed(h, x) ==
    /\ handle[h].stage \in {"open", "uploading", "closed"}
    /\ Len(handle[h].buffer) < MaxLen
    /\ Written(h, x)
    /\ Note(handle[h].path)
    /\ UNCHANGED fileFaults

\* Write on a closed handle fails and changes nothing.
OtherWritesOn(h, x) ==
    /\ handle[h].stage = "open"
    /\ Len(handle[h].buffer) < MaxLen
    /\ Written(h, x)
    /\ Note(handle[h].path)
    /\ UNCHANGED fileFaults

\* Truncate; a negative size is refused.
OtherTruncates(h, n) ==
    LET p == handle[h].path IN
    /\ handle[h].stage = "open"
    /\ p \in Cloud
    /\ handle' = [handle EXCEPT ![h].buffer = Resized(@, n)]
    /\ Note(p)
    /\ UNCHANGED <<file, fileFaults>>

OtherCloses(h) ==
    /\ handle[h].stage = "open"
    /\ ClosedNow(h)
    /\ UNCHANGED <<file, copy, fileFaults>>

OtherUploads(h) ==
    /\ handle[h].stage = "uploading"
    /\ \/ Uploaded(h) /\ Note(handle[h].path) /\ UNCHANGED fileFaults
       \/ NotUploaded(h) /\ UNCHANGED copy

-----------------------------------------------------------------------------
\* copyFile.  An error goes on to the deferred Close of what is open by then.
CopyGoto(stage) == copy' = [copy EXCEPT !.stage = stage]

CopyBegins(source, dest) ==
    /\ copy.stage = "idle"
    /\ copy' = [NoCopy EXCEPT !.stage = "open", !.source = source, !.dest = dest,
                              !.disturbed = \E h \in Others :
                                  handle[h].stage \in {"open", "uploading"}
                                  /\ handle[h].path \in {source, dest}]
    /\ UNCHANGED <<file, handle, fileFaults>>

\* A cloud reader streams the object as it was when it was opened.
OpenSource ==
    /\ copy.stage = "open"
    /\ \/ /\ file[copy.source] # Nothing
          /\ copy' = [copy EXCEPT !.stage = "create", !.body = file[copy.source]]
          /\ UNCHANGED fileFaults
       \/ /\ file[copy.source] = Nothing
          /\ CopyGoto("reported")
          /\ UNCHANGED fileFaults
       \/ FileFault /\ CopyGoto("reported")
    /\ UNCHANGED <<file, handle>>

CreateDest ==
    /\ copy.stage = "create"
    /\ \/ Created(Copier, copy.dest) /\ CopyGoto("copy") /\ UNCHANGED fileFaults
       \/ FileFault /\ CopyGoto("reported") /\ UNCHANGED <<file, handle>>

\* What the reader of the source still delivers.
Body == IF copy.source \in Cloud THEN copy.body
        ELSE IF file[copy.source] = Nothing THEN <<>> ELSE file[copy.source]

\* Fault of CopyPiece: an error of the reader counts as the end of the file.
CopyPieceErrorIsEnd ==
    /\ copy.stage = "copy"
    /\ \/ /\ copy.at < Len(Body)
          /\ Written(Copier, Body[copy.at + 1])
          /\ copy' = [copy EXCEPT !.at = @ + 1]
          /\ UNCHANGED fileFaults
       \/ /\ copy.at >= Len(Body)
          /\ CopyGoto("sync")
          /\ UNCHANGED <<file, handle, fileFaults>>
       \/ FileFault /\ CopyGoto("sync") /\ UNCHANGED <<file, handle>>

\* io.Copy, one piece at a time.
CopyPiece ==
    /\ copy.stage = "copy"
    /\ \/ /\ copy.at < Len(Body)
          /\ Written(Copier, Body[copy.at + 1])
          /\ copy' = [copy EXCEPT !.at = @ + 1]
          /\ UNCHANGED fileFaults
       \/ /\ copy.at >= Len(Body)
          /\ CopyGoto("sync")
          /\ UNCHANGED <<file, handle, fileFaults>>
       \/ FileFault /\ CopyGoto("close") /\ UNCHANGED <<file, handle>>

\* Sync does nothing for a cloud handle and may fail on a local file; Chmod is
\* best effort.
SyncDest ==
    /\ copy.stage = "sync"
    /\ \/ /\ copy' = [copy EXCEPT !.stage = "close", !.ok = TRUE]
          /\ UNCHANGED <<file, handle, fileFaults>>
       \/ /\ copy.dest \notin Cloud
          /\ FileFault
          /\ CopyGoto("close")
          /\ UNCHANGED <<file, handle>>

\* The deferred Close, whose error nobody looks at.
CloseDest ==
    /\ copy.stage = "close"
    /\ ClosedNow(Copier)
    /\ CopyGoto(IF copy.dest \in Cloud THEN "upload" ELSE "reported")
    /\ UNCHANGED <<file, fileFaults>>

UploadDest ==
    /\ copy.stage = "upload"
    /\ \/ Uploaded(Copier) /\ CopyGoto("reported") /\ UNCHANGED fileFaults
       \/ NotUploaded(Copier) /\ copy' = [copy EXCEPT !.stage = "reported", !.lost = TRUE]

CopyReturns ==
    /\ copy.stage = "reported"
    /\ copy' = NoCopy
    /\ handle' = [handle EXCEPT ![Copier] = Unused]
    /\ UNCHANGED <<file, fileFaults>>

CopyingFile == OpenSource \/ CreateDest \/ CopyPiece \/ SyncDest \/ CloseDest
           \/ UploadDest \/ CopyReturns

FileNext ==
    \/ \E source, dest \in FilePaths : CopyBegins(source, dest)
    \/ CopyingFile
    \/ \E h \in Others :
          \/ \E p \in FilePaths : OtherCreates(h, p)
          \/ \E x \in Data : OtherWritesOn(h, x)
          \/ \E n \in 0..MaxLen : OtherTruncates(h, n)
          \/ OtherCloses(h)
          \/ OtherUploads(h)

FileSpec == FileInit /\ [][FileNext]_fileVars
=============================================================================
