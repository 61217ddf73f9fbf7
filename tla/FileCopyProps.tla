----------------------------- MODULE FileCopyProps -----------------------------
(***************************************************************************)
(* What handles and copyFile promise: properties of module FileCopy.       *)
(***************************************************************************)
EXTENDS FileCopy

(***************************************************************************)
(* Nothing that Write acknowledged is missing from the upload: a handle is *)
(* closed for writing before its buffer is read.                           *)
(***************************************************************************)
WritesAreUploaded ==
    \A h \in Handles :
        handle[h].sent # Nothing => handle[h].sent = handle[h].buffer

(***************************************************************************)
(* When copyFile reports success, the copy is whole, unless source and     *)
(* destination are one file, somebody else wrote either, or the upload in  *)
(* the deferred Close failed.  No other failure goes unreported.           *)
(***************************************************************************)
SuccessIsWhole ==
    copy.stage = "reported" /\ copy.ok =>
        \/ copy.source = copy.dest
        \/ copy.disturbed
        \/ copy.lost
        \/ file[copy.dest] = file[copy.source]

=============================================================================
