------------------------------ MODULE MCFileCopy ------------------------------
(***************************************************************************)
(* A file of two pieces on the local disk and one that is not there yet on *)
(* an object store, copied either way while another handle writes.         *)
(***************************************************************************)
EXTENDS FileCopyProps

CONSTANTS disk, bucket, a

MCInitial == [p \in FilePaths |-> CASE p = disk -> <<a, Zero>> [] p = bucket -> Nothing]
=============================================================================
