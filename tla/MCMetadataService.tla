-------------------------- MODULE MCMetadataService --------------------------
(***************************************************************************)
(* Small instances of the metadata service.                                *)
(***************************************************************************)
EXTENDS MetadataServiceProps

AllOps == DOMAIN FirstStage
=============================================================================
