-------------------------- MODULE MCMetadataSearch --------------------------
(***************************************************************************)
(* Two files, /a_b and /axb, of two adaptors: the prefix "/a_" as a LIKE   *)
(* pattern matches both.  The tag "R&D" is stored as "R\u0026D", of the     *)
(* words "R" and "u0026D", and the LIKE of a tag does not find it.  "port" *)
(* occurs in "report".                                                     *)
(***************************************************************************)
EXTENDS MetadataSearchProps, TLC

CONSTANTS f1, f2

MCWords == {"report", "port", "R", "D", "u0026D", "null", "axb"}
MCTags == {"report", "port", "R&D"}
MCTagWords == [t \in MCTags |-> IF t = "R&D" THEN {"R", "D"} ELSE {t}]
MCJSONWords == [t \in MCTags |-> IF t = "R&D" THEN {"R", "u0026D"} ELSE {t}]
MCRecords == {[desc |-> {}, tags |-> {}, size |-> 1, type |-> "text"],
            [desc |-> {"port"}, tags |-> {"report", "R&D"}, size |-> 2, type |-> "text"],
            [desc |-> {"report"}, tags |-> {"port"}, size |-> 2, type |-> "pdf"]}
MCContents == {{}, {"port"}}
MCAdaptor == f1 :> "s3" @@ f2 :> "disk"
MCPathWords == f1 :> {} @@ f2 :> {"axb"}
MCPrefixes == {"/a", "/a_"}
MCStartsWith == "/a" :> {f1, f2} @@ "/a_" :> {f1}
MCLike == "/a" :> {f1, f2} @@ "/a_" :> {f1, f2}
MCTagLike == [t \in MCTags |-> IF t = "R&D" THEN {} ELSE {t}]
MCOccurs ==
    [w \in MCWords |-> {w} \cup CASE w = "port" -> {"report"}
                                   [] w = "R" -> {"report", "port"}
                                   [] w = "D" -> {"u0026D"}
                                   [] OTHER -> {}]
IdSymmetry == Permutations(Ids)
=============================================================================
