------------------------------ MODULE MCRouter ------------------------------
(***************************************************************************)
(* Small instances of the router: the mount points "/", "/a" and "/a/b"    *)
(* (nested, so that the longest prefix matters), a local adaptor with      *)
(* every capability and an object store without links and permissions.     *)
(***************************************************************************)
EXTENDS RouterProps

CONSTANTS local, bucket

MCComponents == {"a", "b"}
MCPlaces == {<<>>, <<"a">>, <<"a", "b">>}
MCNames == {"/", "//", "/a", "/a/b/", "a"}
MCClean == [n \in MCNames |->
    CASE n \in {"/", "//"} -> <<>>
      [] n = "/a" -> <<"a">>
      [] n = "/a/b/" -> <<"a", "b">>
      [] OTHER -> Relative]
MCPathLen == [p \in MCPlaces |-> IF p = <<>> THEN 1 ELSE 2 * Len(p)]
MCAdaptors == {local, bucket}
MCCaps == [a \in MCAdaptors |->
    IF a = local THEN Capabilities ELSE {"CanWrite", "CanDelete", "CanMove"}]
=============================================================================
