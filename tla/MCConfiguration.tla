--------------------------- MODULE MCConfiguration ---------------------------
(***************************************************************************)
(* Two paths that are searched, one of each format, and mount paths of     *)
(* which one starts with another without being below it.                   *)
(***************************************************************************)
EXTENDS ConfigurationProps, TLC

CONSTANTS c1, c2

MCOps == (c1 :> {"show", "validate", "path", "init", "create"}) @@ (c2 :> {"init"})
MCSearch == <<"finspect.yaml", "finspect.json">>
MCTexts == {"", ".", "/", "/data", "/data/x", "/database", "/data/", "$D", "${D:-/data}"}
MCLength == [t \in MCTexts |-> CASE t = "" -> 0 [] t \in {".", "/"} -> 1 [] t = "$D" -> 2
                                 [] t = "/data" -> 5 [] t = "/data/" -> 6 [] t = "/data/x" -> 7
                                 [] t = "/database" -> 9 [] OTHER -> 11]
MCAbove == {<<"/", "/">>, <<"/data", "/">>, <<"/data", "/data">>, <<"/database", "/">>,
            <<"/database", "/database">>, <<"/data/x", "/">>, <<"/data/x", "/data">>,
            <<"/data/x", "/data/x">>}
MCStartsWith == MCAbove \cup {<<"/database", "/data">>, <<"/data/x", "/data/">>}
                        \cup {<<t, "">> : t \in MCTexts}

Mounts(paths) == [i \in DOMAIN paths |-> [path |-> paths[i], type |-> "filesystem"]]
MCDocuments ==
    {[syntax |-> "yaml", says |-> [mounts |-> Mounts(<<"/data", "$D">>)]],
     [syntax |-> "yaml", says |-> [mounts |-> Mounts(<<"/", "/data/x", "/data">>), enabled |-> FALSE,
                                   port |-> 0, workdir |-> "${D:-/data}"]],
     [syntax |-> "json", says |-> [mounts |-> <<[path |-> "/database"]>>]]}
MCEnvironments ==
    {[value |-> "", settings |-> [concurrency |-> 0, enabled |-> TRUE]],
     [value |-> "/data", settings |-> [level |-> "loud", workdir |-> "$D"]]}
=============================================================================
