-------------------------- MODULE ConfigurationProps --------------------------
(***************************************************************************)
(* What the configuration files and commands promise: properties of        *)
(* Configuration.                                                          *)
(***************************************************************************)
EXTENDS Configuration

CONSTANT Above   \* pairs <<t, u>> of clean paths such that u is t or above it

ASSUME AboveAssumption ==
    /\ Above \subseteq Texts \X Texts
    /\ \A t, u \in Texts : <<t, u>> \in Above => t = u \/ Length[u] < Length[t]
    /\ \A t, u, v \in Texts :
          <<t, u>> \in Above /\ <<t, v>> \in Above => <<u, v>> \in Above \/ <<v, u>> \in Above

(***************************************************************************)
(* "Configuration is valid" is true of the settings with the variables     *)
(* expanded.  What show displays fails validation only in mount paths that *)
(* were expanded and in settings the environment has replaced, or that it  *)
(* has made count, as the port when it turns the UI on.                    *)
(***************************************************************************)
SaysValidOnlyOfValid ==
    \A c \in Commands :
        LET e == command[c]
            set == DOMAIN e.env.settings
        IN
        At(c, "done") /\ e.ok =>
            /\ e.op = "validate" => Valid(e.cfg)
            /\ e.op = "show" =>
                  /\ \/ MountsValid(e.cfg.mounts)
                     \/ \E i \in DOMAIN e.cfg.mounts :
                           e.cfg.mounts[i].path \in {e.env.value, Blank}
                  /\ e.cfg.concurrency >= 1 \/ "concurrency" \in set
                  /\ e.cfg.level \in Levels \/ "level" \in set
                  /\ e.cfg.enabled => \/ e.cfg.port \in Ports
                                      \/ {"enabled", "port"} \cap set # {}

(***************************************************************************)
(* A search comes back with the first file in the order: no file before it *)
(* was there all the time, unless a Stat failed, not even one that cannot  *)
(* be loaded.  "No file" means that none was there all the time.           *)
(***************************************************************************)
FirstOfTheSearch ==
    \A c \in Commands :
        LET e == command[c]
            before == {i \in DOMAIN Search : \A j \in DOMAIN Search : Search[j] = e.from => i < j}
        IN
        At(c, "done") /\ e.op # "none" /\ ~e.named /\ ~e.missed =>
            \A i \in before : Search[i] \notin e.stayed

\* What a step keeps, for KeepsWhatIsThere.
Keeps ==
    \A c \in Commands :
        At(c, "create") /\ command'[c].stage = "write" /\ file[Looking(c)] # Absent =>
            command[c].force \/ command[c].touched \/ command[c].missed

(***************************************************************************)
(* init without --force, and LoadOrCreate, empty a file only if it came    *)
(* after they looked, or if they could not look.                           *)
(***************************************************************************)
KeepsWhatIsThere == [][Keeps]_vars

(***************************************************************************)
(* As long as only finspect has written a file and nobody died while it    *)
(* did, the file has all of the defaults, or nothing, whenever nobody is   *)
(* writing it, however many have written it at once.  LoadOrCreate of such *)
(* a YAML path that ends without a system call failing gives the defaults, *)
(* also when another has just emptied the file: nothing is a YAML document *)
(* that says nothing.  It may fail, or give something else, only if it     *)
(* read while another had written a part.                                  *)
(***************************************************************************)
CreatesTogether ==
    faults = 0 =>
        /\ \A p \in Paths \ strange :
              Writers(p) = {} => file[p] \in {Absent, EmptyFile, DefaultFile(p)}
        /\ \A c \in Commands :
              LET e == command[c] IN
              At(c, "done") /\ e.op = "create" /\ Looking(c) \notin strange \cup Json /\ ~e.amid =>
                  e.ok /\ e.cfg = Default

(***************************************************************************)
(* GetMount finds the mount that the router would take, the longest above  *)
(* the path, if every mount path is clean and none ends within a name of   *)
(* the path.                                                               *)
(***************************************************************************)
GetMountAgrees ==
    \A c \in Commands : command[c].cfg # NoConfig =>
        LET mounts == command[c].cfg.mounts
            MountPath(i) == mounts[i].path
            Owning(path) == {i \in DOMAIN mounts : <<path, MountPath(i)>> \in Above}
            Owners(path) == {i \in Owning(path) : \A j \in Owning(path) :
                                <<MountPath(i), MountPath(j)>> \in Above}
        IN
        \A path \in {pair[1] : pair \in Above} :
            /\ MountsValid(mounts)
            /\ \A i \in DOMAIN mounts :
                  <<path, MountPath(i)>> \in StartsWith <=> <<path, MountPath(i)>> \in Above
            => IF Owners(path) = {} THEN GetMount(mounts, path) = 0
               ELSE GetMount(mounts, path) \in Owners(path)
=============================================================================
