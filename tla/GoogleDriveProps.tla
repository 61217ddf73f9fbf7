--------------------------- MODULE GoogleDriveProps ---------------------------
(***************************************************************************)
(* What the adaptor makes of Drive: properties of module GoogleDrive.      *)
(***************************************************************************)
EXTENDS GoogleDrive

\* The files of f (file now, or as it was) that a path names: each trail is a file for
\* every name, from the root on.
Trails(f, path) ==
    {t \in [0..Len(path) -> {Top} \cup Ids] :
        /\ t[0] = Top
        /\ \A n \in 1..Len(path) :
              t[n] \in Ids /\ f[t[n]] # Gone /\ f[t[n]].name = path[n] /\ f[t[n]].in = t[n - 1]}
Named(f, path) == {t[Len(path)] : t \in Trails(f, path)}

Twins(f, i, j) == i # j /\ f[i] # Gone /\ f[j] # Gone
                  /\ f[i].name = f[j].name /\ f[i].in = f[j].in
Unambiguous(f) == \A i, j \in Ids : ~Twins(f, i, j)

(***************************************************************************)
(* A second file of a name arises in these ways only.  Rename and Copy do  *)
(* not look at the new name.  A folder is created beside a file of its     *)
(* name, or when another call was in progress; a failed lookup is no       *)
(* reason, since folders are looked for again.  A file is created twice    *)
(* when another call was in progress, when the lookup failed, or when its  *)
(* path already named several files.                                       *)
(***************************************************************************)
TwinsExplained ==
    [][\A i, j \in Ids :
          Twins(file', i, j) /\ ~Twins(file, i, j) =>
              \E c \in Clients :
                  LET e == call[c] IN
                  \/ At(c, "move") \/ At(c, "copy")
                  \/ At(c, "make") /\ (~e.quiet \/ {i, j} \cap (There \ Folders) # {})
                  \/ At(c, "save") /\ (~e.quiet \/ ~e.sure \/ ~Unambiguous(e.was))]_vars

(***************************************************************************)
(* A call during which no other was in progress and no lookup failed, on a *)
(* drive where names are unique, does what its path says when it answers   *)
(* well: what it wrote is the one file of the path, what it removed is     *)
(* gone, what it moved or copied is at the new path.  (Mkdir is content    *)
(* with a file that is there already, and Copy to a path below the file it *)
(* copies makes a folder beside it.)                                       *)
(***************************************************************************)
AloneDoes ==
    \A c \in Clients :
        LET e == call[c]
            before == Named(e.was, e.at)
            now == Named(file, e.at)
            new == Named(file, e.to)
        IN
        At(c, "done") /\ e.ok /\ e.quiet /\ e.sure /\ Unambiguous(e.was) =>
            /\ e.op = "Write" => \E i \in There \ Folders : now = {i} /\ file[i].body = e.body
            /\ e.op \in {"Remove", "RemoveAll"} => now = {}
            /\ e.op = "Mkdir" => now # {} /\ now \subseteq Folders \cup before
            /\ e.op = "Rename" /\ e.to # Root => before \subseteq new /\ (e.to # e.at => before \cap now = {})
            /\ e.op = "Copy" /\ e.to # Root =>
                  /\ before = now \ Folders \/ e.to = e.at
                  /\ \E i \in new \ before : \A j \in before : file[i].body = file[j].body

(***************************************************************************)
(* And it touches nothing else: files that were there are as they were,    *)
(* but for the file it wrote or moved and what was below what it removed.  *)
(***************************************************************************)
AloneTouches ==
    \A c \in Clients :
        LET e == call[c]
            changed == {i \in Ids : e.was[i] # Gone /\ file[i] # e.was[i]}
        IN
        ~At(c, "idle") /\ e.quiet /\ e.sure /\ Unambiguous(e.was) =>
            CASE e.op \in {"Write", "Rename"} -> changed \subseteq Named(e.was, e.at)
              [] e.op \in {"Remove", "RemoveAll"} ->
                    changed \subseteq UNION {Under(e.was, i) : i \in Named(e.was, e.at)}
              [] OTHER -> changed = {}
=============================================================================
