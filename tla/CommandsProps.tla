----------------------------- MODULE CommandsProps -----------------------------
(***************************************************************************)
(* What mv, rm and cp promise: properties of module Commands.              *)
(***************************************************************************)
EXTENDS Commands

Content(p) == IF IsFile(p) THEN data[node[p]] ELSE node[p]

\* No other program changed p, or what is above or below it, since the command began.
Untouched(p) == \A q \in cmd.touched : ~IsPrefix(p, q) /\ ~IsPrefix(q, p)

AnsweredWell(op) == cmd.op = op /\ cmd.stage = "done" /\ cmd.code = "ok"

\* A step of the command, not of another program.
Steps == cmd' # cmd \/ node' # node
OwnStep == Steps /\ changes' = changes

(***************************************************************************)
(* mv looks whether its destination is free and renames later.  No step of *)
(* it loses a file but one: another program's file that came to the        *)
(* destination after mv had looked, or one that Stat failed to show.  No   *)
(* file loses its contents.                                                *)
(***************************************************************************)
MoveLosesOnlyNew ==
    [][cmd.op = "mv" /\ OwnStep =>
          /\ \A p \in Paths :
                IsFile(p) /\ node[p] \notin Range(node') =>
                    p = cmd.dest /\ p \in cmd.touched \cup cmd.missed
          /\ data' = data]_vars

(***************************************************************************)
(* A command changes nothing but what its arguments name: mv the two names *)
(* and what is below them, rm its arguments and only under -r what is      *)
(* below them, cp what is at and below its destination, and the            *)
(* directories above it that were missing.  Two ways out of it there are,  *)
(* both opened by another program: cp goes on writing to the file it has   *)
(* open, and rm -r in the directories it has open, where those are moved.  *)
(***************************************************************************)
OnlyWhatIsNamed ==
    [][OwnStep => \A p \in Paths : Content(p)' # Content(p) =>
          CASE cmd.op = "mv" -> \E q \in {Source, cmd.dest} : IsPrefix(q, p)
            [] cmd.op = "rm" -> \/ \E i \in DOMAIN cmd.args : p = cmd.args[i]
                                \/ /\ cmd.recursive
                                   /\ \/ \E i \in DOMAIN cmd.args : Below(cmd.args[i], p)
                                      \/ \E q \in cmd.touched : IsPrefix(q, p)
            [] cmd.op = "cp" -> \/ IsPrefix(cmd.dest, p)
                                \/ Below(p, cmd.dest) /\ ~Exists(p) /\ IsDir(p)'
                                \/ p \in cmd.touched /\ node[p] = cmd.out]_vars

(***************************************************************************)
(* When rm ends well its arguments are gone, though it went through them   *)
(* one by one and a tree entry by entry: unless another program put        *)
(* something there meanwhile, or, under -f, Stat failed on something that  *)
(* was there.                                                              *)
(***************************************************************************)
RemovedWhenWell ==
    AnsweredWell("rm") =>
        \A i \in DOMAIN cmd.args : LET p == cmd.args[i] IN
            Exists(p) => ~Untouched(p) \/ (cmd.force /\ p \in cmd.missed)

\* Where the copy of what is at p goes.
CopyOf(p) == Moved(Source, cmd.dest, p)

(***************************************************************************)
(* When cp ends well, every file of the source that no other program       *)
(* touched is at its place in the destination with the contents the source *)
(* has.  (Files in the destination are left out: cp may have made them     *)
(* itself or written over them, as when the destination is above the       *)
(* source.)  A directory is never copied below itself: cp lists what it    *)
(* has just made and goes down until a path is too long.                   *)
(***************************************************************************)
CopyIsWhole ==
    AnsweredWell("cp") =>
        /\ Below(Source, cmd.dest) => cmd.touched # {}
        /\ \A p \in Paths :
              /\ IsFile(p) /\ IsPrefix(Source, p) /\ ~IsPrefix(cmd.dest, p)
              /\ Untouched(p) /\ Untouched(CopyOf(p))
              => IsFile(CopyOf(p)) /\ Content(CopyOf(p)) = Content(p)

\* A directory that cp is about to copy was taken away or could not be looked at.
SourceGone == Top.source \in cmd.missed \/ ~Untouched(Top.source)

(***************************************************************************)
(* Every command ends, whatever the tree and however others change it, and *)
(* only cp panics, when a directory it is about to copy has gone.          *)
(***************************************************************************)
CommandsEnd ==
    <>(/\ cmd.stage = "done"
       /\ cmd.code = "panic" => cmd.op = "cp" /\ SourceGone)
=============================================================================
