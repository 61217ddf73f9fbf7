------------------------------ MODULE MCCommands ------------------------------
(***************************************************************************)
(* Trees of two names: all that have two levels and two files, and one of  *)
(* three levels.  Commands name paths of up to two levels, a first, for    *)
(* the two names are alike; copies and other programs reach the third.     *)
(***************************************************************************)
EXTENDS CommandsProps, FiniteSets

CONSTANTS a, b

Short == {p \in Paths : Len(p) <= 2}
Some == Short \ {Root}
First == {p \in Some : p[1] = a}

WellFormed(t) ==
    /\ t[Root] = Dir
    /\ \A p \in Some : t[p] # Absent => t[Parent(p)] = Dir
    /\ Cardinality({p \in Some : t[p] = File}) = 2

ShortTrees == {t \in [Short -> {Absent, Dir, File}] : WellFormed(t)}

DeepTree == [p \in Paths |-> CASE p \in {Root, <<a>>, <<a, b>>, <<b>>} -> Dir
                               [] p \in {<<a, b, b>>, <<a, b, a>>, <<b, a>>} -> File
                               [] OTHER -> Absent]

MCTrees == {[p \in Paths |-> IF p \in Short THEN t[p] ELSE Absent] : t \in ShortTrees}
           \cup {DeepTree}

Command(op, recursive, force, args) ==
    [op |-> op, recursive |-> recursive, force |-> force, args |-> args]

MCCalls ==
    {Command("mv", FALSE, FALSE, <<p, q>>) : p \in First, q \in Short}
    \cup {Command("cp", r, FALSE, <<p, q>>) : r \in BOOLEAN, p \in First, q \in Short}
    \cup {Command("rm", r, f, <<p, q>>) :
              r \in BOOLEAN, f \in BOOLEAN, p \in {<<a>>, <<a, a>>}, q \in {<<a>>, <<b>>, <<b, b>>}}
=============================================================================
