----------------------------- MODULE CommandsProofs -----------------------------
(***************************************************************************)
(* Proofs about the commands: mv, rm and cp over any tree, for any         *)
(* arguments, changes by others and failures; and below them file handles  *)
(* and copyFile, for any files, local or on an object store, any number of *)
(* handles, and writes of any length.                                      *)
(***************************************************************************)
EXTENDS CommandsProps, FileCopyProps, SequenceTheorems, TLAPS

(***************************************************************************)
(* mv, rm and cp.                                                          *)
(***************************************************************************)
Frames == [source : Seq(Names), dest : Seq(Names),
           todo : SUBSET [name : Names, isDir : BOOLEAN]]

Stages == {"source", "dest", "under", "rename", "stat", "remove", "removeAll", "destOfDir", "look",
           "mkdir", "list", "entries", "open", "create", "fill", "done"}

Cmds == [op : {"mv", "rm", "cp"}, recursive : BOOLEAN, force : BOOLEAN, args : Seq(Paths),
         stage : Stages, dest : Seq(Names), dirs : Seq(Frames), from : Seq(Names), to : Seq(Names),
         in : Files, out : Files, code : {"ok", "error", "panic"}, next : Nat,
         top : Paths, held : SUBSET Paths, touched : SUBSET Paths, missed : SUBSET Paths]

Contents == Paths \cup {Empty, Part, New}

Typed ==
    /\ node \in [Paths -> {Absent, Dir} \cup Files]
    /\ data \in [Files -> Contents]
    /\ cmd \in Cmds
    /\ cmd.args # <<>> /\ cmd.next \in DOMAIN cmd.args
    /\ cmd.op # "rm" => Source # Root
    /\ changes \in 0..MaxChanges /\ faults \in Nat

\* A file is at one path only, and a path is there with those above it.
Tree ==
    /\ \A p, q \in Paths : IsFile(p) /\ node[p] = node[q] => p = q
    /\ \A p, q \in Paths : Below(q, p) /\ Exists(p) => IsDir(q)

\* The stages of cp: before it copies, in copyDirectory, and in copyFile.
Early == {"source", "dest", "destOfDir"}
Looking == {"look", "mkdir", "list", "entries"}
Filing == {"open", "create", "fill"}

StageFits ==
    /\ cmd.op = "mv" => cmd.stage \in {"source", "dest", "under", "rename", "done"}
    /\ cmd.op = "rm" => cmd.stage \in {"stat", "remove", "removeAll", "done"}
    /\ cmd.op = "cp" => cmd.stage \in Early \cup Looking \cup Filing \cup {"done"}
    /\ cmd.stage = "removeAll" => cmd.recursive
    /\ cmd.stage # "fill" /\ cmd.stage # "done" => cmd.out = NoFile
    /\ cmd.stage # "removeAll" /\ cmd.stage # "done" => cmd.held = {}

\* mv: what is at its destination came after it had looked, or did not show.
Moves == cmd.op = "mv" /\ cmd.stage = "rename" /\ Exists(cmd.dest) =>
             cmd.dest \in cmd.touched \cup cmd.missed

\* rm: the arguments it has dealt with are gone.
Gone(p) == Exists(p) => ~Untouched(p) \/ (cmd.force /\ p \in cmd.missed)

\* RemoveAll works in its argument, or where others have put it or a part of it.
Strayed(p) == \E q \in cmd.touched : IsPrefix(q, p)

Follows ==
    cmd.stage = "removeAll" =>
        /\ cmd.top = Arg \/ (Strayed(cmd.top) /\ ~Untouched(Arg))
        /\ \A h \in cmd.held : Strayed(h)

Removes ==
    cmd.op = "rm" /\ cmd.code = "ok" =>
        \A i \in DOMAIN cmd.args : i < cmd.next \/ cmd.stage = "done" => Gone(cmd.args[i])

-----------------------------------------------------------------------------
Levels == 1..Len(cmd.dirs)

\* cp: what it is to copy where.
Paired(source, dest) == IsPrefix(Source, source) /\ dest = CopyOf(source)

Pairs ==
    cmd.op = "cp" =>
        /\ \A i \in Levels : Paired(cmd.dirs[i].source, cmd.dirs[i].dest)
        /\ cmd.stage \in Early => cmd.dirs = <<>>
        /\ cmd.stage \in Looking => cmd.dirs # <<>>
        /\ cmd.stage \in Filing =>
              /\ Paired(cmd.from, cmd.to)
              /\ cmd.dirs = <<>> => cmd.from = Source
        /\ cmd.stage = "fill" =>
              /\ \A p \in Paths : node[p] = cmd.out => p = cmd.to \/ p \in cmd.touched
              /\ cmd.to \in Paths /\ (cmd.to \notin cmd.touched => node[cmd.to] = cmd.out)

\* What Stat told of the source still holds, if nobody touched it.
Sourced ==
    cmd.op = "cp" /\ Source \notin cmd.touched =>
        /\ cmd.stage = "dest" \/ (cmd.stage \in {"open", "create"} /\ cmd.dirs = <<>>) => IsFile(Source)
        /\ cmd.stage = "destOfDir" => IsDir(Source)

\* A file that cp is to copy, and nobody else has to do with.
Owed(p) ==
    /\ IsFile(p) /\ IsPrefix(Source, p) /\ ~IsPrefix(cmd.dest, p)
    /\ Untouched(p) /\ Untouched(CopyOf(p))

\* Its copy is there and holds what it holds.
Copied(p) == IsFile(CopyOf(p)) /\ Content(CopyOf(p)) = Content(p)

\* A listing that cp goes through has p, or a directory that p is in.
Listing(p) ==
    \E i \in Levels : \E e \in cmd.dirs[i].todo :
        LET s == Append(cmd.dirs[i].source, e.name) IN
        IF e.isDir THEN IsPrefix(s, p) ELSE s = p

\* Still to be copied.
Ahead(p) ==
    \/ cmd.stage \in {"look", "mkdir", "list"} /\ IsPrefix(Top.source, p)
    \/ cmd.stage \in Filing /\ cmd.from = p
    \/ cmd.stage # "done" /\ Listing(p)

\* Nothing of the source is forgotten, and what is being copied is what is in the source.
Copies ==
    cmd.op = "cp" =>
        /\ cmd.code = "ok" /\ cmd.stage \notin Early =>
              \A p \in Paths : Owed(p) => Copied(p) \/ Ahead(p)
        /\ cmd.stage \in {"create", "fill"} => (Owed(cmd.from) => cmd.in = node[cmd.from])

\* cp below itself: the names from the source to the destination.
Grown == SubSeq(cmd.dest, Len(Source) + 1, Len(cmd.dest))

\* In a directory of a listing that cp goes through.
Inside(p) ==
    \E i \in Levels : \E e \in cmd.dirs[i].todo :
        e.isDir /\ IsPrefix(Append(cmd.dirs[i].source, e.name), p)

\* A directory that cp will still come to, and make one more below it, its own copy.
Deeper(p) ==
    /\ IsDir(p) /\ IsPrefix(Source, p) /\ CopyOf(p) = p \o Grown
    /\ \/ cmd.stage \in {"look", "mkdir"} /\ IsPrefix(Top.source, p)
       \/ cmd.stage = "list" /\ Below(Top.source, p)
       \/ Inside(p)

\* A copy below itself does not end well, for there is always more to copy.
Endless ==
    cmd.op = "cp" /\ Below(Source, cmd.dest) /\ cmd.touched = {} /\ cmd.code = "ok" =>
        /\ cmd.stage # "done"
        /\ cmd.dirs = <<>> => cmd.stage # "fill"
        /\ cmd.dirs # <<>> => \E p \in Paths : Deeper(p)

IInv == /\ Typed /\ Tree /\ StageFits /\ Moves /\ Follows /\ Removes
        /\ Pairs /\ Sourced /\ Copies /\ Endless

-----------------------------------------------------------------------------
\* Paths are sequences of names; which of them is above which.
LEMMA PathIs == \A p : p \in Paths <=> p \in Seq(Names) /\ Len(p) <= MaxDepth
BY CommandsAssumption, SeqDef DEF Paths

LEMMA PrefixIs ==
    ASSUME NEW s \in Seq(Names), NEW t \in Seq(Names)
    PROVE  /\ Len(s) \in Nat /\ Len(t) \in Nat
           /\ IsPrefix(s, t) <=> Len(s) <= Len(t) /\ \A i \in 1..Len(s) : s[i] = t[i]
<1>1. Len(s) \in Nat /\ Len(t) \in Nat
  OBVIOUS
<1>2. SubSeq(s, 1, Len(s)) = s
  OBVIOUS
<1>3. ASSUME Len(s) <= Len(t)
      PROVE  s = SubSeq(t, 1, Len(s)) <=> \A i \in 1..Len(s) : s[i] = t[i]
  <2>1. /\ Len(SubSeq(t, 1, Len(s))) = Len(s) /\ SubSeq(t, 1, Len(s)) \in Seq(Names)
        /\ \A i \in 1..Len(s) : SubSeq(t, 1, Len(s))[i] = t[i]
    BY <1>1, <1>3, SubSeqProperties
  <2> QED
    BY <2>1, SeqEqual
<1> QED
  BY <1>1, <1>2, <1>3 DEF IsPrefix

LEMMA PrefixOrder ==
    ASSUME NEW s \in Seq(Names), NEW t \in Seq(Names)
    PROVE  /\ IsPrefix(s, s) /\ IsPrefix(<<>>, s)
           /\ IsPrefix(s, t) /\ IsPrefix(t, s) => s = t
           /\ IsPrefix(s, t) => Len(s) <= Len(t) /\ (Len(s) = Len(t) => s = t)
           /\ \A u \in Seq(Names) :
                 /\ IsPrefix(s, t) /\ IsPrefix(t, u) => IsPrefix(s, u)
                 /\ IsPrefix(s, u) /\ IsPrefix(t, u) => IsPrefix(s, t) \/ IsPrefix(t, s)
<1>1. \A u, v \in Seq(Names) :
         /\ Len(u) \in Nat
         /\ IsPrefix(u, v) <=> Len(u) <= Len(v) /\ \A i \in 1..Len(u) : u[i] = v[i]
  BY PrefixIs
<1>2. IsPrefix(s, s) /\ IsPrefix(<<>>, s)
  <2>1. <<>> \in Seq(Names) /\ Len(<<>>) = 0
    BY EmptySeq
  <2>2. IsPrefix(s, s)
    BY <1>1
  <2>3. IsPrefix(<<>>, s) <=> Len(<<>>) <= Len(s) /\ \A i \in 1..Len(<<>>) : <<>>[i] = s[i]
    BY <1>1, <2>1
  <2>4. Len(s) \in Nat /\ 1..0 = {}
    BY <1>1
  <2> QED
    BY <2>1, <2>2, <2>3, <2>4
<1>3. IsPrefix(s, t) => Len(s) <= Len(t) /\ (Len(s) = Len(t) => s = t)
  BY <1>1, SeqEqual
<1>4. IsPrefix(s, t) /\ IsPrefix(t, s) => s = t
  BY <1>1, <1>3
<1>5. ASSUME NEW u \in Seq(Names), IsPrefix(s, t), IsPrefix(t, u) PROVE IsPrefix(s, u)
  BY <1>1, <1>5
<1>6. ASSUME NEW u \in Seq(Names), IsPrefix(s, u), IsPrefix(t, u) PROVE IsPrefix(s, t) \/ IsPrefix(t, s)
  BY <1>1, <1>6
<1> QED
  BY <1>2, <1>3, <1>4, <1>5, <1>6

LEMMA AppendIs ==
    ASSUME NEW s \in Seq(Names), NEW n \in Names
    PROVE  /\ Append(s, n) \in Seq(Names) /\ Append(s, n) # <<>> /\ Len(Append(s, n)) = Len(s) + 1
           /\ \A i \in 1..Len(s) : Append(s, n)[i] = s[i]
           /\ Append(s, n)[Len(s) + 1] = n
           /\ Below(s, Append(s, n))
           /\ \A t \in Seq(Names) : IsPrefix(t, Append(s, n)) <=> IsPrefix(t, s) \/ t = Append(s, n)
<1> DEFINE a == Append(s, n)
<1>1. /\ a \in Seq(Names) /\ a # <<>> /\ Len(a) = Len(s) + 1 /\ Len(s) \in Nat
      /\ \A i \in 1..Len(s) : a[i] = s[i]
      /\ a[Len(s) + 1] = n
  BY AppendProperties
<1> HIDE DEF a
<1>2. IsPrefix(s, a) /\ s # a
  BY <1>1, PrefixIs
<1>3. ASSUME NEW t \in Seq(Names) PROVE IsPrefix(t, a) <=> IsPrefix(t, s) \/ t = a
  <2>1. CASE Len(t) = Len(a)
    BY <1>1, <2>1, PrefixIs, PrefixOrder
  <2>2. CASE Len(t) # Len(a)
    <3>1. Len(t) \in Nat /\ t # a
      BY <2>2
    <3> QED
      BY <1>1, <2>2, <3>1, PrefixIs
  <2> QED
    BY <2>1, <2>2
<1> QED
  BY <1>1, <1>2, <1>3 DEF a, Below, IsStrictPrefix

\* Of what is below s, the path goes through an entry of s.
LEMMA EntryOf ==
    ASSUME NEW s \in Seq(Names), NEW t \in Seq(Names), Below(s, t)
    PROVE  t[Len(s) + 1] \in Names /\ IsPrefix(Append(s, t[Len(s) + 1]), t)
<1>1. Len(s) \in Nat /\ Len(t) \in Nat /\ Len(s) < Len(t) /\ \A i \in 1..Len(s) : s[i] = t[i]
  BY PrefixIs, PrefixOrder DEF Below, IsStrictPrefix
<1>2. t[Len(s) + 1] \in Names
  BY <1>1, ElementOfSeq
<1> DEFINE a == Append(s, t[Len(s) + 1])
<1>3. /\ a \in Seq(Names) /\ Len(a) = Len(s) + 1
      /\ \A i \in 1..Len(s) : a[i] = s[i]
      /\ a[Len(s) + 1] = t[Len(s) + 1]
  BY <1>2, AppendIs
<1> HIDE DEF a
<1>4. IsPrefix(a, t) <=> Len(a) <= Len(t) /\ \A i \in 1..Len(a) : a[i] = t[i]
  BY <1>3, PrefixIs
<1>5. \A i \in 1..Len(a) : i \in 1..Len(s) \/ i = Len(s) + 1
  BY <1>1, <1>3
<1> QED
  BY <1>1, <1>2, <1>3, <1>4, <1>5 DEF a

LEMMA ParentIs ==
    ASSUME NEW t \in Seq(Names), t # <<>>
    PROVE  /\ Parent(t) \in Seq(Names) /\ Len(Parent(t)) = Len(t) - 1 /\ Below(Parent(t), t)
           /\ \A s \in Seq(Names) : Below(s, t) <=> IsPrefix(s, Parent(t))
<1>1. Len(t) \in Nat /\ Len(t) # 0
  BY EmptySeq
<1>2. /\ Parent(t) \in Seq(Names) /\ Len(Parent(t)) = Len(t) - 1
      /\ \A i \in 1..Len(t) - 1 : Parent(t)[i] = t[i]
  <2>1. \A i \in 1..Len(t) - 1 : t[i] \in Names
    BY <1>1, ElementOfSeq
  <2>2. 1 \in Int /\ Len(t) - 1 \in Int
    BY <1>1
  <2>3. /\ SubSeq(t, 1, Len(t) - 1) \in Seq(Names)
        /\ Len(SubSeq(t, 1, Len(t) - 1)) = IF 1 <= Len(t) - 1 THEN Len(t) - 1 - 1 + 1 ELSE 0
        /\ \A i \in 1..Len(t) - 1 - 1 + 1 : SubSeq(t, 1, Len(t) - 1)[i] = t[1 + i - 1]
    BY <2>1, <2>2, SubSeqProperties
  <2>4. Len(t) - 1 - 1 + 1 = Len(t) - 1 /\ \A i \in 1..Len(t) - 1 : 1 + i - 1 = i
    BY <1>1
  <2>5. Parent(t) = SubSeq(t, 1, Len(t) - 1)
    BY DEF Parent, Front
  <2> QED
    BY <1>1, <2>3, <2>4, <2>5
<1>3. Below(Parent(t), t)
  BY <1>1, <1>2, PrefixIs DEF Below, IsStrictPrefix
<1>4. ASSUME NEW s \in Seq(Names) PROVE Below(s, t) <=> IsPrefix(s, Parent(t))
  <2>1. CASE Len(s) <= Len(t) - 1
    <3>1. s # t
      BY <1>1, <2>1
    <3>2. IsPrefix(s, Parent(t)) <=> Len(s) <= Len(t) - 1 /\ \A i \in 1..Len(s) : s[i] = Parent(t)[i]
      BY <1>2, PrefixIs
    <3>3. IsPrefix(s, t) <=> Len(s) <= Len(t) /\ \A i \in 1..Len(s) : s[i] = t[i]
      BY PrefixIs
    <3>4. Len(s) \in Nat /\ \A i \in 1..Len(s) : i \in 1..Len(t) - 1
      BY <1>1, <2>1
    <3> QED
      BY <1>1, <1>2, <2>1, <3>1, <3>2, <3>3, <3>4 DEF Below, IsStrictPrefix
  <2>2. CASE ~(Len(s) <= Len(t) - 1)
    BY <1>1, <1>2, <2>2, PrefixIs, PrefixOrder DEF Below, IsStrictPrefix
  <2> QED
    BY <2>1, <2>2
<1> QED
  BY <1>2, <1>3, <1>4

LEMMA BelowIs ==
    ASSUME NEW s \in Seq(Names), NEW t \in Seq(Names)
    PROVE  /\ Below(s, t) <=> IsPrefix(s, t) /\ s # t
           /\ Below(s, t) => ~IsPrefix(t, s)
           /\ t \in Paths /\ IsPrefix(s, t) => s \in Paths
BY PrefixOrder, PathIs, PrefixIs, CommandsAssumption DEF Below, IsStrictPrefix

\* Where what is below p is found when p goes to q.
LEMMA MovedIs ==
    ASSUME NEW p \in Seq(Names), NEW q \in Seq(Names), NEW s \in Seq(Names), IsPrefix(p, s)
    PROVE  /\ Moved(p, q, s) \in Seq(Names) /\ Len(Moved(p, q, s)) = Len(q) + Len(s) - Len(p)
           /\ Len(p) \in Nat /\ Len(q) \in Nat /\ Len(s) \in Nat /\ Len(p) <= Len(s)
           /\ \A i \in 1..Len(q) : Moved(p, q, s)[i] = q[i]
           /\ \A i \in Len(q) + 1..Len(q) + Len(s) - Len(p) :
                 Moved(p, q, s)[i] = s[i - Len(q) + Len(p)]
           /\ IsPrefix(q, Moved(p, q, s))
<1> DEFINE r == SubSeq(s, Len(p) + 1, Len(s))
<1> DEFINE m == Moved(p, q, s)
<1>1. Len(p) \in Nat /\ Len(q) \in Nat /\ Len(s) \in Nat /\ Len(p) <= Len(s)
  BY PrefixIs
<1>2. /\ r \in Seq(Names) /\ Len(r) = Len(s) - Len(p)
      /\ \A i \in 1..Len(s) - Len(p) : r[i] = s[i + Len(p)]
  <2>1. \A i \in Len(p) + 1..Len(s) : s[i] \in Names
    BY <1>1, ElementOfSeq
  <2>2. Len(p) + 1 \in Int /\ Len(s) \in Int
    BY <1>1
  <2> QED
    BY <1>1, <2>1, <2>2, SubSeqProperties
<1> HIDE DEF r
<1>3. /\ m \in Seq(Names) /\ Len(m) = Len(q) + Len(r)
      /\ \A i \in 1..Len(q) + Len(r) : m[i] = IF i <= Len(q) THEN q[i] ELSE r[i - Len(q)]
  BY <1>2, ConcatProperties DEF Moved, r
<1> HIDE DEF m
<1>4. ASSUME NEW i \in 1..Len(q) PROVE m[i] = q[i]
  <2>1. i \in 1..Len(q) + Len(r) /\ i <= Len(q)
    BY <1>1, <1>2
  <2> QED
    BY <1>3, <2>1
<1>5. ASSUME NEW i \in Len(q) + 1..Len(q) + Len(s) - Len(p) PROVE m[i] = s[i - Len(q) + Len(p)]
  <2>1. i - Len(q) \in 1..Len(s) - Len(p) /\ i \in 1..Len(q) + Len(r) /\ ~(i <= Len(q))
    BY <1>1, <1>2
  <2>2. i - Len(q) + Len(p) = (i - Len(q)) + Len(p)
    BY <1>1
  <2> QED
    BY <1>2, <1>3, <2>1, <2>2
<1>6. IsPrefix(q, m)
  BY <1>1, <1>2, <1>3, <1>4, PrefixIs
<1> QED
  BY <1>1, <1>2, <1>3, <1>4, <1>5, <1>6 DEF m

LEMMA MovedBack ==
    ASSUME NEW p \in Seq(Names), NEW q \in Seq(Names), NEW s \in Seq(Names), IsPrefix(p, s)
    PROVE  /\ Moved(q, p, Moved(p, q, s)) = s
           /\ Moved(p, q, p) = q
<1> DEFINE m == Moved(p, q, s)
<1> DEFINE b == Moved(q, p, m)
<1>1. /\ m \in Seq(Names) /\ Len(m) = Len(q) + Len(s) - Len(p) /\ IsPrefix(q, m)
      /\ Len(p) \in Nat /\ Len(q) \in Nat /\ Len(s) \in Nat /\ Len(p) <= Len(s)
      /\ \A i \in Len(q) + 1..Len(q) + Len(s) - Len(p) : m[i] = s[i - Len(q) + Len(p)]
  BY MovedIs
<1> HIDE DEF m
<1>2. /\ b \in Seq(Names) /\ Len(b) = Len(p) + Len(m) - Len(q)
      /\ \A i \in 1..Len(p) : b[i] = p[i]
      /\ \A i \in Len(p) + 1..Len(p) + Len(m) - Len(q) : b[i] = m[i - Len(p) + Len(q)]
  BY <1>1, MovedIs
<1> HIDE DEF b
<1>3. \A i \in 1..Len(p) : p[i] = s[i]
  BY PrefixIs
<1>4. ASSUME NEW i \in 1..Len(s) PROVE b[i] = s[i]
  <2>1. CASE i <= Len(p)
    BY <1>1, <1>2, <1>3, <2>1
  <2>2. CASE ~(i <= Len(p))
    <3> DEFINE j == i - Len(p) + Len(q)
    <3>1. /\ i \in Len(p) + 1..Len(p) + Len(m) - Len(q)
          /\ j \in Len(q) + 1..Len(q) + Len(s) - Len(p)
          /\ j - Len(q) + Len(p) = i
      BY <1>1, <2>2
    <3>2. b[i] = m[j]
      BY <1>2, <3>1
    <3>3. m[j] = s[j - Len(q) + Len(p)]
      BY <1>1, <3>1
    <3> QED
      BY <3>1, <3>2, <3>3
  <2> QED
    BY <2>1, <2>2
<1>5. b = s
  <2>1. Len(b) = Len(s)
    BY <1>1, <1>2
  <2> QED
    BY <1>2, <1>4, <2>1, SeqEqual
<1>6. Moved(p, q, p) = q
  <2>1. IsPrefix(p, p)
    BY PrefixOrder
  <2>2. /\ Moved(p, q, p) \in Seq(Names) /\ Len(Moved(p, q, p)) = Len(q)
        /\ \A i \in 1..Len(q) : Moved(p, q, p)[i] = q[i]
    <3>1. Len(q) + Len(p) - Len(p) = Len(q)
      BY <1>1
    <3> QED
      BY <2>1, <3>1, MovedIs
  <2> QED
    BY <2>2, SeqEqual
<1> QED
  BY <1>5, <1>6 DEF m, b

LEMMA MovedAppend ==
    ASSUME NEW p \in Seq(Names), NEW q \in Seq(Names), NEW s \in Seq(Names), IsPrefix(p, s),
           NEW n \in Names
    PROVE  Moved(p, q, Append(s, n)) = Append(Moved(p, q, s), n)
<1> DEFINE a == Append(s, n)
<1> DEFINE x == Moved(p, q, a)
<1> DEFINE y == Append(Moved(p, q, s), n)
<1>1. /\ a \in Seq(Names) /\ Len(a) = Len(s) + 1 /\ IsPrefix(p, a)
      /\ \A i \in 1..Len(s) : a[i] = s[i]
      /\ a[Len(s) + 1] = n
  BY AppendIs
<1> HIDE DEF a
<1>2. /\ Moved(p, q, s) \in Seq(Names) /\ Len(Moved(p, q, s)) = Len(q) + Len(s) - Len(p)
      /\ Len(p) \in Nat /\ Len(q) \in Nat /\ Len(s) \in Nat /\ Len(p) <= Len(s)
      /\ \A i \in 1..Len(q) : Moved(p, q, s)[i] = q[i]
      /\ \A i \in Len(q) + 1..Len(q) + Len(s) - Len(p) : Moved(p, q, s)[i] = s[i - Len(q) + Len(p)]
  BY MovedIs
<1>3. /\ x \in Seq(Names) /\ Len(x) = Len(q) + Len(a) - Len(p)
      /\ \A i \in 1..Len(q) : x[i] = q[i]
      /\ \A i \in Len(q) + 1..Len(q) + Len(a) - Len(p) : x[i] = a[i - Len(q) + Len(p)]
  BY <1>1, MovedIs
<1>4. /\ y \in Seq(Names) /\ Len(y) = Len(q) + Len(s) - Len(p) + 1
      /\ \A i \in 1..Len(q) + Len(s) - Len(p) : y[i] = Moved(p, q, s)[i]
      /\ y[Len(q) + Len(s) - Len(p) + 1] = n
  <2> DEFINE m == Moved(p, q, s)
  <2>1. m \in Seq(Names) /\ Len(m) = Len(q) + Len(s) - Len(p)
    BY <1>2
  <2> HIDE DEF m
  <2>2. /\ Append(m, n) \in Seq(Names) /\ Len(Append(m, n)) = Len(m) + 1
        /\ \A i \in 1..Len(m) : Append(m, n)[i] = m[i]
        /\ Append(m, n)[Len(m) + 1] = n
    BY <2>1, AppendIs
  <2> QED
    BY <2>1, <2>2 DEF m
<1> HIDE DEF x, y
<1>5. ASSUME NEW i \in 1..Len(x) PROVE x[i] = y[i]
  <2>1. CASE i <= Len(q)
    BY <1>1, <1>2, <1>3, <1>4, <2>1
  <2>2. CASE Len(q) < i /\ i < Len(x)
    <3>1. /\ i \in Len(q) + 1..Len(q) + Len(a) - Len(p)
          /\ i \in Len(q) + 1..Len(q) + Len(s) - Len(p)
          /\ i \in 1..Len(q) + Len(s) - Len(p)
          /\ i - Len(q) + Len(p) \in 1..Len(s)
      BY <1>1, <1>2, <1>3, <2>2
    <3> QED
      BY <1>1, <1>2, <1>3, <1>4, <3>1
  <2>3. CASE i = Len(x)
    <3>1. /\ i \in Len(q) + 1..Len(q) + Len(a) - Len(p)
          /\ i - Len(q) + Len(p) = Len(s) + 1
          /\ i = Len(q) + Len(s) - Len(p) + 1
      BY <1>1, <1>2, <1>3, <2>3
    <3>2. x[i] = a[i - Len(q) + Len(p)]
      BY <1>3, <3>1
    <3> QED
      BY <1>1, <1>4, <3>1, <3>2
  <2>4. Len(x) \in Nat /\ Len(q) \in Nat /\ Len(q) + 1 <= Len(x)
    BY <1>1, <1>2, <1>3
  <2>5. i <= Len(q) \/ (Len(q) < i /\ i < Len(x)) \/ i = Len(x)
    BY <2>4
  <2> QED
    BY <2>1, <2>2, <2>3, <2>5
<1>6. Len(x) = Len(y)
  BY <1>1, <1>2, <1>3, <1>4
<1>7. x = y
  BY <1>3, <1>4, <1>5, <1>6, SeqEqual
<1> QED
  BY <1>7 DEF x, y, a

\* Paths that are moved stay in their order.
LEMMA MovedOrder ==
    ASSUME NEW p \in Seq(Names), NEW q \in Seq(Names), NEW s \in Seq(Names), NEW t \in Seq(Names),
           IsPrefix(p, s), IsPrefix(p, t)
    PROVE  Moved(p, q, s) = Moved(p, q, t) => s = t
BY MovedBack

LEMMA MovedAbove ==
    ASSUME NEW p \in Seq(Names), NEW q \in Seq(Names), NEW s \in Seq(Names), NEW t \in Seq(Names),
           IsPrefix(p, s), IsPrefix(p, t), IsPrefix(t, s)
    PROVE  IsPrefix(Moved(p, q, t), Moved(p, q, s))
<1> DEFINE x == Moved(p, q, t)
<1> DEFINE y == Moved(p, q, s)
<1>1. /\ x \in Seq(Names) /\ Len(x) = Len(q) + Len(t) - Len(p)
      /\ Len(p) \in Nat /\ Len(q) \in Nat /\ Len(t) \in Nat /\ Len(p) <= Len(t)
      /\ \A i \in 1..Len(q) : x[i] = q[i]
      /\ \A i \in Len(q) + 1..Len(q) + Len(t) - Len(p) : x[i] = t[i - Len(q) + Len(p)]
  BY MovedIs
<1>2. /\ y \in Seq(Names) /\ Len(y) = Len(q) + Len(s) - Len(p) /\ Len(s) \in Nat
      /\ \A i \in 1..Len(q) : y[i] = q[i]
      /\ \A i \in Len(q) + 1..Len(q) + Len(s) - Len(p) : y[i] = s[i - Len(q) + Len(p)]
  BY MovedIs
<1> HIDE DEF x, y
<1>3. Len(t) <= Len(s) /\ \A i \in 1..Len(t) : t[i] = s[i]
  BY PrefixIs
<1>4. ASSUME NEW i \in 1..Len(x) PROVE x[i] = y[i]
  <2>1. CASE i <= Len(q)
    BY <1>1, <1>2, <2>1
  <2>2. CASE ~(i <= Len(q))
    <3>1. /\ i \in Len(q) + 1..Len(q) + Len(t) - Len(p)
          /\ i \in Len(q) + 1..Len(q) + Len(s) - Len(p)
          /\ i - Len(q) + Len(p) \in 1..Len(t)
      BY <1>1, <1>2, <1>3, <2>2
    <3> QED
      BY <1>1, <1>2, <1>3, <3>1
  <2> QED
    BY <2>1, <2>2
<1>5. Len(x) <= Len(y)
  BY <1>1, <1>2, <1>3
<1> QED
  BY <1>1, <1>2, <1>4, <1>5, PrefixIs DEF x, y

-----------------------------------------------------------------------------
\* What is at a path, and the file that is made there.
LEMMA FilesAre ==
    /\ Absent # Dir /\ Absent \notin Files /\ Dir \notin Files
    /\ Root \in Paths /\ Root \in Seq(Names) /\ NoFile \in Files
    /\ \A f \in Files : f[1] \in Paths
    /\ \A p \in Paths : p \in Seq(Names)
<1>1. Absent # Dir /\ Absent \notin Files /\ Dir \notin Files
  BY CommandsAssumption
<1>2. Root \in Paths /\ Root \in Seq(Names)
  <2>1. <<>> \in Seq(Names) /\ Len(<<>>) = 0 /\ 0 <= MaxDepth
    BY CommandsAssumption, EmptySeq
  <2> QED
    BY <2>1, PathIs DEF Root
<1>3. 0 \in 0..MaxChanges + 1
  BY CommandsAssumption
<1> QED
  BY <1>1, <1>2, <1>3, PathIs DEF Files, NoFile

LEMMA CmdIs ==
    ASSUME cmd \in Cmds
    PROVE  /\ cmd.op \in {"mv", "rm", "cp"} /\ cmd.recursive \in BOOLEAN /\ cmd.force \in BOOLEAN
           /\ cmd.args \in Seq(Paths) /\ cmd.stage \in Stages
           /\ cmd.dest \in Seq(Names) /\ cmd.dirs \in Seq(Frames)
           /\ cmd.from \in Seq(Names) /\ cmd.to \in Seq(Names) /\ cmd.in \in Files /\ cmd.out \in Files
           /\ cmd.code \in {"ok", "error", "panic"} /\ cmd.next \in Nat
           /\ cmd.top \in Paths /\ cmd.held \subseteq Paths
           /\ cmd.touched \subseteq Paths /\ cmd.missed \subseteq Paths
BY DEF Cmds

LEMMA ArgsAre ==
    ASSUME Typed
    PROVE  /\ Source \in Paths /\ Source \in Seq(Names)
           /\ Arg \in Paths /\ Arg \in Seq(Names)
           /\ \A i \in DOMAIN cmd.args : cmd.args[i] \in Paths /\ cmd.args[i] \in Seq(Names)
           /\ cmd.op # "rm" => Last(Source) \in Names
<1>1. cmd.args \in Seq(Paths) /\ cmd.args # <<>> /\ cmd.next \in DOMAIN cmd.args
  BY CmdIs DEF Typed
<1>2. \A i \in DOMAIN cmd.args : cmd.args[i] \in Paths /\ cmd.args[i] \in Seq(Names)
  BY <1>1, FilesAre
<1>3. 1 \in DOMAIN cmd.args
  BY <1>1, EmptySeq
<1>4. Source \in Paths /\ Source \in Seq(Names) /\ Arg \in Paths /\ Arg \in Seq(Names)
  BY <1>1, <1>2, <1>3 DEF Source, Arg
<1>5. ASSUME cmd.op # "rm" PROVE Last(Source) \in Names
  <2>1. Source # <<>>
    BY <1>5 DEF Typed, Root
  <2>2. Len(Source) \in 1..Len(Source)
    BY <1>4, <2>1, EmptySeq
  <2> QED
    BY <1>4, <2>2, ElementOfSeq DEF Last
<1> QED
  BY <1>2, <1>4, <1>5

LEMMA KindIs ==
    ASSUME Typed, NEW p \in Paths
    PROVE  /\ node[p] \in {Absent, Dir} \cup Files
           /\ Exists(p) <=> node[p] # Absent
           /\ IsDir(p) <=> node[p] = Dir
           /\ IsFile(p) <=> node[p] \in Files
BY FilesAre DEF Typed, Exists, IsDir, IsFile

LEMMA FileForIs ==
    ASSUME Typed, Tree, NEW p \in Paths, MayCreate(p)
    PROVE  /\ FileFor(p) \in Files
           /\ IsFile(p) => FileFor(p) = node[p]
           /\ ~IsFile(p) => FileFor(p) \notin {cmd.in, cmd.out}
           /\ \A q \in Paths : node[q] = FileFor(p) => q = p
<1>1. CASE IsFile(p)
  BY <1>1, KindIs DEF FileFor, Tree
<1>2. CASE ~IsFile(p)
  <2>1. FileFor(p) \in Free(p)
    BY <1>2 DEF FileFor, MayCreate
  <2>2. \A q \in Paths : node[q] \in Range(node)
    BY DEF Range, Typed
  <2> QED
    BY <1>2, <2>1, <2>2 DEF Free
<1> QED
  BY <1>1, <1>2

\* The directories above a path are there with it.
LEMMA AboveIs ==
    ASSUME Typed, Tree, NEW p \in Paths, NEW q \in Seq(Names), IsPrefix(q, p), Exists(p)
    PROVE  q \in Paths /\ (q # p => IsDir(q)) /\ Exists(q)
<1>1. q \in Paths
  BY BelowIs, FilesAre
<1>2. q # p => IsDir(q)
  BY <1>1, BelowIs, FilesAre DEF Tree
<1> QED
  BY <1>1, <1>2, KindIs, FilesAre

-----------------------------------------------------------------------------
\* The stack of copyDirectory.
LEMMA FrameIs ==
    ASSUME NEW s \in Seq(Names), NEW d \in Seq(Names)
    PROVE  /\ Frame(s, d) \in Frames
           /\ Frame(s, d).source = s /\ Frame(s, d).dest = d /\ Frame(s, d).todo = {}
           /\ <<Frame(s, d)>> \in Seq(Frames) /\ Len(<<Frame(s, d)>>) = 1
           /\ <<Frame(s, d)>>[1] = Frame(s, d)
<1>1. Frame(s, d) \in Frames
  BY DEF Frame, Frames
<1>2. Frame(s, d).source = s /\ Frame(s, d).dest = d /\ Frame(s, d).todo = {}
  BY DEF Frame
<1> QED
  BY <1>1, <1>2

LEMMA TopIs ==
    ASSUME cmd \in Cmds, cmd.dirs # <<>>
    PROVE  /\ Len(cmd.dirs) \in Nat \ {0} /\ Len(cmd.dirs) \in Levels
           /\ Levels = 1..Len(cmd.dirs)
           /\ Top = cmd.dirs[Len(cmd.dirs)]
           /\ Top \in Frames
           /\ Top.source \in Seq(Names) /\ Top.dest \in Seq(Names)
           /\ Top.todo \subseteq [name : Names, isDir : BOOLEAN]
<1>1. cmd.dirs \in Seq(Frames)
  BY CmdIs
<1>2. Len(cmd.dirs) \in Nat \ {0} /\ Len(cmd.dirs) \in Levels
  BY <1>1, EmptySeq DEF Levels
<1>3. Top = cmd.dirs[Len(cmd.dirs)] /\ Top \in Frames
  BY <1>1, <1>2, ElementOfSeq DEF Top, Last, Levels
<1> QED
  BY <1>2, <1>3 DEF Frames, Levels

LEMMA LevelIs ==
    ASSUME cmd \in Cmds, NEW i \in Levels
    PROVE  /\ cmd.dirs[i] \in Frames
           /\ cmd.dirs[i].source \in Seq(Names) /\ cmd.dirs[i].dest \in Seq(Names)
           /\ cmd.dirs[i].todo \subseteq [name : Names, isDir : BOOLEAN]
<1>1. cmd.dirs[i] \in Frames
  BY CmdIs, ElementOfSeq DEF Levels
<1> QED
  BY <1>1 DEF Frames

\* D is the stack with x to do in its top frame.
WithTop(D, x) ==
    /\ D \in Seq(Frames) /\ Len(D) = Len(cmd.dirs) /\ D # <<>>
    /\ \A i \in Levels : /\ i # Len(cmd.dirs) => D[i] = cmd.dirs[i]
                        /\ D[i].source = cmd.dirs[i].source
                        /\ D[i].dest = cmd.dirs[i].dest
    /\ D[Len(cmd.dirs)].todo = x

LEMMA TopWith ==
    ASSUME cmd \in Cmds, cmd.dirs # <<>>, NEW x \in SUBSET [name : Names, isDir : BOOLEAN],
           NEW D, D = [cmd.dirs EXCEPT ![Len(cmd.dirs)].todo = x]
    PROVE  WithTop(D, x)
<1> DEFINE n == Len(cmd.dirs)
<1> DEFINE f == [cmd.dirs[n] EXCEPT !.todo = x]
<1>1. n \in 1..Len(cmd.dirs) /\ cmd.dirs \in Seq(Frames) /\ cmd.dirs[n] \in Frames
  BY TopIs, CmdIs DEF Levels
<1>2. /\ f \in Frames /\ f.todo = x
      /\ f.source = cmd.dirs[n].source /\ f.dest = cmd.dirs[n].dest
  BY <1>1 DEF Frames
<1>3. D = [cmd.dirs EXCEPT ![n] = f]
  OBVIOUS
<1> HIDE DEF f
<1>4. /\ D \in Seq(Frames) /\ Len(D) = Len(cmd.dirs)
      /\ \A j \in 1..Len(cmd.dirs) : D[j] = IF j = n THEN f ELSE cmd.dirs[j]
  BY <1>1, <1>2, <1>3, ExceptSeq
<1>5. D # <<>>
  BY <1>1, <1>4
<1> QED
  BY <1>1, <1>2, <1>4, <1>5 DEF Levels, WithTop

LEMMA Pushed ==
    ASSUME NEW D \in Seq(Frames), NEW f \in Frames
    PROVE  /\ Append(D, f) \in Seq(Frames) /\ Len(Append(D, f)) = Len(D) + 1 /\ Append(D, f) # <<>>
           /\ \A i \in 1..Len(D) : Append(D, f)[i] = D[i]
           /\ Append(D, f)[Len(D) + 1] = f
BY AppendProperties

LEMMA Popped ==
    ASSUME NEW D \in Seq(Frames), D # <<>>
    PROVE  /\ Front(D) \in Seq(Frames) /\ Len(Front(D)) = Len(D) - 1 /\ Len(D) \in Nat \ {0}
           /\ \A i \in 1..Len(D) - 1 : Front(D)[i] = D[i]
           /\ Len(D) # 1 => Front(D) # <<>>
<1>1. Len(D) \in Nat \ {0}
  BY EmptySeq
<1>2. \A i \in 1..Len(D) - 1 : D[i] \in Frames
  BY <1>1, ElementOfSeq
<1>3. 1 \in Int /\ Len(D) - 1 \in Int
  BY <1>1
<1>4. /\ SubSeq(D, 1, Len(D) - 1) \in Seq(Frames)
      /\ Len(SubSeq(D, 1, Len(D) - 1)) = IF 1 <= Len(D) - 1 THEN Len(D) - 1 - 1 + 1 ELSE 0
      /\ \A i \in 1..Len(D) - 1 - 1 + 1 : SubSeq(D, 1, Len(D) - 1)[i] = D[1 + i - 1]
  BY <1>2, <1>3, SubSeqProperties
<1>5. Len(D) - 1 - 1 + 1 = Len(D) - 1 /\ \A i \in 1..Len(D) - 1 : 1 + i - 1 = i
  BY <1>1
<1>6. /\ Front(D) \in Seq(Frames) /\ Len(Front(D)) = Len(D) - 1
      /\ \A i \in 1..Len(D) - 1 : Front(D)[i] = D[i]
  BY <1>1, <1>4, <1>5 DEF Front
<1> QED
  BY <1>1, <1>6

LEMMA ListedIs ==
    ASSUME NEW p \in Seq(Names)
    PROVE  /\ Listed(p) \subseteq [name : Names, isDir : BOOLEAN]
           /\ \A n \in Names : Exists(Append(p, n)) =>
                 \E e \in Listed(p) : e.name = n /\ (e.isDir <=> IsDir(Append(p, n)))
<1>1. \A q : IsDir(q) \in BOOLEAN
  BY DEF IsDir
<1>2. Listed(p) \subseteq [name : Names, isDir : BOOLEAN]
  BY <1>1 DEF Listed, Entries
<1>3. ASSUME NEW n \in Names, Exists(Append(p, n))
      PROVE  \E e \in Listed(p) : e.name = n /\ (e.isDir <=> IsDir(Append(p, n)))
  <2> DEFINE e == [name |-> n, isDir |-> IsDir(Append(p, n))]
  <2>1. e \in Listed(p)
    BY <1>3 DEF Listed, Entries
  <2> QED
    BY <2>1
<1> QED
  BY <1>2, <1>3

-----------------------------------------------------------------------------
\* What no step changes.
Kept == /\ cmd'.op = cmd.op /\ cmd'.args = cmd.args
        /\ cmd'.recursive = cmd.recursive /\ cmd'.force = cmd.force

LEMMA KeptStep ==
    ASSUME cmd \in Cmds, Next
    PROVE  Kept
<1> USE DEF Kept, Cmds
<1>1. CASE StatSource
  BY <1>1 DEF StatSource, At, Goto, Exit, Quietly
<1>2. CASE MoveStatDest
  BY <1>2 DEF MoveStatDest, At, Exit, Quietly
<1>3. CASE MoveStatUnder
  BY <1>3 DEF MoveStatUnder, At, Exit, Quietly
<1>4. CASE MoveRename
  BY <1>4 DEF MoveRename, At, Exit, Fails
<1>5. CASE RemoveStat
  BY <1>5 DEF RemoveStat, RemoveIt, At, Exit, NextArg, Quietly
<1>6. CASE RemoveOne
  BY <1>6 DEF RemoveOne, At, Exit, NextArg, Fails
<1>7. CASE RemoveBelow
  BY <1>7 DEF RemoveBelow, At
<1>8. CASE RemoveTop
  BY <1>8 DEF RemoveTop, At, Exit, NextArg, Fails
<1>9. CASE CopyStatDest
  BY <1>9 DEF CopyStatDest, At, Quietly
<1>10. CASE CopyStatDestOfDir
  BY <1>10 DEF CopyStatDestOfDir, At, Exit, Quietly
<1>11. CASE CopyLook
  BY <1>11 DEF CopyLook, At, Goto, Quietly
<1>12. CASE CopyMkdir
  BY <1>12 DEF CopyMkdir, At, Goto, Exit, Fails
<1>13. CASE CopyList
  BY <1>13 DEF CopyList, At, Exit, Quietly
<1>14. CASE CopyEntry
  BY <1>14 DEF CopyEntry, At, Quietly
<1>15. CASE CopyLeave
  BY <1>15 DEF CopyLeave, At, Quietly
<1>16. CASE CopyOpen
  BY <1>16 DEF CopyOpen, At, Exit, Quietly
<1>17. CASE CopyCreate
  BY <1>17 DEF CopyCreate, At, Exit, Fails
<1>18. CASE CopyFill
  BY <1>18 DEF CopyFill, At, Exit
<1>19. CASE Meddling
  BY <1>19 DEF Meddling, OtherWrites, OtherMakes, OtherRemoves, OtherMoves, Change
<1>20. CASE Ended
  BY <1>20 DEF Ended, vars
<1> QED
  BY <1>1, <1>2, <1>3, <1>4, <1>5, <1>6, <1>7, <1>8, <1>9, <1>10, <1>11,
     <1>12, <1>13, <1>14, <1>15, <1>16, <1>17, <1>18, <1>19, <1>20
  DEF Next, Moving, Removing, Copying

\* Types.
LEMMA StagesAre ==
    /\ "source" \in Stages /\ "dest" \in Stages /\ "under" \in Stages
    /\ "rename" \in Stages /\ "stat" \in Stages
    /\ "remove" \in Stages /\ "removeAll" \in Stages /\ "destOfDir" \in Stages
    /\ "look" \in Stages /\ "mkdir" \in Stages /\ "list" \in Stages
    /\ "entries" \in Stages
    /\ "open" \in Stages /\ "create" \in Stages /\ "fill" \in Stages /\ "done" \in Stages
BY DEF Stages

CmdTyped ==
    /\ cmd' \in Cmds
    /\ cmd'.next = cmd.next \/ (cmd'.next = cmd.next + 1 /\ cmd.next # Len(cmd.args))

RestTyped ==
    /\ node' \in [Paths -> {Absent, Dir} \cup Files] /\ data' \in [Files -> Contents]
    /\ changes' \in 0..MaxChanges /\ faults' \in Nat

LEMMA TypedIs ==
    ASSUME Typed, Next, CmdTyped, RestTyped
    PROVE  Typed'
<1>1. Kept
  BY KeptStep DEF Typed
<1>2. Source' = Source
  BY <1>1 DEF Source, Kept
<1>3. cmd.args \in Seq(Paths) /\ cmd.next \in DOMAIN cmd.args
  BY CmdIs DEF Typed
<1>4. cmd'.next \in DOMAIN cmd.args
  <2>1. DOMAIN cmd.args = 1..Len(cmd.args) /\ Len(cmd.args) \in Nat
    BY <1>3
  <2> QED
    BY <1>3, <2>1 DEF CmdTyped
<1> QED
  BY <1>1, <1>2, <1>4 DEF Typed, Kept, CmdTyped, RestTyped

LEMMA ExitIs ==
    ASSUME cmd \in Cmds, NEW c \in {"ok", "error", "panic"}, Exit(c)
    PROVE  CmdTyped
BY StagesAre DEF Exit, Cmds, CmdTyped

LEMMA GotoIs ==
    ASSUME cmd \in Cmds, NEW x \in Stages, Goto(x)
    PROVE  CmdTyped
BY DEF Goto, Cmds, CmdTyped

LEMMA NextArgIs ==
    ASSUME cmd \in Cmds, NEW c \in {"ok", "error", "panic"}, NEW m \in SUBSET Paths, NextArg(c, m)
    PROVE  CmdTyped
<1>1. CASE cmd.next = Len(cmd.args)
  BY <1>1, StagesAre DEF NextArg, Cmds, CmdTyped
<1>2. CASE cmd.next # Len(cmd.args)
  <2>1. cmd.next + 1 \in Nat
    BY CmdIs
  <2>2. cmd' = [cmd EXCEPT !.stage = "stat", !.code = c, !.missed = m, !.held = {},
                           !.next = cmd.next + 1]
    BY <1>2 DEF NextArg
  <2>3. cmd' \in Cmds
    BY <2>1, <2>2, StagesAre DEF Cmds
  <2>4. cmd'.next = cmd.next + 1
    BY <2>2 DEF Cmds
  <2> QED
    BY <1>2, <2>3, <2>4 DEF CmdTyped
<1> QED
  BY <1>1, <1>2

LEMMA MissingIs ==
    ASSUME cmd \in Cmds, NEW p
    PROVE  Missing(p) \in SUBSET Paths
BY CmdIs DEF Missing, Exists

LEMMA WithinIs ==
    ASSUME Typed, cmd.op # "rm", NEW p \in Seq(Names)
    PROVE  Within(p) \in Seq(Names)
BY ArgsAre, AppendIs DEF Within

LEMMA FaultIs ==
    ASSUME Typed
    PROVE  /\ Fault => faults' \in Nat
           /\ \A p : SeemsAbsent(p) => faults' \in Nat
           /\ UNCHANGED faults => faults' \in Nat
BY DEF Typed, Fault, SeemsAbsent

LEMMA QuietIs ==
    ASSUME Typed, Quietly, faults' \in Nat
    PROVE  RestTyped
BY DEF Typed, Quietly, RestTyped

LEMMA TypedMoving ==
    ASSUME IInv, Next, Moving
    PROVE  Typed'
<1>1. Typed /\ cmd \in Cmds /\ node \in [Paths -> {Absent, Dir} \cup Files] /\ data \in [Files -> Contents]
      /\ changes \in 0..MaxChanges
  BY DEF IInv, Typed
<1>2. CASE StatSource
  <2>1. CmdTyped
    <3>1. CASE Exit("error")
      BY <1>1, <3>1, ExitIs
    <3>2. CASE Goto("destOfDir") \/ Goto("dest")
      BY <1>1, <3>2, GotoIs, StagesAre
    <3> QED
      BY <1>2, <3>1, <3>2 DEF StatSource
  <2>2. RestTyped
    BY <1>1, <1>2, FaultIs, QuietIs DEF StatSource
  <2> QED
    BY <1>1, <2>1, <2>2, TypedIs
<1>3. CASE MoveStatDest
  <2>1. Within(cmd.dest) \in Seq(Names) /\ Missing(cmd.dest) \in SUBSET Paths
    BY <1>1, <1>3, WithinIs, MissingIs, CmdIs DEF MoveStatDest, At
  <2>2. CmdTyped
    <3>1. CASE Exit("error")
      BY <1>1, <3>1, ExitIs
    <3>2. CASE cmd' = [cmd EXCEPT !.stage = "under", !.dest = Within(@)]
      BY <1>1, <2>1, <3>2, StagesAre DEF Cmds, CmdTyped
    <3>3. CASE cmd' = [cmd EXCEPT !.stage = "rename", !.missed = Missing(cmd.dest)]
      BY <1>1, <2>1, <3>3, StagesAre DEF Cmds, CmdTyped
    <3> QED
      BY <1>3, <3>1, <3>2, <3>3 DEF MoveStatDest
  <2>3. RestTyped
    BY <1>1, <1>3, FaultIs, QuietIs DEF MoveStatDest
  <2> QED
    BY <1>1, <2>2, <2>3, TypedIs
<1>4. CASE MoveStatUnder
  <2>1. CmdTyped
    <3>1. CASE Exit("error")
      BY <1>1, <3>1, ExitIs
    <3>2. CASE cmd' = [cmd EXCEPT !.stage = "rename", !.missed = Missing(cmd.dest)]
      BY <1>1, <3>2, MissingIs, StagesAre DEF Cmds, CmdTyped
    <3> QED
      BY <1>4, <3>1, <3>2 DEF MoveStatUnder
  <2>2. RestTyped
    BY <1>1, <1>4, FaultIs, QuietIs DEF MoveStatUnder
  <2> QED
    BY <1>1, <2>1, <2>2, TypedIs
<1>5. CASE MoveRename
  <2>1. CmdTyped
    BY <1>1, <1>5, ExitIs DEF MoveRename, Fails
  <2>2. Renamed(Source, cmd.dest) \in [Paths -> {Absent, Dir} \cup Files]
    BY <1>1 DEF Renamed
  <2>3. node' \in [Paths -> {Absent, Dir} \cup Files] /\ data' = data /\ changes' = changes
    BY <1>1, <1>5, <2>2 DEF MoveRename, Fails
  <2>4. faults' \in Nat
    BY <1>1, <1>5, FaultIs DEF MoveRename, Fails
  <2>5. RestTyped
    BY <1>1, <2>3, <2>4 DEF RestTyped
  <2> QED
    BY <1>1, <2>1, <2>5, TypedIs
<1> QED
  BY <1>2, <1>3, <1>4, <1>5 DEF Moving

LEMMA TypedRemoving ==
    ASSUME IInv, Next, Removing
    PROVE  Typed'
<1>1. Typed /\ cmd \in Cmds /\ node \in [Paths -> {Absent, Dir} \cup Files] /\ data \in [Files -> Contents]
      /\ changes \in 0..MaxChanges /\ cmd.missed \in SUBSET Paths /\ cmd.code \in {"ok", "error", "panic"}
  BY CmdIs DEF IInv, Typed
<1>2. Exit("error") \/ RemoveIt => CmdTyped
  <2>1. RemoveIt => CmdTyped
    BY <1>1, ArgsAre, StagesAre DEF RemoveIt, Cmds, CmdTyped
  <2> QED
    BY <1>1, <2>1, ExitIs
<1>3. NextArg(cmd.code, cmd.missed) \/ NextArg("error", cmd.missed) \/ NextArg(cmd.code, Missing(Arg)) => CmdTyped
  <2>1. Missing(Arg) \in SUBSET Paths
    BY <1>1, MissingIs
  <2> QED
    BY <1>1, <2>1, NextArgIs
<1>4. CASE RemoveStat
  <2>1. CmdTyped
    BY <1>2, <1>3, <1>4 DEF RemoveStat
  <2>2. RestTyped
    BY <1>1, <1>4, FaultIs, QuietIs DEF RemoveStat
  <2> QED
    BY <1>1, <2>1, <2>2, TypedIs
<1>5. CASE RemoveOne
  <2>1. CmdTyped
    BY <1>2, <1>3, <1>5 DEF RemoveOne, Fails
  <2>2. node' \in [Paths -> {Absent, Dir} \cup Files] /\ data' = data /\ changes' = changes
    BY <1>1, <1>5 DEF RemoveOne, Fails
  <2>3. faults' \in Nat
    BY <1>1, <1>5, FaultIs DEF RemoveOne, Fails
  <2>4. RestTyped
    BY <1>1, <2>2, <2>3 DEF RestTyped
  <2> QED
    BY <1>1, <2>1, <2>4, TypedIs
<1>6. CASE RemoveBelow
  <2>1. RestTyped
    BY <1>1, <1>6 DEF RemoveBelow, RestTyped, Typed
  <2>2. CmdTyped
    BY <1>1, <1>6 DEF RemoveBelow, CmdTyped
  <2> QED
    BY <1>1, <2>1, <2>2, TypedIs
<1>7. CASE RemoveTop
  <2>1. CmdTyped
    BY <1>2, <1>3, <1>7 DEF RemoveTop, Fails
  <2>2. node' \in [Paths -> {Absent, Dir} \cup Files] /\ data' = data /\ changes' = changes
    BY <1>1, <1>7 DEF RemoveTop, Fails
  <2>3. faults' \in Nat
    BY <1>1, <1>7, FaultIs DEF RemoveTop, Fails
  <2>4. RestTyped
    BY <1>1, <2>2, <2>3 DEF RestTyped
  <2> QED
    BY <1>1, <2>1, <2>4, TypedIs
<1> QED
  BY <1>4, <1>5, <1>6, <1>7 DEF Removing

LEMMA TypedCopyingDirs ==
    ASSUME IInv, Next,
           CopyStatDest \/ CopyStatDestOfDir \/ CopyLook \/ CopyMkdir \/ CopyList \/ CopyEntry \/ CopyLeave
    PROVE  Typed'
<1>1. Typed /\ cmd \in Cmds /\ node \in [Paths -> {Absent, Dir} \cup Files] /\ data \in [Files -> Contents]
      /\ changes \in 0..MaxChanges /\ cmd.dest \in Seq(Names) /\ cmd.dirs \in Seq(Frames)
      /\ Source \in Seq(Names)
  BY CmdIs, ArgsAre DEF IInv, Typed
<1>2. Exit("error") \/ Goto("mkdir") \/ Goto("list") => CmdTyped
  BY <1>1, ExitIs, GotoIs, StagesAre
<1>3. \A p : Missing(p) \in SUBSET Paths
  BY <1>1, MissingIs
<1>4. CASE CopyStatDest
  <2> DEFINE d == IF IsDir(cmd.dest) THEN Within(cmd.dest) ELSE cmd.dest
  <2>1. d \in Seq(Names)
    BY <1>1, <1>4, WithinIs DEF CopyStatDest, At
  <2> HIDE DEF d
  <2>2. CmdTyped
    <3>1. CASE cmd' = [cmd EXCEPT !.stage = "open", !.dest = d, !.from = Source, !.to = d]
      BY <1>1, <2>1, <3>1, StagesAre DEF Cmds, CmdTyped
    <3>2. CASE cmd' = [cmd EXCEPT !.stage = "open", !.from = Source, !.to = cmd.dest,
                                  !.missed = Missing(cmd.dest)]
      BY <1>1, <1>3, <3>2, StagesAre DEF Cmds, CmdTyped
    <3> QED
      BY <1>4, <3>1, <3>2 DEF CopyStatDest, d
  <2>3. RestTyped
    BY <1>1, <1>4, FaultIs, QuietIs DEF CopyStatDest
  <2> QED
    BY <1>1, <2>2, <2>3, TypedIs
<1>5. CASE CopyStatDestOfDir
  <2> DEFINE D == <<Frame(Source, cmd.dest)>>
  <2>1. D \in Seq(Frames)
    BY <1>1, FrameIs
  <2> HIDE DEF D
  <2>2. CmdTyped
    <3>1. CASE Exit("error")
      BY <1>2, <3>1
    <3>2. CASE cmd' = [cmd EXCEPT !.stage = "look", !.dirs = D]
      BY <1>1, <2>1, <3>2, StagesAre DEF Cmds, CmdTyped
    <3>3. CASE cmd' = [cmd EXCEPT !.stage = "look", !.dirs = D, !.missed = Missing(cmd.dest)]
      BY <1>1, <1>3, <2>1, <3>3, StagesAre DEF Cmds, CmdTyped
    <3> QED
      BY <1>5, <3>1, <3>2, <3>3 DEF CopyStatDestOfDir, D
  <2>3. RestTyped
    BY <1>1, <1>5, FaultIs, QuietIs DEF CopyStatDestOfDir
  <2> QED
    BY <1>1, <2>2, <2>3, TypedIs
<1>6. CASE CopyLook
  <2>1. CmdTyped
    <3>1. CASE Goto("mkdir")
      BY <1>2, <3>1
    <3>2. CASE cmd' = [cmd EXCEPT !.stage = "done", !.code = "panic", !.missed = Missing(Top.source)]
      BY <1>1, <1>3, <3>2, StagesAre DEF Cmds, CmdTyped
    <3> QED
      BY <1>6, <3>1, <3>2 DEF CopyLook
  <2>2. RestTyped
    BY <1>1, <1>6, FaultIs, QuietIs DEF CopyLook
  <2> QED
    BY <1>1, <2>1, <2>2, TypedIs
<1>7. CASE CopyMkdir
  <2>1. CmdTyped
    BY <1>2, <1>7 DEF CopyMkdir, Fails
  <2>2. MadeAll(Top.dest) \in [Paths -> {Absent, Dir} \cup Files]
    BY <1>1 DEF MadeAll
  <2>3. node' \in [Paths -> {Absent, Dir} \cup Files] /\ data' = data /\ changes' = changes
    BY <1>1, <1>7, <2>2 DEF CopyMkdir, Fails
  <2>4. faults' \in Nat
    BY <1>1, <1>7, FaultIs DEF CopyMkdir, Fails
  <2>5. RestTyped
    BY <1>1, <2>3, <2>4 DEF RestTyped
  <2> QED
    BY <1>1, <2>1, <2>5, TypedIs
<1>8. CASE CopyList
  <2> DEFINE D == [cmd.dirs EXCEPT ![Len(cmd.dirs)].todo = Listed(Top.source)]
  <2>1. D \in Seq(Frames)
    <3>1. cmd.dirs # <<>>
      BY <1>8 DEF CopyList, At, IInv, Pairs, Looking
    <3>2. Listed(Top.source) \in SUBSET [name : Names, isDir : BOOLEAN]
      BY <1>1, <3>1, TopIs, ListedIs
    <3> QED
      BY <1>1, <3>1, <3>2, TopWith DEF WithTop
  <2>2. CmdTyped
    <3>1. CASE Exit("error")
      BY <1>2, <3>1
    <3>2. CASE cmd' = [cmd EXCEPT !.stage = "entries", !.dirs[Len(cmd.dirs)].todo = Listed(Top.source)]
      <4>1. cmd' = [cmd EXCEPT !.stage = "entries", !.dirs = D]
        BY <3>2
      <4> HIDE DEF D
      <4> QED
        BY <1>1, <2>1, <4>1, StagesAre DEF Cmds, CmdTyped
    <3> QED
      BY <1>8, <3>1, <3>2 DEF CopyList
  <2>3. RestTyped
    BY <1>1, <1>8, FaultIs, QuietIs DEF CopyList
  <2> QED
    BY <1>1, <2>2, <2>3, TypedIs
<1>9. CASE CopyEntry
  <2>1. cmd.dirs # <<>>
    BY <1>9 DEF CopyEntry, At, IInv, Pairs, Looking
  <2>2. PICK e \in Top.todo :
           cmd' = IF e.isDir
                  THEN [cmd EXCEPT !.stage = "look", !.dirs =
                           Append(Rest(e), Frame(Append(Top.source, e.name), Append(Top.dest, e.name)))]
                  ELSE [cmd EXCEPT !.stage = "open", !.dirs = Rest(e),
                           !.from = Append(Top.source, e.name), !.to = Append(Top.dest, e.name)]
    BY <1>9 DEF CopyEntry
  <2> DEFINE s == Append(Top.source, e.name)
  <2> DEFINE d == Append(Top.dest, e.name)
  <2> DEFINE D == Rest(e)
  <2> DEFINE P == Append(D, Frame(s, d))
  <2>3. s \in Seq(Names) /\ d \in Seq(Names) /\ D \in Seq(Frames)
    <3>1. Top.todo \ {e} \in SUBSET [name : Names, isDir : BOOLEAN]
      BY <1>1, <2>1, TopIs
    <3>2. e.name \in Names
      BY <1>1, <2>1, TopIs
    <3>3. D = [cmd.dirs EXCEPT ![Len(cmd.dirs)].todo = Top.todo \ {e}]
      BY DEF Rest, Top, Last
    <3> QED
      BY <1>1, <2>1, <3>1, <3>2, <3>3, TopIs, TopWith, AppendIs DEF WithTop
  <2>4. P \in Seq(Frames)
    BY <2>3, FrameIs, Pushed
  <2>5. cmd' = IF e.isDir THEN [cmd EXCEPT !.stage = "look", !.dirs = P]
               ELSE [cmd EXCEPT !.stage = "open", !.dirs = D, !.from = s, !.to = d]
    BY <2>2
  <2> HIDE DEF s, d, D, P
  <2>6. CmdTyped
    <3>1. CASE e.isDir
      BY <1>1, <2>4, <2>5, <3>1, StagesAre DEF Cmds, CmdTyped
    <3>2. CASE ~e.isDir
      BY <1>1, <2>3, <2>5, <3>2, StagesAre DEF Cmds, CmdTyped
    <3> QED
      BY <3>1, <3>2
  <2>7. RestTyped
    BY <1>1, <1>9, FaultIs, QuietIs DEF CopyEntry
  <2> QED
    BY <1>1, <2>6, <2>7, TypedIs
<1>10. CASE CopyLeave
  <2> DEFINE D == Front(cmd.dirs)
  <2>1. D \in Seq(Frames)
    BY <1>1, <1>10, Popped DEF CopyLeave, At, IInv, Pairs, Looking
  <2>2. cmd' = IF Len(cmd.dirs) = 1 THEN [cmd EXCEPT !.stage = "done"] ELSE [cmd EXCEPT !.dirs = D]
    BY <1>10 DEF CopyLeave
  <2> HIDE DEF D
  <2>3. CmdTyped
    BY <1>1, <2>1, <2>2, StagesAre DEF Cmds, CmdTyped
  <2>4. RestTyped
    BY <1>1, <1>10, FaultIs, QuietIs DEF CopyLeave
  <2> QED
    BY <1>1, <2>3, <2>4, TypedIs
<1> QED
  BY <1>4, <1>5, <1>6, <1>7, <1>8, <1>9, <1>10

LEMMA TypedCopyingFile ==
    ASSUME IInv, Next, CopyOpen \/ CopyCreate \/ CopyFill
    PROVE  Typed'
<1>1. Typed /\ cmd \in Cmds /\ node \in [Paths -> {Absent, Dir} \cup Files] /\ data \in [Files -> Contents]
      /\ changes \in 0..MaxChanges /\ cmd.in \in Files /\ cmd.out \in Files /\ NoFile \in Files
  BY CmdIs, FilesAre DEF IInv, Typed
<1>2. Exit("error") => CmdTyped
  BY <1>1, ExitIs
<1>3. {Empty, Part, New} \subseteq Contents
  BY DEF Contents
<1>4. CASE CopyOpen
  <2>1. CmdTyped
    <3>1. CASE Exit("error")
      BY <1>2, <3>1
    <3>2. CASE IsFile(cmd.from) /\ cmd' = [cmd EXCEPT !.stage = "create", !.in = node[cmd.from]]
      <4>1. node[cmd.from] \in Files
        BY <1>1, <3>2, KindIs DEF IsFile, Exists
      <4> QED
        BY <1>1, <3>2, <4>1, StagesAre DEF Cmds, CmdTyped
    <3> QED
      BY <1>4, <3>1, <3>2 DEF CopyOpen
  <2>2. RestTyped
    BY <1>1, <1>4, FaultIs, QuietIs DEF CopyOpen
  <2> QED
    BY <1>1, <2>1, <2>2, TypedIs
<1>5. CASE CopyCreate
  <2>1. faults' \in Nat /\ changes' = changes
    BY <1>1, <1>5, FaultIs DEF CopyCreate, Fails
  <2>2. CASE Exit("error") /\ UNCHANGED <<node, data>>
    <3>1. RestTyped
      BY <1>1, <2>1, <2>2 DEF RestTyped
    <3> QED
      BY <1>1, <1>2, <2>2, <3>1, TypedIs
  <2>3. CASE ~(Exit("error") /\ UNCHANGED <<node, data>>)
    <3> DEFINE f == FileFor(cmd.to)
    <3>1. /\ MayCreate(cmd.to)
          /\ node' = [node EXCEPT ![cmd.to] = f]
          /\ data' = [data EXCEPT ![f] = Empty]
          /\ cmd' = [cmd EXCEPT !.stage = "fill", !.out = f]
      BY <1>5, <2>3 DEF CopyCreate, Fails
    <3>2. f \in Files
      <4>1. Tree /\ cmd.to \in Paths
        BY <3>1 DEF IInv, MayCreate
      <4> QED
        BY <1>1, <3>1, <4>1, FileForIs
    <3> HIDE DEF f
    <3>3. CmdTyped
      BY <1>1, <3>1, <3>2, StagesAre DEF Cmds, CmdTyped
    <3>4. RestTyped
      BY <1>1, <1>3, <2>1, <3>1, <3>2 DEF RestTyped
    <3> QED
      BY <1>1, <3>3, <3>4, TypedIs
  <2> QED
    BY <2>2, <2>3
<1>6. CASE CopyFill
  <2>1. faults' \in Nat /\ changes' = changes /\ node' = node
    BY <1>1, <1>6, FaultIs DEF CopyFill
  <2>2. data' \in [Files -> Contents]
    BY <1>1, <1>3, <1>6 DEF CopyFill
  <2>3. RestTyped
    BY <1>1, <2>1, <2>2 DEF RestTyped
  <2>4. CmdTyped
    <3>1. CASE Exit("error")
      BY <1>2, <3>1
    <3>2. CASE cmd' = [cmd EXCEPT !.stage = IF cmd.dirs = <<>> THEN "done" ELSE "entries",
                                  !.in = NoFile, !.out = NoFile]
      <4>1. (IF cmd.dirs = <<>> THEN "done" ELSE "entries") \in Stages
        BY StagesAre
      <4> QED
        BY <1>1, <3>2, <4>1 DEF Cmds, CmdTyped
    <3> QED
      BY <1>6, <3>1, <3>2 DEF CopyFill
  <2> QED
    BY <1>1, <2>3, <2>4, TypedIs
<1> QED
  BY <1>4, <1>5, <1>6

LEMMA TypedOthers ==
    ASSUME IInv, Next, Meddling
    PROVE  Typed'
<1>1. Typed /\ cmd \in Cmds /\ node \in [Paths -> {Absent, Dir} \cup Files] /\ data \in [Files -> Contents]
      /\ changes \in 0..MaxChanges /\ cmd.touched \subseteq Paths /\ MaxChanges \in Nat
  BY CmdIs, CommandsAssumption DEF IInv, Typed
<1>2. MayChange => changes' \in 0..MaxChanges /\ faults' \in Nat
  BY <1>1, FaultIs DEF MayChange
<1>3. ASSUME NEW p \in Paths, OtherWrites(p) \/ OtherMakes(p) \/ OtherRemoves(p) PROVE Typed'
  <2>1. Change(p)
    BY <1>3 DEF OtherWrites, OtherMakes, OtherRemoves
  <2>2. CmdTyped
    <3>1. cmd.touched \cup {p} \in SUBSET Paths
      BY <1>1
    <3> QED
      BY <1>1, <2>1, <3>1 DEF Change, Cmds, CmdTyped
  <2>3. changes' \in 0..MaxChanges /\ faults' \in Nat
    BY <1>2, <2>1 DEF Change
  <2>4. CASE OtherWrites(p)
    <3> DEFINE f == FileFor(p)
    <3>1. f \in Files
      BY <1>1, <2>4, FileForIs DEF IInv, OtherWrites
    <3> HIDE DEF f
    <3>2. RestTyped
      BY <1>1, <2>3, <2>4, <3>1 DEF OtherWrites, RestTyped, Contents, f
    <3> QED
      BY <1>1, <2>2, <3>2, TypedIs
  <2>5. CASE OtherMakes(p) \/ OtherRemoves(p)
    <3>1. RestTyped
      BY <1>1, <2>3, <2>5 DEF OtherMakes, OtherRemoves, RestTyped
    <3> QED
      BY <1>1, <2>2, <3>1, TypedIs
  <2> QED
    BY <1>3, <2>4, <2>5
<1>4. ASSUME NEW p \in Paths, NEW q \in Paths, OtherMoves(p, q) PROVE Typed'
  <2>1. MayChange /\ node' = Renamed(p, q) /\ data' = data
    BY <1>4 DEF OtherMoves
  <2>2. PICK t \in Tops(p, q) :
           cmd' = [cmd EXCEPT !.touched = @ \cup {s \in Paths : node'[s] # node[s]},
                              !.top = t, !.held = Held(p, q)]
    BY <1>4 DEF OtherMoves
  <2>3. t \in Paths /\ Held(p, q) \in SUBSET Paths
    BY <1>1, CmdIs DEF Tops, Held
  <2>4. CmdTyped
    <3>1. cmd.touched \cup {s \in Paths : node'[s] # node[s]} \in SUBSET Paths
      BY <1>1
    <3> QED
      BY <1>1, <2>2, <2>3, <3>1 DEF Cmds, CmdTyped
  <2>5. Renamed(p, q) \in [Paths -> {Absent, Dir} \cup Files]
    BY <1>1 DEF Renamed
  <2>6. RestTyped
    BY <1>1, <1>2, <2>1, <2>5 DEF RestTyped
  <2> QED
    BY <1>1, <2>4, <2>6, TypedIs
<1> QED
  BY <1>3, <1>4 DEF Meddling

LEMMA TypedStep ==
    ASSUME IInv, Next
    PROVE  Typed'
<1>1. CASE Moving
  BY <1>1, TypedMoving
<1>2. CASE Removing
  BY <1>2, TypedRemoving
<1>3. CASE Copying
  BY <1>3, TypedCopyingDirs, TypedCopyingFile DEF Copying
<1>4. CASE Meddling
  BY <1>4, TypedOthers
<1>5. CASE Ended
  BY <1>5 DEF Ended, vars, IInv, Typed, Source
<1> QED
  BY <1>1, <1>2, <1>3, <1>4, <1>5 DEF Next

-----------------------------------------------------------------------------
\* The tree.
LEMMA KindNext ==
    ASSUME Typed', NEW p \in Paths
    PROVE  /\ node'[p] \in {Absent, Dir} \cup Files
           /\ Exists(p)' <=> node'[p] # Absent
           /\ IsDir(p)' <=> node'[p] = Dir
           /\ IsFile(p)' <=> node'[p] \in Files
BY FilesAre DEF Typed, Exists, IsDir, IsFile

LEMMA TreeMade ==
    ASSUME Typed, Typed', Tree, NEW p \in Paths, NEW x, MayCreate(p),
           \/ x \in Files /\ \A q \in Paths : node[q] = x => q = p
           \/ x = Dir /\ ~Exists(p),
           node' = [node EXCEPT ![p] = x]
    PROVE  Tree'
<1>1. \A q \in Paths : node'[q] = IF q = p THEN x ELSE node[q]
  BY DEF Typed
<1>2. ASSUME NEW q \in Paths, NEW r \in Paths, IsFile(q)', node'[q] = node'[r] PROVE q = r
  <2>1. node'[q] \in Files /\ Dir \notin Files
    BY <1>2, KindNext, FilesAre
  <2>2. CASE q # p /\ r # p
    BY <1>1, <1>2, <2>1, <2>2, KindIs DEF Tree
  <2>3. CASE q = p \/ r = p
    BY <1>1, <1>2, <2>1, <2>3
  <2> QED
    BY <2>2, <2>3
<1>3. ASSUME NEW r \in Paths, NEW q \in Paths, Below(q, r), Exists(r)' PROVE IsDir(q)'
  <2>1. CASE r = p
    <3>1. p # Root /\ IsDir(Parent(p)) /\ Parent(p) \in Paths
      BY DEF MayCreate, IsDir
    <3>2. IsPrefix(q, Parent(p)) /\ q # p
      BY <1>3, <2>1, <3>1, ParentIs, FilesAre, BelowIs DEF Root
    <3>3. IsDir(q)
      BY <3>1, <3>2, AboveIs, FilesAre, KindIs
    <3> QED
      BY <1>1, <3>2, <3>3, KindIs, KindNext
  <2>2. CASE r # p
    <3>1. IsDir(q)
      BY <1>1, <1>3, <2>2, KindIs, KindNext DEF Tree
    <3>2. ~IsDir(p)
      BY DEF MayCreate
    <3> QED
      BY <1>1, <3>1, <3>2, KindIs, KindNext
  <2> QED
    BY <2>1, <2>2
<1> QED
  BY <1>2, <1>3 DEF Tree

\* What has no entries has nothing below it.
LEMMA EmptyIs ==
    ASSUME Typed, Tree, NEW p \in Paths, Entries(p) = {}, NEW q \in Paths, Below(p, q)
    PROVE  ~Exists(q)
<1> SUFFICES ASSUME Exists(q) PROVE FALSE
  OBVIOUS
<1> DEFINE n == q[Len(p) + 1]
<1>1. n \in Names /\ IsPrefix(Append(p, n), q)
  BY EntryOf, FilesAre
<1>2. Append(p, n) \in Seq(Names)
  BY <1>1, AppendIs, FilesAre
<1>3. Exists(Append(p, n))
  BY <1>1, <1>2, AboveIs
<1> QED
  BY <1>1, <1>3 DEF Entries

LEMMA TreeRemoved ==
    ASSUME Typed, Typed', Tree, NEW p \in Paths, ~Exists(p) \/ MayRemove(p),
           node' = [node EXCEPT ![p] = Absent]
    PROVE  Tree'
<1>1. \A q \in Paths : node'[q] = IF q = p THEN Absent ELSE node[q]
  BY DEF Typed
<1>2. ASSUME NEW q \in Paths, NEW r \in Paths, IsFile(q)', node'[q] = node'[r] PROVE q = r
  BY <1>1, <1>2, KindIs, KindNext, FilesAre DEF Tree
<1>3. ASSUME NEW r \in Paths, NEW q \in Paths, Below(q, r), Exists(r)' PROVE IsDir(q)'
  <2>1. Exists(r) /\ r # p
    BY <1>1, <1>3, KindIs, KindNext
  <2>2. IsDir(q)
    BY <1>3, <2>1 DEF Tree
  <2>3. q # p
    <3>1. Exists(q)
      BY <2>2, KindIs, FilesAre
    <3> QED
      BY <1>3, <2>1, <3>1, EmptyIs DEF MayRemove
  <2> QED
    BY <1>1, <2>2, <2>3, KindIs, KindNext
<1> QED
  BY <1>2, <1>3 DEF Tree

LEMMA TreeMadeAll ==
    ASSUME Typed, Typed', Tree, NEW p \in Paths, MayMakeAll(p), node' = MadeAll(p)
    PROVE  /\ Tree'
           /\ \A q \in Paths : /\ IsPrefix(q, p) => node'[q] = Dir /\ ~IsFile(q)
                              /\ ~IsPrefix(q, p) => node'[q] = node[q]
<1>1. \A q \in Paths : node'[q] = IF IsPrefix(q, p) THEN Dir ELSE node[q]
  BY DEF MadeAll
<1>2. \A q \in Paths : IsPrefix(q, p) => ~IsFile(q)
  BY DEF MayMakeAll
<1>3. ASSUME NEW q \in Paths, NEW r \in Paths, IsFile(q)', node'[q] = node'[r] PROVE q = r
  BY <1>1, <1>3, KindIs, KindNext, FilesAre DEF Tree
<1>4. ASSUME NEW r \in Paths, NEW q \in Paths, Below(q, r), Exists(r)' PROVE IsDir(q)'
  <2>1. CASE IsPrefix(r, p)
    <3>1. IsPrefix(q, p)
      BY <1>4, <2>1, BelowIs, PrefixOrder, FilesAre
    <3> QED
      BY <1>1, <3>1, KindNext
  <2>2. CASE ~IsPrefix(r, p)
    <3>1. Exists(r)
      BY <1>1, <1>4, <2>2, KindIs, KindNext
    <3>2. node[q] = Dir
      BY <1>4, <3>1, KindIs DEF Tree
    <3> QED
      BY <1>1, <3>2, KindNext
  <2> QED
    BY <2>1, <2>2
<1> QED
  BY <1>1, <1>2, <1>3, <1>4 DEF Tree

LEMMA TreeKept ==
    ASSUME Tree, node' = node
    PROVE  Tree'
BY DEF Tree, IsFile, IsDir, Exists

\* A rename takes what is at p to q, with what is below it.
LEMMA RenamedIs ==
    ASSUME Typed, Tree, NEW p \in Paths, NEW q \in Paths, p # q, MayRename(p, q), node' = Renamed(p, q)
    PROVE  /\ ~IsPrefix(p, q) /\ ~IsPrefix(q, p)
           /\ \A s \in Paths :
                 /\ IsPrefix(q, s) => (node'[s] = Absent \/ (Moved(q, p, s) \in Paths /\ node'[s] = node[Moved(q, p, s)]))
                 /\ IsPrefix(p, s) => node'[s] = Absent
                 /\ ~IsPrefix(p, s) /\ ~IsPrefix(q, s) => node'[s] = node[s]
           /\ node'[q] = node[p] /\ node'[q] # node[q] /\ node'[p] # node[p]
<1>1. /\ p \in Seq(Names) /\ q \in Seq(Names) /\ Exists(p) /\ ~IsPrefix(p, q)
      /\ ~Exists(q) \/ (IsFile(p) /\ IsFile(q))
  BY FilesAre DEF MayRename
<1>2. ~IsPrefix(q, p)
  <2> SUFFICES ASSUME IsPrefix(q, p) PROVE FALSE
    OBVIOUS
  <2>1. IsDir(q) /\ Exists(q)
    BY <1>1, AboveIs
  <2> QED
    BY <1>1, <2>1 DEF IsFile
<1>3. \A s \in Paths : node'[s] = IF IsPrefix(q, s) /\ Moved(q, p, s) \in Paths THEN node[Moved(q, p, s)]
                                  ELSE IF IsPrefix(p, s) \/ IsPrefix(q, s) THEN Absent ELSE node[s]
  BY DEF Renamed
<1>4. \A s \in Paths : ~(IsPrefix(p, s) /\ IsPrefix(q, s))
  BY <1>1, <1>2, PrefixOrder, FilesAre
<1>5. IsPrefix(q, q) /\ Moved(q, p, q) = p /\ IsPrefix(p, p)
  BY <1>1, PrefixOrder, MovedBack
<1>6. node'[q] = node[p] /\ node'[p] = Absent
  BY <1>2, <1>3, <1>5
<1>7. node'[q] # node[q] /\ node'[p] # node[p]
  BY <1>1, <1>6, KindIs DEF Tree
<1> QED
  BY <1>1, <1>2, <1>3, <1>4, <1>6, <1>7

LEMMA TreeRenamed ==
    ASSUME Typed, Typed', Tree, NEW p \in Paths, NEW q \in Paths, MayRename(p, q), node' = Renamed(p, q)
    PROVE  Tree'
<1>1. CASE p = q
  <2>1. node' = node
    BY <1>1 DEF Renamed, Typed
  <2> QED
    BY <2>1, TreeKept
<1>2. CASE p # q
  <2>1. /\ p \in Seq(Names) /\ q \in Seq(Names) /\ ~IsPrefix(p, q) /\ ~IsPrefix(q, p)
        /\ IsDir(Parent(q)) /\ q # Root /\ Parent(q) \in Paths
        /\ \A s \in Paths :
              /\ IsPrefix(q, s) => (node'[s] = Absent \/ (Moved(q, p, s) \in Paths /\ node'[s] = node[Moved(q, p, s)]))
              /\ IsPrefix(p, s) => node'[s] = Absent
              /\ ~IsPrefix(p, s) /\ ~IsPrefix(q, s) => node'[s] = node[s]
    BY <1>2, RenamedIs, FilesAre DEF MayRename, IsDir
  <2>2. \A s \in Paths : /\ s \in Seq(Names)
                         /\ IsPrefix(q, s) => Moved(q, p, s) \in Seq(Names) /\ IsPrefix(p, Moved(q, p, s))
    BY <2>1, MovedIs, FilesAre
  <2>3. ASSUME NEW s \in Paths, NEW t \in Paths, IsFile(s)', node'[s] = node'[t] PROVE s = t
    <3>1. node'[s] \in Files /\ Absent \notin Files
      BY <2>3, KindNext, FilesAre
    <3>2. CASE IsPrefix(q, s) /\ IsPrefix(q, t)
      <4>1. Moved(q, p, s) = Moved(q, p, t)
        BY <2>1, <2>3, <3>1, <3>2, KindIs DEF Tree
      <4> QED
        BY <2>1, <2>2, <3>2, <4>1, MovedOrder
    <3>3. CASE IsPrefix(q, s) /\ ~IsPrefix(q, t)
      <4>1. ~IsPrefix(p, t) /\ node'[t] = node[t]
        BY <2>1, <2>3, <3>1, <3>3
      <4>2. Moved(q, p, s) = t
        BY <2>1, <2>3, <3>1, <3>3, <4>1, KindIs DEF Tree
      <4> QED
        BY <2>2, <3>3, <4>1, <4>2
    <3>4. CASE ~IsPrefix(q, s) /\ IsPrefix(q, t)
      <4>1. ~IsPrefix(p, s) /\ node'[s] = node[s]
        BY <2>1, <3>1, <3>4
      <4>2. PICK u \in Paths : u = Moved(q, p, t) /\ node'[t] = node[u]
        BY <2>1, <2>3, <3>1, <3>4
      <4>3. IsFile(s) /\ node[s] = node[u]
        BY <2>3, <3>1, <4>1, <4>2, KindIs
      <4>4. u = s
        BY <4>3 DEF Tree
      <4> QED
        BY <2>2, <3>4, <4>1, <4>2, <4>4
    <3>5. CASE ~IsPrefix(q, s) /\ ~IsPrefix(q, t)
      BY <2>1, <2>3, <3>1, <3>5, KindIs DEF Tree
    <3> QED
      BY <3>2, <3>3, <3>4, <3>5
  <2>4. ASSUME NEW s \in Paths, NEW t \in Paths, Below(t, s), Exists(s)' PROVE IsDir(t)'
    <3>1. node'[s] # Absent /\ ~IsPrefix(p, s) /\ IsPrefix(t, s) /\ t # s
      BY <2>1, <2>2, <2>4, KindNext, BelowIs
    <3>2. CASE IsPrefix(q, s)
      <4>1. Moved(q, p, s) \in Paths /\ Exists(Moved(q, p, s))
        BY <2>1, <3>1, <3>2, KindIs
      <4>2. CASE IsPrefix(q, t)
        <5> DEFINE u == Moved(q, p, t)
        <5>1. u \in Seq(Names) /\ IsPrefix(u, Moved(q, p, s)) /\ u # Moved(q, p, s)
          BY <2>1, <2>2, <2>4, <3>1, <3>2, <4>2, MovedOrder, MovedAbove
        <5>2. u \in Paths /\ IsDir(u)
          BY <4>1, <5>1, AboveIs
        <5>3. node'[t] = node[u]
          BY <1>2, <4>2, <5>2 DEF Renamed
        <5> HIDE DEF u
        <5> QED
          BY <5>2, <5>3, KindIs, KindNext
      <4>3. CASE ~IsPrefix(q, t)
        <5>1. IsPrefix(t, q) /\ t # q
          <6>1. IsPrefix(t, q) \/ IsPrefix(q, t)
            BY <2>1, <2>2, <3>1, <3>2, PrefixOrder
          <6> QED
            BY <2>1, <4>3, <6>1, PrefixOrder
        <5>2. IsPrefix(t, Parent(q))
          BY <2>1, <2>2, <5>1, ParentIs, BelowIs DEF Root
        <5>3. IsDir(t)
          BY <2>1, <2>2, <5>2, AboveIs, KindIs, FilesAre
        <5>4. ~IsPrefix(p, t)
          BY <2>1, <2>2, <5>1, PrefixOrder
        <5> QED
          BY <2>1, <4>3, <5>3, <5>4, KindIs, KindNext
      <4> QED
        BY <4>2, <4>3
    <3>3. CASE ~IsPrefix(q, s)
      <4>1. ~IsPrefix(p, t) /\ ~IsPrefix(q, t)
        BY <2>1, <2>2, <3>1, <3>3, PrefixOrder
      <4>2. IsDir(t)
        BY <2>1, <2>4, <3>1, <3>3, KindIs DEF Tree
      <4> QED
        BY <2>1, <4>1, <4>2, KindIs, KindNext
    <3> QED
      BY <3>2, <3>3
  <2> QED
    BY <2>3, <2>4 DEF Tree
<1> QED
  BY <1>1, <1>2

LEMMA TreeStep ==
    ASSUME IInv, Typed', Next
    PROVE  Tree'
<1>1. Typed /\ cmd \in Cmds /\ Tree /\ Arg \in Paths /\ Source \in Paths /\ cmd.top \in Paths
  BY ArgsAre, CmdIs DEF IInv, Typed
<1>2. CASE node' = node
  BY <1>1, <1>2, TreeKept
<1>3. CASE MoveRename
  <2>1. CASE MayRename(Source, cmd.dest) /\ node' = Renamed(Source, cmd.dest)
    <3>1. cmd.dest \in Paths
      BY <1>1, <2>1 DEF MayRename, Exists
    <3> QED
      BY <1>1, <2>1, <3>1, TreeRenamed
  <2> QED
    BY <1>2, <1>3, <2>1 DEF MoveRename, Fails
<1>4. CASE RemoveOne
  BY <1>1, <1>2, <1>4, TreeRemoved DEF RemoveOne, Fails
<1>5. CASE RemoveBelow
  BY <1>1, <1>5, TreeRemoved DEF RemoveBelow
<1>6. CASE RemoveTop
  BY <1>1, <1>2, <1>6, TreeRemoved DEF RemoveTop, Fails
<1>7. CASE CopyMkdir
  <2>1. CASE MayMakeAll(Top.dest) /\ node' = MadeAll(Top.dest)
    BY <1>1, <2>1, TreeMadeAll DEF MayMakeAll
  <2> QED
    BY <1>2, <1>7, <2>1 DEF CopyMkdir, Fails
<1>8. ASSUME NEW p, MayCreate(p), node' = [node EXCEPT ![p] = FileFor(p)] PROVE Tree'
  <2>1. p \in Paths
    BY <1>8 DEF MayCreate
  <2>2. PICK x \in Files : x = FileFor(p) /\ \A q \in Paths : node[q] = x => q = p
    BY <1>1, <1>8, <2>1, FileForIs
  <2>3. node' = [node EXCEPT ![p] = x]
    BY <1>8, <2>2
  <2> QED
    BY <1>1, <1>8, <2>1, <2>2, <2>3, TreeMade
<1>9. CASE CopyCreate
  BY <1>2, <1>8, <1>9 DEF CopyCreate, Fails
<1>10. ASSUME NEW p \in Paths, OtherWrites(p) PROVE Tree'
  BY <1>8, <1>10 DEF OtherWrites
<1>11. ASSUME NEW p \in Paths, OtherMakes(p) PROVE Tree'
  BY <1>1, <1>11, TreeMade DEF OtherMakes
<1>12. ASSUME NEW p \in Paths, OtherRemoves(p) PROVE Tree'
  BY <1>1, <1>12, TreeRemoved DEF OtherRemoves
<1>13. ASSUME NEW p \in Paths, NEW q \in Paths, OtherMoves(p, q) PROVE Tree'
  BY <1>1, <1>13, TreeRenamed DEF OtherMoves
<1> QED
  BY <1>2, <1>3, <1>4, <1>5, <1>6, <1>7, <1>9, <1>10, <1>11, <1>12, <1>13
     DEF Next, Meddling, Moving, Removing, Copying, Ended, Quietly, vars, StatSource, MoveStatDest, MoveStatUnder,
         RemoveStat, CopyStatDest, CopyStatDestOfDir, CopyLook, CopyList, CopyEntry, CopyLeave, CopyOpen, CopyFill

-----------------------------------------------------------------------------
\* What others do: what they have not touched is as it was, and the command is where it was.
Elsewhere ==
    /\ cmd.touched \subseteq cmd'.touched
    /\ \A p \in Paths : p \notin cmd'.touched =>
          /\ node'[p] = node[p]
          /\ IsFile(p) => data'[node[p]] = data[node[p]]

Awaits ==
    /\ cmd.stage # "done" /\ cmd'.stage = cmd.stage
    /\ cmd'.dest = cmd.dest /\ cmd'.code = cmd.code /\ cmd'.dirs = cmd.dirs
    /\ cmd'.from = cmd.from /\ cmd'.to = cmd.to /\ cmd'.in = cmd.in /\ cmd'.out = cmd.out
    /\ cmd'.next = cmd.next /\ cmd'.missed = cmd.missed
    /\ cmd'.touched # {}
    /\ cmd.stage # "removeAll" /\ cmd.held = {} => cmd'.held = {}

LEMMA OthersAre ==
    ASSUME IInv, Meddling
    PROVE  Elsewhere /\ Awaits /\ changes' # changes
<1>1. /\ Typed /\ Tree /\ cmd \in Cmds /\ node \in [Paths -> {Absent, Dir} \cup Files]
      /\ data \in [Files -> Contents] /\ changes \in Nat
  BY CommandsAssumption DEF IInv, Typed
<1>2. MayChange => changes' # changes /\ cmd.stage # "done"
  BY <1>1 DEF MayChange
<1>3. ASSUME NEW p \in Paths, OtherWrites(p) \/ OtherMakes(p) \/ OtherRemoves(p)
      PROVE  Elsewhere /\ Awaits /\ changes' # changes
  <2>1. Change(p)
    BY <1>3 DEF OtherWrites, OtherMakes, OtherRemoves
  <2>2. Awaits /\ changes' # changes /\ cmd'.touched = cmd.touched \cup {p}
    BY <1>1, <1>2, <2>1 DEF Change, Awaits, Cmds
  <2>3. \A q \in Paths : q # p => node'[q] = node[q]
    BY <1>1, <1>3 DEF OtherWrites, OtherMakes, OtherRemoves
  <2>4. \A q \in Paths : q # p /\ IsFile(q) => data'[node[q]] = data[node[q]]
    <3>1. CASE OtherWrites(p)
      <4>1. /\ \A q \in Paths : node[q] = FileFor(p) => q = p
            /\ FileFor(p) \in Files /\ data' = [data EXCEPT ![FileFor(p)] = New]
        BY <1>1, <3>1, FileForIs DEF OtherWrites
      <4> QED
        BY <1>1, <4>1, KindIs
    <3>2. CASE OtherMakes(p) \/ OtherRemoves(p)
      BY <3>2 DEF OtherMakes, OtherRemoves
    <3> QED
      BY <1>3, <3>1, <3>2
  <2> QED
    BY <2>2, <2>3, <2>4 DEF Elsewhere
<1>4. ASSUME NEW p \in Paths, NEW q \in Paths, OtherMoves(p, q)
      PROVE  Elsewhere /\ Awaits /\ changes' # changes
  <2>1. /\ MayChange /\ data' = data /\ p # q /\ MayRename(p, q) /\ node' = Renamed(p, q)
    BY <1>4 DEF OtherMoves
  <2>2. PICK t \in Tops(p, q) :
           cmd' = [cmd EXCEPT !.touched = @ \cup {s \in Paths : node'[s] # node[s]},
                              !.top = t, !.held = Held(p, q)]
    BY <1>4 DEF OtherMoves
  <2>3. cmd'.touched = cmd.touched \cup {s \in Paths : node'[s] # node[s]}
    BY <1>1, <2>2 DEF Cmds
  <2>4. p \in cmd'.touched
    BY <1>1, <2>1, <2>3, RenamedIs
  <2>5. cmd.stage # "removeAll" /\ cmd.held = {} => Held(p, q) = {}
    BY DEF Held
  <2>6. Awaits
    BY <1>1, <1>2, <2>1, <2>2, <2>4, <2>5 DEF Awaits, Cmds
  <2>7. Elsewhere
    BY <2>1, <2>3 DEF Elsewhere
  <2> QED
    BY <1>2, <2>1, <2>6, <2>7
<1> QED
  BY <1>3, <1>4 DEF Meddling

-----------------------------------------------------------------------------
LEMMA StagesFit ==
    ASSUME IInv, Next
    PROVE  StageFits'
<1>1. /\ cmd \in Cmds /\ Kept /\ StageFits
      /\ cmd.op \in {"mv", "rm", "cp"} /\ cmd.recursive \in BOOLEAN
  BY KeptStep, CmdIs DEF IInv, Typed
<1> USE DEF StageFits, Kept, Early, Looking, Filing, Cmds
<1>2. CASE StatSource
  BY <1>1, <1>2 DEF StatSource, At, Goto, Exit
<1>3. CASE MoveStatDest
  BY <1>1, <1>3 DEF MoveStatDest, At, Exit
<1>4. CASE MoveStatUnder
  BY <1>1, <1>4 DEF MoveStatUnder, At, Exit
<1>5. CASE MoveRename
  BY <1>1, <1>5 DEF MoveRename, At, Exit, Fails
<1>6. CASE RemoveStat
  BY <1>1, <1>6 DEF RemoveStat, RemoveIt, At, Exit, NextArg
<1>7. CASE RemoveOne
  BY <1>1, <1>7 DEF RemoveOne, At, Exit, NextArg, Fails
<1>8. CASE RemoveBelow
  BY <1>1, <1>8 DEF RemoveBelow, At
<1>9. CASE RemoveTop
  BY <1>1, <1>9 DEF RemoveTop, At, Exit, NextArg, Fails
<1>10. CASE CopyStatDest
  BY <1>1, <1>10 DEF CopyStatDest, At
<1>11. CASE CopyStatDestOfDir
  BY <1>1, <1>11 DEF CopyStatDestOfDir, At, Exit
<1>12. CASE CopyLook
  BY <1>1, <1>12 DEF CopyLook, At, Goto
<1>13. CASE CopyMkdir
  BY <1>1, <1>13 DEF CopyMkdir, At, Goto, Exit, Fails
<1>14. CASE CopyList
  BY <1>1, <1>14 DEF CopyList, At, Exit
<1>15. CASE CopyEntry
  BY <1>1, <1>15 DEF CopyEntry, At
<1>16. CASE CopyLeave
  BY <1>1, <1>16 DEF CopyLeave, At
<1>17. CASE CopyOpen
  BY <1>1, <1>17 DEF CopyOpen, At, Exit
<1>18. CASE CopyCreate
  BY <1>1, <1>18 DEF CopyCreate, At, Exit, Fails
<1>19. CASE CopyFill
  BY <1>1, <1>19 DEF CopyFill, At, Exit
<1>20. CASE Meddling
  BY <1>1, <1>20, OthersAre DEF Awaits
<1>21. CASE Ended
  BY <1>1, <1>21 DEF Ended, vars
<1> QED
  BY <1>2, <1>3, <1>4, <1>5, <1>6, <1>7, <1>8, <1>9, <1>10, <1>11,
     <1>12, <1>13, <1>14, <1>15, <1>16, <1>17, <1>18, <1>19, <1>20, <1>21
  DEF Next, Moving, Removing, Copying

-----------------------------------------------------------------------------
\* mv.
LEMMA MovesStep ==
    ASSUME IInv, Next
    PROVE  Moves'
<1>1. cmd \in Cmds /\ Kept /\ Moves /\ node \in [Paths -> {Absent, Dir} \cup Files]
  BY KeptStep DEF IInv, Typed
<1> SUFFICES ASSUME cmd.op = "mv", cmd'.stage = "rename", Exists(cmd.dest)'
             PROVE  cmd'.dest \in cmd'.touched \cup cmd'.missed
  BY <1>1 DEF Moves, Kept
<1>2. ASSUME cmd' = [cmd EXCEPT !.stage = "rename", !.missed = Missing(cmd.dest)], Quietly
      PROVE  cmd'.dest \in cmd'.touched \cup cmd'.missed
  <2>1. cmd'.dest = cmd.dest /\ cmd'.missed = Missing(cmd.dest)
    BY <1>1, <1>2 DEF Cmds
  <2>2. Exists(cmd.dest)
    BY <1>2, <2>1 DEF Exists, Quietly
  <2> QED
    BY <2>1, <2>2 DEF Missing
<1>3. CASE MoveStatDest
  <2>1. CASE IsDir(cmd.dest) /\ cmd' = [cmd EXCEPT !.stage = "under", !.dest = Within(@)]
    BY <1>1, <2>1 DEF Cmds
  <2>2. CASE Exit("error")
    BY <1>1, <2>2 DEF Exit, Cmds
  <2>3. CASE cmd' = [cmd EXCEPT !.stage = "rename", !.missed = Missing(cmd.dest)]
    BY <1>2, <1>3, <2>3 DEF MoveStatDest
  <2> QED
    BY <1>3, <2>1, <2>2, <2>3 DEF MoveStatDest
<1>4. CASE MoveStatUnder
  <2>1. CASE Exit("error")
    BY <1>1, <2>1 DEF Exit, Cmds
  <2>2. CASE cmd' = [cmd EXCEPT !.stage = "rename", !.missed = Missing(cmd.dest)]
    BY <1>2, <1>4, <2>2 DEF MoveStatUnder
  <2> QED
    BY <1>4, <2>1, <2>2 DEF MoveStatUnder
<1>5. CASE StatSource \/ MoveRename
  <2>1. CASE StatSource
    BY <1>1, <2>1 DEF StatSource, Goto, Exit, Cmds
  <2>2. CASE MoveRename
    BY <1>1, <2>2 DEF MoveRename, Fails, Exit, Cmds
  <2> QED
    BY <1>5, <2>1, <2>2
<1>6. CASE Meddling
  <2>1. Elsewhere /\ Awaits
    BY <1>6, OthersAre
  <2>2. CASE cmd.dest \notin cmd'.touched
    <3>1. Exists(cmd.dest)
      BY <2>1, <2>2 DEF Elsewhere, Awaits, Exists
    <3> QED
      BY <1>1, <2>1, <3>1 DEF Moves, Elsewhere, Awaits
  <2> QED
    BY <2>1, <2>2 DEF Awaits
<1>7. CASE Ended
  BY <1>1, <1>7 DEF Ended, vars
<1>8. ~Removing /\ ~Copying
  BY DEF Removing, Copying, At, RemoveStat, RemoveOne, RemoveBelow, RemoveTop, CopyStatDest, CopyStatDestOfDir,
         CopyLook, CopyMkdir, CopyList, CopyEntry, CopyLeave, CopyOpen, CopyCreate, CopyFill
<1> QED
  BY <1>3, <1>4, <1>5, <1>6, <1>7, <1>8 DEF Next, Moving

-----------------------------------------------------------------------------
\* rm.
\* Where others put what RemoveAll is in.
LEMMA FollowsMove ==
    ASSUME IInv, Kept, cmd.stage = "removeAll", NEW p \in Paths, NEW q \in Paths, OtherMoves(p, q)
    PROVE  Follows'
<1>1. /\ Typed /\ Tree /\ cmd \in Cmds /\ cmd.top \in Paths /\ cmd.held \subseteq Paths
      /\ cmd.touched \subseteq Paths /\ Follows /\ Arg \in Paths
      /\ p \in Seq(Names) /\ q \in Seq(Names)
  BY CmdIs, ArgsAre, FilesAre DEF IInv, Typed
<1>2. p # q /\ MayRename(p, q) /\ node' = Renamed(p, q)
  BY DEF OtherMoves
<1>3. PICK t \in Tops(p, q) :
         cmd' = [cmd EXCEPT !.touched = @ \cup {s \in Paths : node'[s] # node[s]},
                            !.top = t, !.held = Held(p, q)]
  BY DEF OtherMoves
<1>4. /\ cmd'.touched = cmd.touched \cup {s \in Paths : node'[s] # node[s]}
      /\ cmd'.top = t /\ cmd'.held = Held(p, q) /\ Arg' = Arg
  BY <1>1, <1>3 DEF Cmds, Arg
<1>5. p \in cmd'.touched /\ q \in cmd'.touched
  BY <1>1, <1>2, <1>4, RenamedIs
<1>6. ASSUME NEW s, Strayed(s) PROVE Strayed(s)'
  BY <1>4, <1>6 DEF Strayed
<1>7. ASSUME NEW s, IsPrefix(q, s) PROVE Strayed(s)'
  BY <1>5, <1>7 DEF Strayed
<1>8. ~Untouched(Arg) => ~Untouched(Arg)'
  BY <1>4 DEF Untouched
<1>9. t = Arg \/ (Strayed(t)' /\ ~Untouched(Arg)')
  <2>1. CASE t = cmd.top
    BY <1>1, <1>6, <1>8, <2>1 DEF Follows
  <2>2. CASE Below(p, cmd.top) /\ t = Moved(p, q, cmd.top)
    <3>1. IsPrefix(q, t) /\ IsPrefix(p, cmd.top)
      BY <1>1, <2>2, MovedIs, BelowIs, FilesAre
    <3>2. cmd.top = Arg => ~Untouched(Arg)'
      BY <1>4, <1>5, <3>1 DEF Untouched
    <3> QED
      BY <1>1, <1>7, <1>8, <3>1, <3>2 DEF Follows
  <2> QED
    BY <2>1, <2>2 DEF Tops
<1>10. ASSUME NEW h \in Held(p, q) PROVE Strayed(h)'
  <2>1. CASE h = q
    BY <1>1, <1>7, <2>1, PrefixOrder
  <2>2. CASE h \in cmd.held
    BY <1>1, <1>6, <2>2 DEF Follows
  <2>3. ASSUME NEW g \in cmd.held, IsPrefix(p, g), h = Moved(p, q, g) PROVE Strayed(h)'
    BY <1>1, <1>7, <2>3, MovedIs, FilesAre
  <2> QED
    BY <2>1, <2>2, <2>3 DEF Held
<1> QED
  BY <1>4, <1>9, <1>10 DEF Follows

LEMMA FollowsStep ==
    ASSUME IInv, Next
    PROVE  Follows'
<1>1. cmd \in Cmds /\ Kept /\ Follows /\ StageFits /\ cmd.args = cmd'.args
  BY KeptStep DEF IInv, Typed, Kept
<1> SUFFICES ASSUME cmd'.stage = "removeAll" PROVE Follows'
  BY DEF Follows
<1>2. CASE cmd' = cmd
  BY <1>1, <1>2 DEF Follows, Strayed, Untouched, Arg
<1>3. CASE RemoveStat
  <2>1. RemoveIt /\ cmd.stage = "stat"
    BY <1>1, <1>3 DEF RemoveStat, At, NextArg, Exit, Cmds
  <2>2. cmd'.top = Arg /\ cmd'.held = cmd.held /\ cmd'.next = cmd.next
    BY <1>1, <2>1 DEF RemoveIt, Cmds
  <2>3. cmd.held = {}
    BY <1>1, <2>1 DEF StageFits
  <2> QED
    BY <1>1, <2>2, <2>3 DEF Follows, Arg
<1>4. ~RemoveOne /\ ~RemoveTop
  BY <1>1 DEF RemoveOne, RemoveTop, Fails, Exit, NextArg, Cmds
<1>5. ASSUME NEW p \in Paths, OtherWrites(p) \/ OtherMakes(p) \/ OtherRemoves(p) PROVE Follows'
  <2>1. /\ cmd.stage = "removeAll" /\ cmd'.top = cmd.top /\ cmd'.held = cmd.held /\ cmd'.next = cmd.next
        /\ cmd'.touched = cmd.touched \cup {p}
    BY <1>1, <1>5 DEF OtherWrites, OtherMakes, OtherRemoves, Change, Cmds
  <2>2. \A s : Strayed(s) => Strayed(s)'
    BY <2>1 DEF Strayed
  <2>3. ~Untouched(Arg) => ~Untouched(Arg)'
    BY <1>1, <2>1 DEF Untouched, Arg
  <2> QED
    BY <1>1, <2>1, <2>2, <2>3 DEF Follows, Arg
<1>6. ASSUME NEW p \in Paths, NEW q \in Paths, OtherMoves(p, q) PROVE Follows'
  <2>1. cmd.stage = "removeAll"
    BY <1>1, <1>6 DEF OtherMoves, Cmds
  <2> QED
    BY <1>1, <1>6, <2>1, FollowsMove
<1>7. ~Moving /\ ~Copying
  <2>1. cmd.op \in {"mv", "rm", "cp"} /\ cmd'.op = cmd.op /\ StageFits'
    BY <1>1, StagesFit, CmdIs DEF Kept
  <2>2. cmd.op = "rm"
    BY <2>1 DEF StageFits, Early, Looking, Filing
  <2> QED
    BY <2>2 DEF Moving, Copying, At, StatSource, MoveStatDest, MoveStatUnder, MoveRename, CopyStatDest,
       CopyStatDestOfDir, CopyLook, CopyMkdir, CopyList, CopyEntry, CopyLeave, CopyOpen, CopyCreate, CopyFill
<1> QED
  BY <1>2, <1>3, <1>4, <1>5, <1>6, <1>7 DEF Next, Removing, RemoveBelow, Meddling, Ended, vars

\* What exists after a step did before, or others have touched it; what is noted stays noted.
Shrinks ==
    /\ \A p \in Paths : Exists(p)' => Exists(p) \/ p \in cmd'.touched
    /\ cmd.touched \subseteq cmd'.touched /\ cmd.missed \subseteq cmd'.missed

LEMMA GoneKept ==
    ASSUME Kept, Shrinks, NEW p \in Paths, Gone(p)
    PROVE  Exists(p)' => ~Untouched(p)' \/ (cmd'.force /\ p \in cmd'.missed)
<1> SUFFICES ASSUME Exists(p)' PROVE ~Untouched(p)' \/ (cmd'.force /\ p \in cmd'.missed)
  OBVIOUS
<1>1. CASE p \in cmd'.touched
  <2>1. p \in Seq(Names)
    BY FilesAre
  <2>2. IsPrefix(p, p)
    BY <2>1, PrefixOrder
  <2> QED
    BY <1>1, <2>2 DEF Untouched
<1>2. CASE p \notin cmd'.touched
  <2>1. ~Untouched(p) \/ (cmd.force /\ p \in cmd.missed)
    BY <1>2 DEF Shrinks, Gone
  <2> QED
    BY <2>1 DEF Shrinks, Untouched, Kept
<1> QED
  BY <1>1, <1>2

LEMMA RemovesKept ==
    ASSUME IInv, Kept, Shrinks, cmd'.next = cmd.next, cmd'.stage = "done" => cmd.stage = "done" \/ cmd'.code # "ok",
           cmd'.code = "ok" => cmd.code = "ok"
    PROVE  Removes'
<1> SUFFICES ASSUME cmd.op = "rm", cmd'.code = "ok", NEW i \in DOMAIN cmd.args,
                    i < cmd'.next \/ cmd'.stage = "done"
             PROVE  Gone(cmd.args[i])'
  BY DEF Removes, Kept
<1>1. cmd.args[i] \in Paths
  BY ArgsAre DEF IInv
<1>2. Gone(cmd.args[i])
  BY DEF IInv, Removes
<1> QED
  BY <1>1, <1>2, GoneKept DEF Gone, Kept

LEMMA RemovesNext ==
    ASSUME IInv, Kept, Shrinks, NEW a \in Paths, a = Arg, NEW c, NEW m, NextArg(c, m),
           c = "ok" => cmd.code = "ok" /\ (Exists(a)' => ~Untouched(a)' \/ (cmd.force /\ a \in cmd'.missed))
    PROVE  Removes'
<1> SUFFICES ASSUME cmd.op = "rm", cmd'.code = "ok", NEW i \in DOMAIN cmd.args,
                    i < cmd'.next \/ cmd'.stage = "done"
             PROVE  Gone(cmd.args[i])'
  BY DEF Removes, Kept
<1>1. /\ cmd \in Cmds /\ cmd.args[i] \in Paths /\ cmd.next \in Nat /\ i \in 1..Len(cmd.args)
      /\ Len(cmd.args) \in Nat
  BY ArgsAre, CmdIs DEF IInv, Typed
<1>2. cmd'.code = c /\ (i < cmd.next \/ i = cmd.next)
  BY <1>1 DEF NextArg, Cmds
<1>3. CASE i < cmd.next
  <2>1. Gone(cmd.args[i])
    BY <1>2, <1>3 DEF IInv, Removes
  <2> QED
    BY <1>1, <2>1, GoneKept DEF Gone, Kept
<1>4. CASE i = cmd.next
  BY <1>2, <1>4 DEF Gone, Kept, Arg
<1> QED
  BY <1>2, <1>3, <1>4

LEMMA RemovesStep ==
    ASSUME IInv, Next
    PROVE  Removes'
<1>1. cmd \in Cmds /\ Kept /\ node \in [Paths -> {Absent, Dir} \cup Files] /\ Arg \in Paths
  BY KeptStep, ArgsAre DEF IInv, Typed
<1> SUFFICES ASSUME cmd.op = "rm" PROVE Removes'
  BY <1>1 DEF Removes, Kept
<1>2. ASSUME Exit("error") PROVE Removes'
  <2>1. cmd'.code # "ok"
    BY <1>1, <1>2 DEF Exit, Cmds
  <2> QED
    BY <2>1 DEF Removes
<1>3. CASE RemoveStat
  <2>1. node' = node
    BY <1>3 DEF RemoveStat, Quietly
  <2>2. CASE RemoveIt
    <3>1. /\ cmd'.next = cmd.next /\ cmd'.code = cmd.code /\ cmd'.stage # "done"
          /\ cmd'.touched = cmd.touched /\ cmd'.missed = cmd.missed
      BY <1>1, <2>2 DEF RemoveIt, Cmds
    <3>2. Shrinks
      BY <2>1, <3>1 DEF Shrinks, Exists
    <3> QED
      BY <1>1, <3>1, <3>2, RemovesKept
  <2>3. CASE Exit("error")
    BY <1>2, <2>1, <2>3
  <2>4. CASE NextArg("error", cmd.missed)
    <3>1. cmd'.code = "error"
      BY <1>1, <2>4 DEF NextArg, Cmds
    <3> QED
      BY <3>1 DEF Removes
  <2>5. CASE cmd.force /\ NextArg(cmd.code, Missing(Arg))
    <3>1. cmd'.touched = cmd.touched /\ cmd'.missed = Missing(Arg)
      BY <1>1, <2>5 DEF NextArg, Cmds
    <3>2. Shrinks
      BY <2>1, <3>1 DEF Shrinks, Exists, Missing
    <3>3. \A p \in Paths : p = Arg => (Exists(p)' => cmd.force /\ p \in cmd'.missed)
      BY <2>1, <2>5, <3>1 DEF Missing, Exists
    <3>4. PICK c, m, p : p \in Paths /\ c = cmd.code /\ m = Missing(Arg) /\ p = Arg
      BY <1>1
    <3> QED
      BY <1>1, <2>5, <3>2, <3>3, <3>4, RemovesNext
  <2> QED
    BY <1>3, <2>2, <2>3, <2>4, <2>5 DEF RemoveStat
<1>4. ASSUME NEW p \in Paths, p = Arg, node' = [node EXCEPT ![p] = Absent], NextArg(cmd.code, cmd.missed)
      PROVE  Removes'
  <2>1. cmd'.touched = cmd.touched /\ cmd'.missed = cmd.missed
    BY <1>1, <1>4 DEF NextArg, Cmds
  <2>2. Shrinks /\ ~Exists(p)'
    BY <1>1, <1>4, <2>1 DEF Shrinks, Exists
  <2>3. PICK c, m : c = cmd.code /\ m = cmd.missed
    OBVIOUS
  <2> QED
    BY <1>1, <1>4, <2>2, <2>3, RemovesNext
<1>5. CASE RemoveOne
  <2>1. CASE node' = [node EXCEPT ![Arg] = Absent] /\ NextArg(cmd.code, cmd.missed)
    BY <1>1, <1>4, <2>1
  <2>2. CASE Exit("error")
    BY <1>2, <2>2
  <2> QED
    BY <1>5, <2>1, <2>2 DEF RemoveOne, Fails
<1>6. CASE RemoveBelow
  <2>1. cmd' = cmd
    BY <1>6 DEF RemoveBelow
  <2>2. Shrinks
    BY <1>1, <1>6, <2>1 DEF RemoveBelow, Shrinks, Exists
  <2> QED
    BY <1>1, <2>1, <2>2, RemovesKept
<1>7. CASE RemoveTop
  <2>1. CASE node' = [node EXCEPT ![cmd.top] = Absent] /\ NextArg(cmd.code, cmd.missed)
    <3>1. CASE cmd.top = Arg
      BY <1>1, <1>4, <2>1, <3>1
    <3>2. CASE cmd.top # Arg
      <4>1. /\ cmd'.touched = cmd.touched /\ cmd'.missed = cmd.missed
            /\ \A q \in Paths : Exists(q)' => Exists(q)
        BY <1>1, <2>1 DEF NextArg, Cmds, Exists
      <4>2. Shrinks
        BY <4>1 DEF Shrinks
      <4>3. ~Untouched(Arg)
        BY <1>7, <3>2 DEF RemoveTop, At, IInv, Follows
      <4>4. PICK p, c, m : p \in Paths /\ p = Arg /\ c = cmd.code /\ m = cmd.missed
        BY <1>1
      <4>5. ~Untouched(p)'
        BY <4>1, <4>3, <4>4 DEF Untouched
      <4> QED
        BY <1>1, <2>1, <4>2, <4>4, <4>5, RemovesNext
    <3> QED
      BY <3>1, <3>2
  <2>2. CASE Exit("error")
    BY <1>2, <2>2
  <2> QED
    BY <1>7, <2>1, <2>2 DEF RemoveTop, Fails
<1>8. CASE Meddling
  <2>1. Elsewhere /\ Awaits
    BY <1>8, OthersAre
  <2>2. Shrinks
    BY <2>1 DEF Elsewhere, Awaits, Shrinks, Exists
  <2> QED
    BY <1>1, <2>1, <2>2, RemovesKept DEF Awaits
<1>9. CASE Ended
  <2>1. Shrinks /\ cmd' = cmd
    BY <1>9 DEF Ended, vars, Shrinks, Exists
  <2> QED
    BY <1>1, <2>1, RemovesKept
<1>10. ~Moving /\ ~Copying
  BY DEF Moving, Copying, At, StatSource, MoveStatDest, MoveStatUnder, MoveRename, CopyStatDest, CopyStatDestOfDir,
         CopyLook, CopyMkdir, CopyList, CopyEntry, CopyLeave, CopyOpen, CopyCreate, CopyFill
<1> QED
  BY <1>3, <1>5, <1>6, <1>7, <1>8, <1>9, <1>10 DEF Next, Removing

-----------------------------------------------------------------------------
\* cp: what each step does when it does not fail.
Failed == /\ cmd'.stage = "done" /\ cmd'.code # "ok" /\ cmd'.dirs = cmd.dirs /\ cmd'.dest = cmd.dest
Same == node' = node /\ data' = data
Along == cmd'.dest = cmd.dest /\ cmd'.touched = cmd.touched /\ cmd'.code = cmd.code

DoesStatDest ==
    /\ cmd.stage = "dest" /\ cmd'.stage = "open" /\ Same
    /\ cmd'.from = Source /\ cmd'.to = cmd'.dest /\ cmd'.dirs = cmd.dirs
    /\ cmd'.touched = cmd.touched /\ cmd'.code = cmd.code

DoesStatDestOfDir ==
    /\ cmd.stage = "destOfDir" /\ cmd'.stage = "look" /\ Same /\ Along
    /\ cmd'.dirs = <<Frame(Source, cmd.dest)>>

DoesLook == cmd.stage = "look" /\ cmd'.stage = "mkdir" /\ Same /\ Along /\ cmd'.dirs = cmd.dirs

DoesMkdir ==
    /\ cmd.stage = "mkdir" /\ cmd'.stage = "list" /\ Along /\ cmd'.dirs = cmd.dirs
    /\ MayMakeAll(Top.dest) /\ node' = MadeAll(Top.dest) /\ data' = data

DoesList ==
    /\ cmd.stage = "list" /\ cmd'.stage = "entries" /\ Same /\ Along
    /\ IsDir(Top.source)
    /\ cmd'.dirs = [cmd.dirs EXCEPT ![Len(cmd.dirs)].todo = Listed(Top.source)]

DoesEntry(e) ==
    /\ cmd.stage = "entries" /\ Same /\ Along
    /\ LET s == Append(Top.source, e.name)
           d == Append(Top.dest, e.name)
       IN
       IF e.isDir THEN cmd'.stage = "look" /\ cmd'.dirs = Append(Rest(e), Frame(s, d))
       ELSE cmd'.stage = "open" /\ cmd'.dirs = Rest(e) /\ cmd'.from = s /\ cmd'.to = d

DoesLeave ==
    /\ cmd.stage = "entries" /\ Same /\ Along /\ Top.todo = {}
    /\ IF Len(cmd.dirs) = 1 THEN cmd'.stage = "done" /\ cmd'.dirs = cmd.dirs
       ELSE cmd'.stage = "entries" /\ cmd'.dirs = Front(cmd.dirs)

Filed == Along /\ cmd'.dirs = cmd.dirs /\ cmd'.from = cmd.from /\ cmd'.to = cmd.to

DoesOpen ==
    /\ cmd.stage = "open" /\ cmd'.stage = "create" /\ Same /\ Filed
    /\ IsFile(cmd.from) /\ cmd'.in = node[cmd.from]

DoesCreate ==
    /\ cmd.stage = "create" /\ cmd'.stage = "fill" /\ Filed /\ MayCreate(cmd.to)
    /\ node' = [node EXCEPT ![cmd.to] = FileFor(cmd.to)]
    /\ data' = [data EXCEPT ![FileFor(cmd.to)] = Empty]
    /\ cmd'.in = cmd.in /\ cmd'.out = FileFor(cmd.to)

DoesFill ==
    /\ cmd.stage = "fill" /\ Filed /\ node' = node
    /\ data' = [data EXCEPT ![cmd.out] = data[cmd.in]]
    /\ cmd'.stage = IF cmd.dirs = <<>> THEN "done" ELSE "entries"

LEMMA CopySteps ==
    ASSUME IInv, Next, cmd.op = "cp"
    PROVE  \/ Failed
           \/ StatSource /\ cmd'.stage \in Early /\ Same /\ Along /\ cmd'.dirs = cmd.dirs
           \/ DoesStatDest \/ DoesStatDestOfDir \/ DoesLook \/ DoesMkdir \/ DoesList
           \/ (\E e \in Top.todo : DoesEntry(e)) \/ DoesLeave
           \/ DoesOpen \/ DoesCreate \/ DoesFill
           \/ Elsewhere /\ Awaits
           \/ UNCHANGED vars
<1>1. cmd \in Cmds
  BY DEF IInv, Typed
<1> USE DEF Cmds
<1>2. Exit("error") => Failed
  BY <1>1 DEF Exit, Failed
<1>3. CASE StatSource
  <2>1. CASE Exit("error")
    BY <1>2, <2>1
  <2>2. CASE Goto("destOfDir") \/ Goto("dest")
    BY <1>1, <1>3, <2>2 DEF StatSource, Goto, Early, Same, Along, Quietly
  <2> QED
    BY <1>3, <2>1, <2>2 DEF StatSource
<1>4. CASE CopyStatDest
  <2>1. cmd.stage = "dest" /\ Same
    BY <1>4 DEF CopyStatDest, At, Same, Quietly
  <2>2. \/ \E d : cmd' = [cmd EXCEPT !.stage = "open", !.dest = d, !.from = Source, !.to = d]
        \/ cmd' = [cmd EXCEPT !.stage = "open", !.from = Source, !.to = cmd.dest, !.missed = Missing(cmd.dest)]
    BY <1>4 DEF CopyStatDest
  <2>3. CASE cmd' = [cmd EXCEPT !.stage = "open", !.from = Source, !.to = cmd.dest, !.missed = Missing(cmd.dest)]
    <3>1. DoesStatDest
      BY <1>1, <2>1, <2>3 DEF DoesStatDest
    <3> QED
      BY <3>1
  <2>4. ASSUME NEW d, cmd' = [cmd EXCEPT !.stage = "open", !.dest = d, !.from = Source, !.to = d]
        PROVE  DoesStatDest
    <3>1. /\ cmd'.stage = "open" /\ cmd'.from = Source /\ cmd'.to = cmd'.dest /\ cmd'.dirs = cmd.dirs
          /\ cmd'.touched = cmd.touched /\ cmd'.code = cmd.code
      BY <1>1, <2>4
    <3> QED
      BY <2>1, <3>1 DEF DoesStatDest
  <2> QED
    BY <2>2, <2>3, <2>4
<1>5. CASE CopyStatDestOfDir
  <2>1. Failed \/ DoesStatDestOfDir
    BY <1>1, <1>2, <1>5 DEF CopyStatDestOfDir, At, DoesStatDestOfDir, Same, Along, Quietly
  <2> QED
    BY <2>1
<1>6. CASE CopyLook
  <2>1. Failed \/ DoesLook
    BY <1>1, <1>6 DEF CopyLook, At, Goto, DoesLook, Failed, Same, Along, Quietly
  <2> QED
    BY <2>1
<1>7. CASE CopyMkdir
  <2>1. Failed \/ DoesMkdir
    BY <1>1, <1>2, <1>7 DEF CopyMkdir, Fails, At, Goto, DoesMkdir, Along
  <2> QED
    BY <2>1
<1>8. CASE CopyList
  <2>1. Failed \/ DoesList
    BY <1>1, <1>2, <1>8 DEF CopyList, At, DoesList, Same, Along, Quietly
  <2> QED
    BY <2>1
<1>9. CASE CopyEntry
  <2>1. PICK e \in Top.todo :
           cmd' = IF e.isDir
                  THEN [cmd EXCEPT !.stage = "look", !.dirs =
                           Append(Rest(e), Frame(Append(Top.source, e.name), Append(Top.dest, e.name)))]
                  ELSE [cmd EXCEPT !.stage = "open", !.dirs = Rest(e),
                           !.from = Append(Top.source, e.name), !.to = Append(Top.dest, e.name)]
    BY <1>9 DEF CopyEntry
  <2>2. DoesEntry(e)
    BY <1>1, <1>9, <2>1 DEF CopyEntry, At, DoesEntry, Same, Along, Quietly
  <2> QED
    BY <2>2
<1>10. CASE CopyLeave
  <2>1. DoesLeave
    BY <1>1, <1>10 DEF CopyLeave, At, DoesLeave, Same, Along, Quietly
  <2> QED
    BY <2>1
<1>11. CASE CopyOpen
  <2>1. Failed \/ DoesOpen
    BY <1>1, <1>2, <1>11 DEF CopyOpen, At, DoesOpen, Same, Filed, Along, Quietly
  <2> QED
    BY <2>1
<1>12. CASE CopyCreate
  <2>1. Failed \/ DoesCreate
    BY <1>1, <1>2, <1>12 DEF CopyCreate, Fails, At, DoesCreate, Filed, Along
  <2> QED
    BY <2>1
<1>13. CASE CopyFill
  <2>1. Failed \/ DoesFill
    BY <1>1, <1>2, <1>13 DEF CopyFill, At, DoesFill, Filed, Along
  <2> QED
    BY <2>1
<1>14. CASE Meddling
  BY <1>14, OthersAre
<1>15. CASE Ended
  BY <1>15 DEF Ended
<1>16. ~Removing /\ ~MoveStatDest /\ ~MoveStatUnder /\ ~MoveRename
  BY DEF Removing, At, RemoveStat, RemoveOne, RemoveBelow, RemoveTop, MoveStatDest, MoveStatUnder, MoveRename
<1> QED
  BY <1>3, <1>4, <1>5, <1>6, <1>7, <1>8, <1>9, <1>10, <1>11, <1>12, <1>13, <1>14, <1>15, <1>16
     DEF Next, Moving, Copying

-----------------------------------------------------------------------------
\* cp: the stack after a step.
SameFrames == \A i \in Levels : /\ cmd'.dirs[i].source = cmd.dirs[i].source
                                /\ cmd'.dirs[i].dest = cmd.dirs[i].dest
                                /\ i # Len(cmd.dirs) => cmd'.dirs[i] = cmd.dirs[i]

LEMMA StackOfList ==
    ASSUME IInv, cmd.op = "cp", DoesList
    PROVE  /\ cmd.dirs # <<>> /\ cmd'.dirs # <<>> /\ Len(cmd'.dirs) = Len(cmd.dirs) /\ SameFrames
           /\ cmd'.dirs[Len(cmd.dirs)].todo = Listed(Top.source)
<1>1. cmd \in Cmds /\ cmd.dirs # <<>>
  BY DEF IInv, Typed, Pairs, Looking, DoesList
<1>2. PICK D, x : D = cmd'.dirs /\ x = Listed(Top.source)
  OBVIOUS
<1>3. x \in SUBSET [name : Names, isDir : BOOLEAN]
  BY <1>1, <1>2, ListedIs, TopIs
<1>4. D = [cmd.dirs EXCEPT ![Len(cmd.dirs)].todo = x]
  BY <1>2 DEF DoesList
<1> QED
  BY <1>1, <1>2, <1>3, <1>4, TopWith DEF SameFrames, WithTop

LEMMA StackOfEntry ==
    ASSUME IInv, cmd.op = "cp", NEW e \in Top.todo, DoesEntry(e)
    PROVE  /\ cmd.dirs # <<>> /\ cmd'.dirs # <<>> /\ SameFrames
           /\ e.name \in Names /\ e.isDir \in BOOLEAN
           /\ cmd'.dirs[Len(cmd.dirs)].todo = Top.todo \ {e}
           /\ e.isDir =>
                 /\ Len(cmd'.dirs) = Len(cmd.dirs) + 1
                 /\ cmd'.dirs[Len(cmd.dirs) + 1] = Frame(Append(Top.source, e.name), Append(Top.dest, e.name))
           /\ ~e.isDir => Len(cmd'.dirs) = Len(cmd.dirs)
<1>1. cmd \in Cmds /\ cmd.dirs # <<>>
  BY DEF IInv, Typed, Pairs, Looking, DoesEntry
<1>2. PICK D, x : D = Rest(e) /\ x = Top.todo \ {e}
  OBVIOUS
<1>3. x \in SUBSET [name : Names, isDir : BOOLEAN] /\ e.name \in Names /\ e.isDir \in BOOLEAN
  BY <1>1, <1>2, TopIs
<1>4. D = [cmd.dirs EXCEPT ![Len(cmd.dirs)].todo = x]
  BY <1>2 DEF Rest, Top, Last
<1>5. WithTop(D, x)
  BY <1>1, <1>3, <1>4, TopWith
<1>6. CASE ~e.isDir
  <2>1. cmd'.dirs = D
    BY <1>2, <1>6 DEF DoesEntry
  <2> QED
    BY <1>1, <1>2, <1>3, <1>5, <1>6, <2>1 DEF SameFrames, WithTop
<1>7. CASE e.isDir
  <2>1. PICK f : f = Frame(Append(Top.source, e.name), Append(Top.dest, e.name))
    OBVIOUS
  <2>2. f \in Frames
    BY <1>1, <1>3, <2>1, FrameIs, AppendIs, TopIs
  <2>3. cmd'.dirs = Append(D, f)
    BY <1>2, <1>7, <2>1 DEF DoesEntry
  <2>4. /\ Len(cmd'.dirs) = Len(D) + 1 /\ cmd'.dirs # <<>>
        /\ \A i \in 1..Len(D) : cmd'.dirs[i] = D[i]
        /\ cmd'.dirs[Len(D) + 1] = f
    BY <1>5, <2>2, <2>3, Pushed DEF WithTop
  <2>5. \A i \in Levels : cmd'.dirs[i] = D[i]
    BY <1>5, <2>4 DEF Levels, WithTop
  <2>6. Len(cmd.dirs) \in Levels
    BY <1>1, TopIs
  <2> QED
    BY <1>1, <1>2, <1>3, <1>5, <1>7, <2>1, <2>4, <2>5, <2>6 DEF SameFrames, WithTop
<1> QED
  BY <1>3, <1>6, <1>7

LEMMA StackOfLeave ==
    ASSUME IInv, cmd.op = "cp", DoesLeave
    PROVE  /\ cmd.dirs # <<>> /\ Len(cmd.dirs) \in Nat \ {0} /\ Top = cmd.dirs[Len(cmd.dirs)]
           /\ Len(cmd.dirs) # 1 =>
                 /\ cmd'.dirs # <<>> /\ Len(cmd'.dirs) = Len(cmd.dirs) - 1
                 /\ \A i \in 1..Len(cmd.dirs) - 1 : cmd'.dirs[i] = cmd.dirs[i]
<1>1. cmd \in Cmds /\ cmd.dirs # <<>>
  BY DEF IInv, Typed, Pairs, Looking, DoesLeave
<1> QED
  BY <1>1, Popped, CmdIs, TopIs DEF DoesLeave

LEMMA PairsStep ==
    ASSUME IInv, Typed', Next
    PROVE  Pairs'
<1>1. /\ Kept /\ Pairs /\ Typed /\ cmd \in Cmds /\ Tree /\ Source \in Seq(Names)
      /\ cmd'.dest \in Seq(Names) /\ cmd.dest \in Seq(Names)
  <2>1. cmd'.dest \in Seq(Names)
    BY DEF Typed, Cmds
  <2> QED
    BY <2>1, KeptStep, CmdIs, ArgsAre DEF IInv, Typed
<1> SUFFICES ASSUME cmd.op = "cp" PROVE Pairs'
  BY <1>1 DEF Pairs, Kept
<1> DEFINE Stack == \A i \in 1..Len(cmd'.dirs) : Paired(cmd'.dirs[i].source, cmd'.dirs[i].dest)
<1>3. ASSUME cmd'.dest = cmd.dest, Stack PROVE \A i \in Levels' : Paired(cmd.dirs[i].source, cmd.dirs[i].dest)'
  BY <1>1, <1>3 DEF Kept, Paired, CopyOf, Moved, Source, Levels
<1>4. cmd'.dirs = cmd.dirs => Stack
  BY <1>1 DEF Pairs, Levels
<1>5. CASE Failed
  <2>1. \A i \in Levels' : Paired(cmd.dirs[i].source, cmd.dirs[i].dest)'
    BY <1>3, <1>4, <1>5 DEF Failed
  <2> QED
    BY <1>5, <2>1 DEF Pairs, Failed, Early, Looking, Filing
<1>6. CASE cmd'.stage \in Early /\ Along /\ cmd'.dirs = cmd.dirs /\ StatSource
  <2>1. \A i \in Levels' : Paired(cmd.dirs[i].source, cmd.dirs[i].dest)'
    BY <1>3, <1>4, <1>6 DEF Along
  <2>2. cmd.dirs = <<>>
    BY <1>1, <1>6 DEF StatSource, At, Pairs, Early
  <2> QED
    BY <1>6, <2>1, <2>2 DEF Pairs, Early, Looking, Filing
<1>7. CASE DoesStatDest
  <2>1. cmd.dirs = <<>> /\ cmd'.dirs = <<>> /\ Levels' = {}
    BY <1>1, <1>7 DEF DoesStatDest, Pairs, Early, Levels
  <2>2. IsPrefix(Source, Source) /\ Moved(Source, cmd'.dest, Source) = cmd'.dest
    BY <1>1, PrefixOrder, MovedBack
  <2>3. Paired(cmd.from, cmd.to)' /\ cmd'.from = Source'
    BY <1>1, <1>7, <2>2 DEF DoesStatDest, Paired, CopyOf, Kept, Source
  <2> QED
    BY <1>7, <2>1, <2>3 DEF Pairs, DoesStatDest, Early, Looking, Filing
<1>8. CASE DoesStatDestOfDir
  <2>1. /\ Len(cmd'.dirs) = 1 /\ cmd'.dirs # <<>>
        /\ cmd'.dirs[1].source = Source /\ cmd'.dirs[1].dest = cmd.dest
    BY <1>1, <1>8, FrameIs DEF DoesStatDestOfDir
  <2>2. IsPrefix(Source, Source) /\ CopyOf(Source) = cmd.dest
    BY <1>1, PrefixOrder, MovedBack DEF CopyOf
  <2>3. Stack
    BY <2>1, <2>2 DEF Paired
  <2>4. \A i \in Levels' : Paired(cmd.dirs[i].source, cmd.dirs[i].dest)'
    BY <1>3, <1>8, <2>3 DEF DoesStatDestOfDir, Along
  <2> QED
    BY <1>8, <2>1, <2>4 DEF Pairs, DoesStatDestOfDir, Early, Looking, Filing
<1>9. CASE DoesLook \/ DoesMkdir
  <2>1. cmd'.dirs = cmd.dirs /\ cmd'.dest = cmd.dest /\ cmd.dirs # <<>> /\ cmd'.stage \in {"mkdir", "list"}
    BY <1>1, <1>9 DEF DoesLook, DoesMkdir, Along, Pairs, Looking
  <2>2. \A i \in Levels' : Paired(cmd.dirs[i].source, cmd.dirs[i].dest)'
    BY <1>3, <1>4, <2>1
  <2> QED
    BY <2>1, <2>2 DEF Pairs, Early, Looking, Filing
<1>10. CASE DoesList
  <2>1. cmd'.dirs # <<>> /\ Len(cmd'.dirs) = Len(cmd.dirs) /\ SameFrames
    BY <1>10, StackOfList
  <2>2. Stack
    BY <1>1, <2>1 DEF Pairs, Levels, SameFrames
  <2>3. \A i \in Levels' : Paired(cmd.dirs[i].source, cmd.dirs[i].dest)'
    BY <1>3, <1>10, <2>2 DEF DoesList, Along
  <2> QED
    BY <1>10, <2>1, <2>3 DEF Pairs, DoesList, Early, Looking, Filing
<1>11. ASSUME NEW e \in Top.todo, DoesEntry(e) PROVE Pairs'
  <2> DEFINE s == Append(Top.source, e.name)
  <2> DEFINE d == Append(Top.dest, e.name)
  <2>1. /\ cmd.dirs # <<>> /\ cmd'.dirs # <<>> /\ SameFrames /\ e.name \in Names /\ e.isDir \in BOOLEAN
        /\ e.isDir => Len(cmd'.dirs) = Len(cmd.dirs) + 1 /\ cmd'.dirs[Len(cmd.dirs) + 1] = Frame(s, d)
        /\ ~e.isDir => Len(cmd'.dirs) = Len(cmd.dirs)
    BY <1>11, StackOfEntry
  <2>2. /\ Len(cmd.dirs) \in Nat \ {0} /\ Len(cmd.dirs) \in Levels /\ Top = cmd.dirs[Len(cmd.dirs)]
        /\ Top.source \in Seq(Names) /\ Top.dest \in Seq(Names)
    BY <1>1, <2>1, TopIs
  <2>3. s \in Seq(Names) /\ d \in Seq(Names) /\ Paired(s, d)
    <3>1. IsPrefix(Source, Top.source) /\ Top.dest = Moved(Source, cmd.dest, Top.source)
      BY <1>1, <2>2 DEF Pairs, Paired, CopyOf
    <3> QED
      BY <1>1, <2>1, <2>2, <3>1, AppendIs, MovedAppend DEF Paired, CopyOf
  <2>4. Frame(s, d).source = s /\ Frame(s, d).dest = d
    BY DEF Frame
  <2> HIDE DEF s, d
  <2>5. \A i \in Levels : Paired(cmd'.dirs[i].source, cmd'.dirs[i].dest)
    BY <1>1, <2>1 DEF Pairs, SameFrames
  <2>6. Stack
    <3>1. CASE ~e.isDir
      BY <2>1, <2>5, <3>1 DEF Levels
    <3>2. CASE e.isDir
      <4>1. \A i \in 1..Len(cmd'.dirs) : i \in Levels \/ i = Len(cmd.dirs) + 1
        BY <2>1, <2>2, <3>2 DEF Levels
      <4> QED
        BY <2>1, <2>3, <2>4, <2>5, <3>2, <4>1
    <3> QED
      BY <2>1, <3>1, <3>2
  <2>7. \A i \in Levels' : Paired(cmd.dirs[i].source, cmd.dirs[i].dest)'
    BY <1>3, <1>11, <2>6 DEF DoesEntry, Along
  <2>8. CASE e.isDir
    BY <1>11, <2>1, <2>7, <2>8 DEF Pairs, DoesEntry, Early, Looking, Filing
  <2>9. CASE ~e.isDir
    <3>1. cmd'.stage = "open" /\ cmd'.from = s /\ cmd'.to = d
      BY <1>11, <2>9 DEF DoesEntry, s, d
    <3>2. Paired(cmd.from, cmd.to)'
      BY <1>1, <1>11, <2>3, <3>1 DEF DoesEntry, Along, Kept, Paired, CopyOf, Moved, Source
    <3> QED
      BY <2>1, <2>7, <3>1, <3>2 DEF Pairs, Early, Looking, Filing
  <2> QED
    BY <2>8, <2>9
<1>12. CASE DoesLeave
  <2>1. /\ cmd.dirs # <<>> /\ Len(cmd.dirs) \in Nat \ {0}
        /\ Len(cmd.dirs) # 1 => /\ cmd'.dirs # <<>> /\ Len(cmd'.dirs) = Len(cmd.dirs) - 1
                                /\ \A i \in 1..Len(cmd.dirs) - 1 : cmd'.dirs[i] = cmd.dirs[i]
    BY <1>12, StackOfLeave
  <2>2. Stack
    <3>1. CASE Len(cmd.dirs) = 1
      BY <1>4, <1>12, <3>1 DEF DoesLeave
    <3>2. CASE Len(cmd.dirs) # 1
      BY <1>1, <2>1, <3>2 DEF Pairs, Levels
    <3> QED
      BY <3>1, <3>2
  <2>3. \A i \in Levels' : Paired(cmd.dirs[i].source, cmd.dirs[i].dest)'
    BY <1>3, <1>12, <2>2 DEF DoesLeave, Along
  <2> QED
    BY <1>12, <2>1, <2>3 DEF Pairs, DoesLeave, Early, Looking, Filing
<1>13. ASSUME cmd.stage \in Filing, Filed \/ Awaits, cmd'.stage \in Filing
       PROVE  /\ \A i \in Levels' : Paired(cmd.dirs[i].source, cmd.dirs[i].dest)'
              /\ Paired(cmd.from, cmd.to)' /\ (cmd'.dirs = <<>> => cmd'.from = Source')
  <2>1. cmd'.dirs = cmd.dirs /\ cmd'.dest = cmd.dest /\ cmd'.from = cmd.from /\ cmd'.to = cmd.to
    BY <1>13 DEF Filed, Along, Awaits
  <2>2. Paired(cmd.from, cmd.to) /\ (cmd.dirs = <<>> => cmd.from = Source)
    BY <1>1, <1>13 DEF Pairs
  <2>3. Paired(cmd.from, cmd.to)' /\ (cmd'.dirs = <<>> => cmd'.from = Source')
    BY <1>1, <2>1, <2>2 DEF Paired, Kept, Source, CopyOf, Moved
  <2> QED
    BY <1>3, <1>4, <2>1, <2>3
<1>14. CASE DoesOpen
  <2>1. /\ \A i \in Levels' : Paired(cmd.dirs[i].source, cmd.dirs[i].dest)'
        /\ Paired(cmd.from, cmd.to)' /\ (cmd'.dirs = <<>> => cmd'.from = Source')
    BY <1>13, <1>14 DEF DoesOpen, Filing
  <2> QED
    BY <1>14, <2>1 DEF Pairs, DoesOpen, Early, Looking, Filing
<1>15. CASE DoesCreate
  <2>1. /\ \A i \in Levels' : Paired(cmd.dirs[i].source, cmd.dirs[i].dest)'
        /\ Paired(cmd.from, cmd.to)' /\ (cmd'.dirs = <<>> => cmd'.from = Source')
    BY <1>13, <1>15 DEF DoesCreate, Filing
  <2>2. cmd.to \in Paths /\ cmd.out = NoFile
    BY <1>15 DEF DoesCreate, MayCreate, IInv, StageFits
  <2>3. \A q \in Paths : node[q] = FileFor(cmd.to) => q = cmd.to
    BY <1>1, <1>15, <2>2, FileForIs DEF DoesCreate
  <2>4. \A q \in Paths : node'[q] = IF q = cmd.to THEN FileFor(cmd.to) ELSE node[q]
    BY <1>1, <1>15 DEF DoesCreate, Typed
  <2>5. /\ \A q \in Paths : node'[q] = cmd'.out => q = cmd'.to
        /\ cmd'.to \in Paths /\ node'[cmd'.to] = cmd'.out
    BY <1>15, <2>2, <2>3, <2>4 DEF DoesCreate, Filed
  <2> QED
    BY <1>15, <2>1, <2>5 DEF Pairs, DoesCreate, Early, Looking, Filing
<1>16. CASE DoesFill
  <2>1. cmd'.dirs = cmd.dirs /\ cmd'.dest = cmd.dest /\ cmd'.stage = IF cmd'.dirs = <<>> THEN "done" ELSE "entries"
    BY <1>16 DEF DoesFill, Filed, Along
  <2>2. \A i \in Levels' : Paired(cmd.dirs[i].source, cmd.dirs[i].dest)'
    BY <1>3, <1>4, <2>1
  <2> QED
    BY <2>1, <2>2 DEF Pairs, Early, Looking, Filing
<1>17. CASE Elsewhere /\ Awaits
  <2>1. cmd'.dirs = cmd.dirs /\ cmd'.dest = cmd.dest /\ cmd'.stage = cmd.stage
    BY <1>17 DEF Awaits
  <2>2. \A i \in Levels' : Paired(cmd.dirs[i].source, cmd.dirs[i].dest)'
    BY <1>3, <1>4, <2>1
  <2>3. cmd'.stage \in Filing => Paired(cmd.from, cmd.to)' /\ (cmd'.dirs = <<>> => cmd'.from = Source')
    BY <1>13, <1>17, <2>1
  <2>4. ASSUME cmd.stage = "fill"
        PROVE  /\ \A q \in Paths : node'[q] = cmd'.out => q = cmd'.to \/ q \in cmd'.touched
               /\ cmd'.to \in Paths /\ (cmd'.to \notin cmd'.touched => node'[cmd'.to] = cmd'.out)
    <3>1. /\ \A q \in Paths : node[q] = cmd.out => q = cmd.to \/ q \in cmd.touched
          /\ cmd.to \in Paths /\ (cmd.to \notin cmd.touched => node[cmd.to] = cmd.out)
      BY <1>1, <2>4 DEF Pairs
    <3> QED
      BY <1>17, <3>1 DEF Elsewhere, Awaits
  <2> QED
    BY <1>1, <2>1, <2>2, <2>3, <2>4 DEF Pairs
<1>18. CASE UNCHANGED vars
  BY <1>1, <1>18 DEF vars, Pairs, Paired, CopyOf, Source, Levels
<1> QED
  BY <1>5, <1>6, <1>7, <1>8, <1>9, <1>10, <1>11, <1>12, <1>14, <1>15, <1>16, <1>17, <1>18, CopySteps

LEMMA SourcedStep ==
    ASSUME IInv, Typed', Next
    PROVE  Sourced'
<1>1. /\ Kept /\ Sourced /\ Pairs /\ Typed /\ cmd \in Cmds /\ Source \in Paths /\ Source' = Source
      /\ cmd.touched \subseteq Paths
  BY KeptStep, ArgsAre, CmdIs DEF IInv, Typed, Kept, Source
<1> SUFFICES ASSUME cmd.op = "cp", Source \notin cmd'.touched PROVE Sourced'
  BY <1>1 DEF Sourced, Kept
<1>2. ASSUME node'[Source] = node[Source]
      PROVE  (IsFile(Source)' <=> IsFile(Source)) /\ (IsDir(Source)' <=> IsDir(Source))
  BY <1>1, <1>2 DEF IsFile, IsDir, Exists
<1>3. CASE Failed
  BY <1>3 DEF Failed, Sourced
<1>4. CASE StatSource /\ cmd'.stage \in Early /\ Same
  <2>1. /\ Exists(Source) /\ (cmd'.stage = "destOfDir" <=> IsDir(Source))
        /\ cmd'.stage \in {"dest", "destOfDir"}
    BY <1>1, <1>4 DEF StatSource, Exit, Goto, Cmds, Early
  <2> QED
    BY <1>2, <1>4, <2>1 DEF Sourced, Same, IsFile
<1>5. CASE DoesStatDest
  <2>1. IsFile(Source)
    BY <1>1, <1>5 DEF DoesStatDest, Sourced
  <2> QED
    BY <1>2, <1>5, <2>1 DEF DoesStatDest, Same, Sourced
<1>6. CASE DoesStatDestOfDir \/ DoesLook \/ DoesMkdir \/ DoesList \/ DoesLeave \/ DoesCreate
  BY <1>6 DEF DoesStatDestOfDir, DoesLook, DoesMkdir, DoesList, DoesLeave, DoesCreate, Sourced
<1>7. CASE DoesFill
  BY <1>7 DEF DoesFill, Sourced
<1>8. ASSUME NEW e \in Top.todo, DoesEntry(e) PROVE Sourced'
  <2>1. cmd'.dirs # <<>>
    BY <1>8, StackOfEntry
  <2> QED
    BY <1>8, <2>1 DEF DoesEntry, Sourced
<1>9. CASE DoesOpen
  <2>1. cmd'.dirs = <<>> => IsFile(Source)
    BY <1>1, <1>9 DEF DoesOpen, Filed, Along, Sourced
  <2> QED
    BY <1>2, <1>9, <2>1 DEF DoesOpen, Same, Sourced
<1>10. CASE Elsewhere /\ Awaits
  <2>1. Source \notin cmd.touched /\ cmd'.stage = cmd.stage /\ cmd'.dirs = cmd.dirs /\ node'[Source] = node[Source]
    BY <1>1, <1>10 DEF Elsewhere, Awaits
  <2> QED
    BY <1>1, <1>2, <2>1 DEF Sourced
<1>11. CASE UNCHANGED vars
  BY <1>1, <1>2, <1>11 DEF vars, Sourced
<1> QED
  BY <1>3, <1>4, <1>5, <1>6, <1>7, <1>8, <1>9, <1>10, <1>11, CopySteps

-----------------------------------------------------------------------------
\* cp: what is to be copied is copied or ahead.
LEMMA CopyOfIs ==
    ASSUME Typed, NEW p \in Seq(Names), IsPrefix(Source, p)
    PROVE  /\ CopyOf(p) \in Seq(Names) /\ IsPrefix(cmd.dest, CopyOf(p))
           /\ \A q \in Seq(Names) : IsPrefix(Source, q) /\ CopyOf(q) = CopyOf(p) => q = p
<1>1. Source \in Seq(Names) /\ cmd.dest \in Seq(Names) /\ p \in Seq(Names)
  BY ArgsAre, CmdIs, FilesAre DEF Typed
<1> QED
  BY <1>1, MovedIs, MovedOrder DEF CopyOf

\* A step in which neither of two files changes, nor the destination.
LEMMA OwedBefore ==
    ASSUME Kept, cmd'.dest = cmd.dest, cmd.touched \subseteq cmd'.touched,
           NEW p \in Paths, node'[p] = node[p], Owed(p)'
    PROVE  Owed(p)
BY DEF Kept, Owed, Untouched, CopyOf, Moved, Source, IsFile, IsDir, Exists

LEMMA CopiedAfter ==
    ASSUME Kept, cmd'.dest = cmd.dest, NEW p \in Paths, NEW q \in Paths, q = CopyOf(p),
           IsFile(p), Copied(p),
           node'[p] = node[p], node'[q] = node[q], data'[node[p]] = data[node[p]], data'[node[q]] = data[node[q]]
    PROVE  Copied(p)'
<1>1. CopyOf(p)' = q
  BY DEF Kept, CopyOf, Moved, Source
<1>2. IsFile(q) /\ Content(q) = Content(p)
  BY DEF Copied
<1>3. IsFile(q)' /\ IsFile(p)'
  BY <1>2 DEF IsFile, IsDir, Exists
<1>4. Content(q)' = Content(p)'
  BY <1>2, <1>3 DEF Content
<1>5. IsFile(CopyOf(p))' /\ Content(CopyOf(p))' = Content(p)'
  BY <1>1, <1>3, <1>4 DEF IsFile, IsDir, Exists, Content
<1> QED
  BY <1>5 DEF Copied

LEMMA CopiedIs ==
    ASSUME NEW p, Copied(p)
    PROVE  CopyOf(p) \in Paths
BY DEF Copied, IsFile, Exists

LEMMA SameCopies ==
    ASSUME Kept, Same, Along, NEW p \in Paths
    PROVE  /\ Owed(p)' => Owed(p)
           /\ Owed(p) /\ Copied(p) => Copied(p)'
<1>1. Owed(p)' => Owed(p)
  BY OwedBefore DEF Same, Along
<1>2. ASSUME Owed(p), Copied(p) PROVE Copied(p)'
  <2>1. PICK q \in Paths : q = CopyOf(p)
    BY <1>2, CopiedIs
  <2> QED
    BY <1>2, <2>1, CopiedAfter DEF Same, Along, Owed
<1> QED
  BY <1>1, <1>2

LEMMA AheadSame ==
    ASSUME cmd'.dirs = cmd.dirs, cmd'.stage # "done",
           cmd.stage \in {"look", "mkdir", "list"} => cmd'.stage \in {"look", "mkdir", "list"},
           cmd.stage \in Filing => cmd'.stage \in Filing /\ cmd'.from = cmd.from,
           NEW p, Ahead(p)
    PROVE  Ahead(p)'
BY DEF Ahead, Listing, Levels, Top

LEMMA CopiesOfDest ==
    ASSUME IInv, Typed', Next, cmd.op = "cp", DoesStatDest \/ DoesStatDestOfDir, NEW p \in Paths, Owed(p)'
    PROVE  Ahead(p)'
<1>1. Kept /\ Typed /\ Tree /\ Source \in Seq(Names) /\ Source \in Paths
  BY KeptStep, ArgsAre DEF IInv, Typed
<1>2. IsPrefix(Source, p) /\ IsFile(p)
  BY <1>1 DEF Owed, Kept, Source, DoesStatDest, DoesStatDestOfDir, Same, IsFile, IsDir, Exists
<1>3. CASE DoesStatDest
  <2>1. Source \notin cmd.touched
    BY <1>2, <1>3 DEF Owed, Untouched, DoesStatDest
  <2>2. IsFile(Source)
    BY <1>3, <2>1 DEF IInv, Sourced, DoesStatDest
  <2>3. p = Source
    BY <1>1, <1>2, <2>2, AboveIs DEF IsFile
  <2> QED
    BY <1>3, <2>3 DEF DoesStatDest, Ahead, Filing
<1>4. CASE DoesStatDestOfDir
  <2>1. Len(cmd'.dirs) = 1 /\ cmd'.dirs[1].source = Source
    BY <1>1, <1>4, CmdIs, FrameIs DEF DoesStatDestOfDir, Typed
  <2>2. Top'.source = Source
    BY <2>1 DEF Top, Last
  <2> QED
    BY <1>2, <1>4, <2>2 DEF DoesStatDestOfDir, Ahead
<1> QED
  BY <1>3, <1>4

\* What is listed stays so unless its own entry is taken.
LEMMA ListingStays ==
    ASSUME NEW p, NEW i \in Levels, NEW e \in cmd.dirs[i].todo,
           IF e.isDir THEN IsPrefix(Append(cmd.dirs[i].source, e.name), p)
           ELSE Append(cmd.dirs[i].source, e.name) = p,
           i \in Levels', cmd'.dirs[i].source = cmd.dirs[i].source, e \in cmd'.dirs[i].todo
    PROVE  Listing(p)'
BY DEF Listing

\* The listing of a directory has an entry for what is below it.
LEMMA ListedBelow ==
    ASSUME Typed, Tree, NEW s \in Seq(Names), NEW p \in Paths, Exists(p), Below(s, p)
    PROVE  \E e \in Listed(s) :
              /\ e.name \in Names /\ IsPrefix(Append(s, e.name), p)
              /\ (e.isDir <=> IsDir(Append(s, e.name))) /\ (~e.isDir => Append(s, e.name) = p)
<1>1. PICK m \in Names : IsPrefix(Append(s, m), p)
  BY EntryOf, FilesAre
<1>2. Append(s, m) \in Seq(Names)
  BY AppendIs
<1>3. Exists(Append(s, m)) /\ (Append(s, m) # p => IsDir(Append(s, m)))
  BY <1>1, <1>2, AboveIs
<1>4. PICK e \in Listed(s) : e.name = m /\ (e.isDir <=> IsDir(Append(s, m)))
  BY <1>3, ListedIs
<1> QED
  BY <1>1, <1>3, <1>4

\* What is at or below an entry is below the directory.
LEMMA EntryBelow ==
    ASSUME NEW s \in Seq(Names), NEW n \in Names, NEW p \in Seq(Names), IsPrefix(Append(s, n), p)
    PROVE  Below(s, p)
<1> DEFINE a == Append(s, n)
<1>1. a \in Seq(Names) /\ Below(s, a)
  BY AppendIs
<1> HIDE DEF a
<1>2. IsPrefix(a, p)
  BY DEF a
<1>3. IsPrefix(s, a) /\ s # a
  BY <1>1, BelowIs
<1>4. IsPrefix(s, p)
  BY <1>1, <1>2, <1>3, PrefixOrder
<1>5. s # p
  BY <1>1, <1>2, <1>3, PrefixOrder
<1> QED
  BY <1>4, <1>5, BelowIs

LEMMA AheadOfList ==
    ASSUME IInv, cmd.op = "cp", DoesList, NEW p \in Paths, Exists(p), Ahead(p)
    PROVE  Ahead(p)' \/ p = Top.source
<1> DEFINE n == Len(cmd.dirs)
<1>1. /\ Typed /\ Tree /\ cmd \in Cmds /\ cmd.stage = "list" /\ cmd'.stage = "entries"
      /\ p \in Seq(Names)
  BY FilesAre DEF IInv, Typed, DoesList
<1>2. /\ cmd.dirs # <<>> /\ Len(cmd'.dirs) = n /\ SameFrames
      /\ cmd'.dirs[n].todo = Listed(Top.source)
  BY StackOfList
<1>3. n \in Levels /\ Top = cmd.dirs[n] /\ Top.source \in Seq(Names) /\ Levels' = Levels
  BY <1>1, <1>2, TopIs DEF Levels
<1>4. ASSUME Below(Top.source, p) PROVE Ahead(p)'
  <2>1. PICK e \in Listed(Top.source) :
           IsPrefix(Append(Top.source, e.name), p) /\ (~e.isDir => Append(Top.source, e.name) = p)
    BY <1>1, <1>3, <1>4, ListedBelow
  <2>2. cmd'.dirs[n].source = Top.source
    BY <1>2, <1>3 DEF SameFrames
  <2>3. Listing(p)'
    BY <1>2, <1>3, <2>1, <2>2 DEF Listing
  <2> QED
    BY <1>1, <2>3 DEF Ahead
<1>5. CASE IsPrefix(Top.source, p)
  BY <1>1, <1>3, <1>4, <1>5, BelowIs
<1>6. ASSUME NEW i \in Levels, NEW e \in cmd.dirs[i].todo,
             IF e.isDir THEN IsPrefix(Append(cmd.dirs[i].source, e.name), p)
             ELSE Append(cmd.dirs[i].source, e.name) = p
      PROVE  Ahead(p)'
  <2>1. CASE i = n
    <3>1. e.name \in Names
      BY <1>1, <1>6, LevelIs
    <3>2. IsPrefix(Append(Top.source, e.name), p)
      <4>1. IsPrefix(p, p)
        BY <1>1, PrefixOrder
      <4> QED
        BY <1>3, <1>6, <2>1, <4>1
    <3> QED
      BY <1>1, <1>3, <1>4, <3>1, <3>2, EntryBelow
  <2>2. CASE i # n
    <3>1. cmd'.dirs[i] = cmd.dirs[i]
      BY <1>2, <2>2 DEF SameFrames
    <3>2. Listing(p)'
      BY <1>3, <1>6, <3>1, ListingStays
    <3> QED
      BY <1>1, <3>2 DEF Ahead
  <2> QED
    BY <2>1, <2>2
<1> QED
  BY <1>1, <1>5, <1>6 DEF Ahead, Listing, Filing

LEMMA AheadOfEntry ==
    ASSUME IInv, cmd.op = "cp", NEW e \in Top.todo, DoesEntry(e), NEW p \in Paths, Ahead(p)
    PROVE  Ahead(p)'
<1> DEFINE n == Len(cmd.dirs)
<1>1. cmd \in Cmds /\ cmd.stage = "entries" /\ cmd'.stage \in {"look", "open"}
  BY DEF IInv, Typed, DoesEntry
<1>2. /\ cmd.dirs # <<>> /\ cmd'.dirs # <<>> /\ SameFrames
      /\ e.name \in Names /\ e.isDir \in BOOLEAN
      /\ cmd'.dirs[n].todo = Top.todo \ {e}
      /\ e.isDir =>
            /\ Len(cmd'.dirs) = n + 1
            /\ cmd'.dirs[n + 1] = Frame(Append(Top.source, e.name), Append(Top.dest, e.name))
      /\ ~e.isDir => Len(cmd'.dirs) = n
  BY StackOfEntry
<1>3. n \in Levels /\ Top = cmd.dirs[n] /\ Top.source \in Seq(Names) /\ n \in Nat
      /\ \A i \in Levels : i \in Levels'
  BY <1>1, <1>2, TopIs DEF Levels
<1>4. PICK i \in Levels : \E f \in cmd.dirs[i].todo :
         IF f.isDir THEN IsPrefix(Append(cmd.dirs[i].source, f.name), p)
         ELSE Append(cmd.dirs[i].source, f.name) = p
  BY <1>1 DEF Ahead, Listing, Filing
<1>5. PICK f \in cmd.dirs[i].todo :
         IF f.isDir THEN IsPrefix(Append(cmd.dirs[i].source, f.name), p)
         ELSE Append(cmd.dirs[i].source, f.name) = p
  BY <1>4
<1>6. CASE i # n \/ f # e
  <2>1. f \in cmd'.dirs[i].todo /\ cmd'.dirs[i].source = cmd.dirs[i].source
    BY <1>2, <1>3, <1>6 DEF SameFrames
  <2>2. Listing(p)'
    BY <1>3, <1>5, <2>1, ListingStays
  <2> QED
    BY <1>1, <2>2 DEF Ahead
<1>7. CASE i = n /\ f = e /\ e.isDir
  <2>1. cmd'.stage = "look" /\ Top'.source = Append(Top.source, e.name)
    <3>1. cmd'.stage = "look"
      BY <1>7 DEF DoesEntry
    <3>2. Top' = cmd'.dirs[n + 1]
      BY <1>2, <1>7 DEF Top, Last
    <3> QED
      BY <1>2, <1>7, <3>1, <3>2 DEF Frame
  <2> QED
    BY <1>3, <1>5, <1>7, <2>1 DEF Ahead
<1>8. CASE i = n /\ f = e /\ ~e.isDir
  BY <1>3, <1>5, <1>8 DEF DoesEntry, Ahead, Filing
<1> QED
  BY <1>6, <1>7, <1>8

LEMMA AheadOfLeave ==
    ASSUME IInv, cmd.op = "cp", DoesLeave, NEW p \in Paths, Ahead(p)
    PROVE  Ahead(p)'
<1> DEFINE n == Len(cmd.dirs)
<1>1. cmd \in Cmds /\ cmd.stage = "entries" /\ Top.todo = {}
  BY DEF IInv, Typed, DoesLeave
<1>2. /\ cmd.dirs # <<>> /\ n \in Nat \ {0} /\ Top = cmd.dirs[n]
      /\ n # 1 => Len(cmd'.dirs) = n - 1 /\ \A i \in 1..n - 1 : cmd'.dirs[i] = cmd.dirs[i]
  BY StackOfLeave
<1>3. PICK i \in Levels : \E f \in cmd.dirs[i].todo :
         IF f.isDir THEN IsPrefix(Append(cmd.dirs[i].source, f.name), p)
         ELSE Append(cmd.dirs[i].source, f.name) = p
  BY <1>1 DEF Ahead, Listing, Filing
<1>4. i # n /\ i \in 1..n - 1 /\ n # 1
  BY <1>1, <1>2, <1>3 DEF Levels
<1>5. i \in Levels' /\ cmd'.dirs[i] = cmd.dirs[i]
  BY <1>2, <1>4 DEF Levels
<1>6. Listing(p)'
  BY <1>3, <1>5 DEF Listing
<1>7. cmd'.stage = "entries"
  BY <1>4 DEF DoesLeave
<1> QED
  BY <1>6, <1>7 DEF Ahead

LEMMA CopiesOfMkdir ==
    ASSUME IInv, Typed', Kept, DoesMkdir, NEW p \in Paths, cmd.op = "cp", cmd.code = "ok", Owed(p)'
    PROVE  Copied(p)' \/ Ahead(p)'
<1>1. Typed /\ Tree /\ cmd'.dest = cmd.dest /\ cmd'.touched = cmd.touched /\ data' = data
  BY DEF IInv, DoesMkdir, Along
<1>2. PICK d \in Paths : d = Top.dest /\ MayMakeAll(d) /\ node' = MadeAll(d)
  BY DEF DoesMkdir, MayMakeAll
<1>3. ASSUME NEW q \in Paths, node'[q] # Dir \/ IsFile(q)
      PROVE  node'[q] = node[q]
  <2>1. node'[q] = IF IsPrefix(q, d) THEN Dir ELSE node[q]
    BY <1>2 DEF MadeAll
  <2>2. IsPrefix(q, d) => ~IsFile(q)
    BY <1>2 DEF MayMakeAll
  <2> QED
    BY <1>3, <2>1, <2>2
<1>4. node'[p] = node[p]
  <2>1. node'[p] # Dir
    BY DEF Owed, IsFile, IsDir, Exists
  <2> QED
    BY <1>3, <2>1
<1>5. Owed(p)
  BY <1>1, <1>4, OwedBefore
<1>6. Copied(p) \/ Ahead(p)
  BY <1>5 DEF IInv, Copies, DoesMkdir, Early
<1>7. CASE Copied(p)
  <2>1. PICK q \in Paths : q = CopyOf(p) /\ IsFile(q)
    BY <1>7 DEF Copied, IsFile, Exists
  <2>2. node'[q] = node[q]
    BY <1>3, <2>1
  <2> QED
    BY <1>1, <1>4, <1>5, <1>7, <2>1, <2>2, CopiedAfter DEF Owed
<1>8. CASE Ahead(p)
  BY <1>8, AheadSame DEF DoesMkdir, Filing
<1> QED
  BY <1>6, <1>7, <1>8

LEMMA CopiesOfCreate ==
    ASSUME IInv, Typed', Kept, DoesCreate, NEW p \in Paths, cmd.op = "cp", Owed(p)'
    PROVE  /\ p = cmd.from => Owed(p) /\ node'[p] = node[p]
           /\ cmd.code = "ok" => Copied(p)' \/ Ahead(p)'
<1>1. /\ Typed /\ Tree /\ cmd'.dest = cmd.dest /\ cmd'.touched = cmd.touched
      /\ cmd.out = NoFile /\ MayCreate(cmd.to) /\ cmd.to \in Paths
  BY DEF IInv, StageFits, DoesCreate, Filed, Along, MayCreate
<1>2. /\ \A q \in Paths : node[q] = FileFor(cmd.to) => q = cmd.to
      /\ FileFor(cmd.to) \in Files
  BY <1>1, FileForIs
<1>3. IsPrefix(Source, cmd.from) /\ cmd.from \in Seq(Names) /\ cmd.to = CopyOf(cmd.from)
  BY <1>1, CmdIs DEF IInv, Pairs, Paired, DoesCreate, Filing, Typed
<1>4. p # cmd.to
  <2>1. IsPrefix(cmd.dest, cmd.to)
    BY <1>1, <1>3, CopyOfIs
  <2> QED
    BY <1>1, <2>1 DEF Owed
<1>5. /\ \A q \in Paths : q # cmd.to => node'[q] = node[q]
      /\ \A f \in Files : f # FileFor(cmd.to) => data'[f] = data[f]
  BY <1>1, <1>2 DEF DoesCreate, Typed
<1>6. node'[p] = node[p]
  BY <1>4, <1>5
<1>7. Owed(p)
  BY <1>1, <1>6, OwedBefore
<1>8. ASSUME cmd.code = "ok", p # cmd.from, Copied(p) PROVE Copied(p)'
  <2>1. PICK q \in Paths : q = CopyOf(p) /\ IsFile(q)
    BY <1>8 DEF Copied, IsFile, Exists
  <2>2. q # cmd.to
    BY <1>1, <1>3, <1>7, <1>8, <2>1, CopyOfIs, FilesAre DEF Owed
  <2>3. node[p] \in Files /\ node[q] \in Files
    BY <1>1, <1>7, <2>1, KindIs DEF Owed
  <2>4. node'[q] = node[q] /\ data'[node[p]] = data[node[p]] /\ data'[node[q]] = data[node[q]]
    BY <1>2, <1>4, <1>5, <2>2, <2>3
  <2> QED
    BY <1>1, <1>6, <1>7, <1>8, <2>1, <2>4, CopiedAfter DEF Owed
<1>9. ASSUME cmd.code = "ok" PROVE Copied(p)' \/ Ahead(p)'
  <2>1. Copied(p) \/ Ahead(p)
    BY <1>7, <1>9 DEF IInv, Copies, DoesCreate, Early
  <2>2. CASE p = cmd.from
    BY <2>2 DEF Ahead, DoesCreate, Filed, Filing
  <2>3. CASE Ahead(p)
    BY <2>3, AheadSame DEF DoesCreate, Filed, Filing
  <2> QED
    BY <1>8, <1>9, <2>1, <2>2, <2>3
<1> QED
  BY <1>6, <1>7, <1>9

LEMMA CopiesOfFill ==
    ASSUME IInv, Typed', Kept, DoesFill, NEW p \in Paths, cmd.op = "cp", cmd.code = "ok", Owed(p)'
    PROVE  Copied(p)' \/ Ahead(p)'
<1>1. /\ Typed /\ Tree /\ cmd'.dest = cmd.dest /\ cmd'.touched = cmd.touched
      /\ cmd.in \in Files /\ cmd.out \in Files /\ node' = node
      /\ \A q \in Paths : node[q] = cmd.out => q = cmd.to \/ q \in cmd.touched
      /\ cmd.to \in Paths /\ (cmd.to \notin cmd.touched => node[cmd.to] = cmd.out)
  BY CmdIs DEF IInv, DoesFill, Filed, Along, Pairs, Typed
<1>2. IsPrefix(Source, cmd.from) /\ cmd.from \in Seq(Names) /\ cmd.to = CopyOf(cmd.from)
  BY <1>1, CmdIs DEF IInv, Pairs, Paired, DoesFill, Filing, Typed
<1>3. p # cmd.to
  <2>1. IsPrefix(cmd.dest, cmd.to)
    BY <1>1, <1>2, CopyOfIs
  <2> QED
    BY <1>1, <2>1 DEF Owed
<1>4. Owed(p)
  BY <1>1, OwedBefore
<1>5. \A f \in Files : data'[f] = IF f = cmd.out THEN data[cmd.in] ELSE data[f]
  BY <1>1 DEF DoesFill, Typed
<1>9. ASSUME NEW q \in Paths, Untouched(q), IsFile(q), q # cmd.to
      PROVE  node[q] \in Files /\ data'[node[q]] = data[node[q]]
  <2>1. q \notin cmd.touched
    BY <1>9, PrefixOrder, FilesAre DEF Untouched
  <2> QED
    BY <1>1, <1>5, <1>9, <2>1, KindIs
<1>6. node[p] \in Files /\ data'[node[p]] = data[node[p]]
  BY <1>3, <1>4, <1>9 DEF Owed
<1>7. CASE p = cmd.from
  <2>1. cmd.in = node[p]
    BY <1>4, <1>7 DEF IInv, Copies, DoesFill
  <2>2. cmd.to \notin cmd.touched
    <3>1. IsPrefix(cmd.to, cmd.to)
      BY <1>1, PrefixOrder, FilesAre
    <3> QED
      BY <1>2, <1>4, <1>7, <3>1 DEF Owed, Untouched
  <2>3. node[cmd.to] = cmd.out
    BY <1>1, <2>2
  <2>4. PICK q \in Paths : q = cmd.to
    BY <1>1
  <2>5. node[q] = cmd.out /\ node'[q] = cmd.out /\ node'[p] = cmd.in
    BY <1>1, <2>1, <2>3, <2>4
  <2>6. IsFile(q)' /\ IsFile(p)'
    BY <1>1, <2>5, KindNext
  <2>7. CopyOf(p)' = q
    BY <1>1, <1>2, <1>7, <2>4 DEF Kept, CopyOf, Moved, Source
  <2>8. Content(q)' = Content(p)'
    BY <1>1, <1>5, <2>5, <2>6 DEF Content
  <2>9. IsFile(CopyOf(p))' /\ Content(CopyOf(p))' = Content(p)'
    BY <2>6, <2>7, <2>8 DEF IsFile, IsDir, Exists, Content
  <2> QED
    BY <2>9 DEF Copied
<1>8. CASE p # cmd.from
  <2>1. Copied(p) \/ Ahead(p)
    BY <1>4 DEF IInv, Copies, DoesFill, Early
  <2>2. CASE Copied(p)
    <3>1. PICK q \in Paths : q = CopyOf(p) /\ IsFile(q)
      BY <2>2 DEF Copied, IsFile, Exists
    <3>2. q # cmd.to
      BY <1>1, <1>2, <1>4, <1>8, <3>1, CopyOfIs, FilesAre DEF Owed
    <3>3. data'[node[q]] = data[node[q]]
      BY <1>4, <1>9, <3>1, <3>2 DEF Owed
    <3> QED
      BY <1>1, <1>4, <1>6, <2>2, <3>1, <3>3, CopiedAfter DEF Owed
  <2>3. CASE Ahead(p)
    <3>1. Listing(p)
      BY <1>8, <2>3 DEF Ahead, DoesFill
    <3>2. Levels # {}
      BY <3>1 DEF Listing
    <3>3. cmd.dirs # <<>>
      BY <3>2, EmptySeq DEF Levels
    <3>4. Listing(p)'
      BY <3>1 DEF Listing, Levels, DoesFill, Filed
    <3> QED
      BY <3>3, <3>4 DEF Ahead, DoesFill, Filed
  <2> QED
    BY <2>1, <2>2, <2>3
<1> QED
  BY <1>7, <1>8

LEMMA CopiesOfOther ==
    ASSUME IInv, Typed', Kept, Elsewhere, Awaits, NEW p \in Paths, cmd.op = "cp", Owed(p)'
    PROVE  /\ Owed(p) /\ node'[p] = node[p]
           /\ cmd.code = "ok" /\ cmd.stage \notin Early => Copied(p)' \/ Ahead(p)'
<1>1. /\ Typed /\ Tree /\ cmd'.dest = cmd.dest /\ cmd.touched \subseteq cmd'.touched
      /\ CopyOf(p)' = CopyOf(p) /\ cmd'.touched \subseteq Paths
  BY CmdIs DEF IInv, Elsewhere, Awaits, Kept, CopyOf, Moved, Source, Typed, Cmds
<1>2. ASSUME NEW q \in Paths, Untouched(q)'
      PROVE  node'[q] = node[q] /\ (IsFile(q) => data'[node[q]] = data[node[q]])
  <2>1. q \notin cmd'.touched
    BY <1>2, PrefixOrder, FilesAre DEF Untouched
  <2> QED
    BY <2>1 DEF Elsewhere
<1>3. Untouched(p)' /\ \A q \in Paths : q = CopyOf(p) => Untouched(q)'
  BY <1>1 DEF Owed, Untouched
<1>4. Owed(p) /\ node'[p] = node[p]
  BY <1>1, <1>2, <1>3, OwedBefore
<1>5. ASSUME cmd.code = "ok", cmd.stage \notin Early PROVE Copied(p)' \/ Ahead(p)'
  <2>1. Copied(p) \/ Ahead(p)
    BY <1>4, <1>5 DEF IInv, Copies
  <2>2. CASE Copied(p)
    <3>1. PICK q \in Paths : q = CopyOf(p) /\ IsFile(q)
      BY <2>2 DEF Copied, IsFile, Exists
    <3>2. IsFile(p)
      BY <1>4 DEF Owed
    <3> QED
      BY <1>1, <1>2, <1>3, <2>2, <3>1, <3>2, CopiedAfter
  <2>3. CASE Ahead(p)
    BY <2>3, AheadSame DEF Awaits
  <2> QED
    BY <2>1, <2>2, <2>3
<1> QED
  BY <1>4, <1>5

LEMMA CopiesStep ==
    ASSUME IInv, Typed', Next
    PROVE  Copies'
<1>1. Kept /\ Typed /\ cmd \in Cmds /\ cmd.op \in {"mv", "rm", "cp"}
  BY KeptStep, CmdIs DEF IInv, Typed
<1> SUFFICES ASSUME cmd.op = "cp" PROVE Copies'
  BY <1>1 DEF Copies, Kept
<1> DEFINE First == cmd'.code = "ok" /\ cmd'.stage \notin Early =>
                        \A p \in Paths : Owed(p)' => Copied(p)' \/ Ahead(p)'
<1> DEFINE Second == cmd'.stage \in {"create", "fill"} =>
                        \A p \in Paths : p = cmd'.from /\ Owed(p)' => cmd'.in = node'[p]
<1>2. ASSUME First, Second PROVE Copies'
  <2>1. Owed(cmd.from)' => cmd'.from \in Paths
    BY DEF Owed, IsFile, Exists
  <2>2. \A p \in Paths : p = cmd'.from /\ Owed(cmd.from)' => Owed(p)'
    BY DEF Owed, Untouched, IsFile, IsDir, Exists, CopyOf, Moved, Source
  <2> QED
    BY <1>2, <2>1, <2>2 DEF Copies
<1>3. CASE Failed \/ cmd'.stage \in Early
  BY <1>2, <1>3 DEF Failed, Early
<1>4. CASE DoesStatDest \/ DoesStatDestOfDir
  <2>1. First
    BY <1>4, CopiesOfDest
  <2>2. Second
    BY <1>4 DEF DoesStatDest, DoesStatDestOfDir
  <2> QED
    BY <1>2, <2>1, <2>2
<1>5. ASSUME Same, Along, cmd.stage \notin Early,
             \A p \in Paths : IsFile(p) /\ Ahead(p) => Ahead(p)'
      PROVE  First
  <2> SUFFICES ASSUME NEW p \in Paths, cmd.code = "ok", Owed(p)' PROVE Copied(p)' \/ Ahead(p)'
    BY <1>5 DEF Along
  <2>1. Owed(p)
    BY <1>1, <1>5, SameCopies
  <2>2. Copied(p) \/ Ahead(p)
    BY <1>5, <2>1 DEF IInv, Copies
  <2> QED
    BY <1>1, <1>5, <2>1, <2>2, SameCopies DEF Owed
<1>6. CASE DoesLook
  <2>1. \A p \in Paths : Ahead(p) => Ahead(p)'
    BY <1>6, AheadSame DEF DoesLook, Filing
  <2>2. First /\ Second
    BY <1>5, <1>6, <2>1 DEF DoesLook, Early
  <2> QED
    BY <1>2, <2>2
<1>7. CASE DoesMkdir
  <2>1. First /\ Second
    BY <1>1, <1>7, CopiesOfMkdir DEF DoesMkdir, Along
  <2> QED
    BY <1>2, <2>1
<1>8. CASE DoesList
  <2>1. \A p \in Paths : IsFile(p) /\ Ahead(p) => Ahead(p)'
    BY <1>8, AheadOfList DEF DoesList, IsFile
  <2>2. First /\ Second
    BY <1>5, <1>8, <2>1 DEF DoesList, Early
  <2> QED
    BY <1>2, <2>2
<1>9. ASSUME NEW e \in Top.todo, DoesEntry(e) PROVE Copies'
  <2>1. \A p \in Paths : Ahead(p) => Ahead(p)'
    BY <1>9, AheadOfEntry
  <2>2. Same /\ Along /\ cmd.stage \notin Early /\ cmd'.stage \in {"look", "open"}
    BY <1>9 DEF DoesEntry, Early
  <2>3. First /\ Second
    BY <1>5, <2>1, <2>2
  <2> QED
    BY <1>2, <2>3
<1>10. CASE DoesLeave
  <2>1. \A p \in Paths : Ahead(p) => Ahead(p)'
    BY <1>10, AheadOfLeave
  <2>2. Same /\ Along /\ cmd.stage \notin Early /\ cmd'.stage \in {"done", "entries"}
    BY <1>10 DEF DoesLeave, Early
  <2>3. First /\ Second
    BY <1>5, <2>1, <2>2
  <2> QED
    BY <1>2, <2>3
<1>11. CASE DoesOpen
  <2>1. \A p \in Paths : Ahead(p) => Ahead(p)'
    BY <1>11, AheadSame DEF DoesOpen, Filed, Filing
  <2>2. Same /\ Along /\ cmd.stage \notin Early
    BY <1>11 DEF DoesOpen, Filed, Early
  <2>3. First
    BY <1>5, <2>1, <2>2
  <2>4. Second
    BY <1>11 DEF DoesOpen, Filed, Same
  <2> QED
    BY <1>2, <2>3, <2>4
<1>12. CASE DoesCreate
  <2>1. First
    BY <1>1, <1>12, CopiesOfCreate DEF DoesCreate, Filed, Along
  <2>2. ASSUME NEW p \in Paths, p = cmd'.from, Owed(p)' PROVE cmd'.in = node'[p]
    <3>1. p = cmd.from /\ cmd'.in = cmd.in
      BY <1>12, <2>2 DEF DoesCreate, Filed
    <3>2. Owed(p) /\ node'[p] = node[p]
      BY <1>1, <1>12, <2>2, <3>1, CopiesOfCreate
    <3> QED
      BY <1>12, <3>1, <3>2 DEF IInv, Copies, DoesCreate
  <2> QED
    BY <1>2, <2>1, <2>2
<1>13. CASE DoesFill
  <2>1. First
    BY <1>1, <1>13, CopiesOfFill DEF DoesFill, Filed, Along
  <2>2. Second
    BY <1>13 DEF DoesFill
  <2> QED
    BY <1>2, <2>1, <2>2
<1>14. CASE Elsewhere /\ Awaits
  <2>1. First
    BY <1>1, <1>14, CopiesOfOther DEF Awaits
  <2>2. ASSUME cmd'.stage \in {"create", "fill"}, NEW p \in Paths, p = cmd'.from, Owed(p)'
        PROVE  cmd'.in = node'[p]
    <3>1. p = cmd.from /\ cmd'.in = cmd.in /\ cmd.stage \in {"create", "fill"}
      BY <1>14, <2>2 DEF Awaits
    <3>2. Owed(p) /\ node'[p] = node[p]
      BY <1>1, <1>14, <2>2, CopiesOfOther
    <3> QED
      BY <3>1, <3>2 DEF IInv, Copies
  <2> QED
    BY <1>2, <2>1, <2>2
<1>15. CASE UNCHANGED vars
  BY <1>15 DEF vars, IInv, Copies, Owed, Untouched, IsFile, IsDir, Exists, CopyOf, Moved, Source, Copied, Content, Ahead,
               Listing, Levels, Top
<1> QED
  BY <1>3, <1>4, <1>6, <1>7, <1>8, <1>9, <1>10, <1>11, <1>12, <1>13, <1>14, <1>15, CopySteps

-----------------------------------------------------------------------------
\* cp below itself.
LEMMA LongerIs ==
    ASSUME NEW s \in Seq(Names), NEW g \in Seq(Names)
    PROVE  /\ s \o g \in Seq(Names) /\ Len(s \o g) = Len(s) + Len(g) /\ IsPrefix(s, s \o g)
           /\ g # <<>> => Below(s, s \o g)
           /\ Len(s) \in Nat /\ Len(g) \in Nat
           /\ \A i \in 1..Len(s) : (s \o g)[i] = s[i]
           /\ \A i \in 1..Len(g) : (s \o g)[Len(s) + i] = g[i]
<1> DEFINE m == s \o g
<1>1. Len(s) \in Nat /\ Len(g) \in Nat /\ (g # <<>> => Len(g) # 0)
  BY EmptySeq
<1>2. /\ m \in Seq(Names) /\ Len(m) = Len(s) + Len(g)
      /\ \A i \in 1..Len(s) + Len(g) : m[i] = IF i <= Len(s) THEN s[i] ELSE g[i - Len(s)]
  BY ConcatProperties
<1> HIDE DEF m
<1>3. \A i \in 1..Len(s) : m[i] = s[i]
  BY <1>1, <1>2
<1>4. ASSUME NEW i \in 1..Len(g) PROVE m[Len(s) + i] = g[i]
  <2>1. Len(s) + i \in 1..Len(s) + Len(g) /\ ~(Len(s) + i <= Len(s)) /\ Len(s) + i - Len(s) = i
    BY <1>1
  <2> QED
    BY <1>2, <2>1
<1>5. IsPrefix(s, m)
  BY <1>1, <1>2, <1>3, PrefixIs
<1>6. g # <<>> => s # m
  BY <1>1, <1>2
<1>7. g # <<>> => Below(s, m)
  BY <1>2, <1>5, <1>6, BelowIs
<1> QED
  BY <1>1, <1>2, <1>3, <1>4, <1>5, <1>7 DEF m

LEMMA MovedLonger ==
    ASSUME NEW p \in Seq(Names), NEW q \in Seq(Names), NEW s \in Seq(Names), IsPrefix(p, s),
           NEW g \in Seq(Names)
    PROVE  Moved(p, q, s \o g) = Moved(p, q, s) \o g
<1> DEFINE a == s \o g
<1> DEFINE m == Moved(p, q, s)
<1> DEFINE x == Moved(p, q, a)
<1> DEFINE y == m \o g
<1>1. /\ a \in Seq(Names) /\ Len(a) = Len(s) + Len(g) /\ IsPrefix(s, a)
      /\ Len(g) \in Nat
      /\ \A i \in 1..Len(s) : a[i] = s[i]
      /\ \A i \in 1..Len(g) : a[Len(s) + i] = g[i]
  BY LongerIs
<1> HIDE DEF a
<1>2. IsPrefix(p, a)
  BY <1>1, PrefixOrder
<1>3. /\ m \in Seq(Names) /\ Len(m) = Len(q) + Len(s) - Len(p)
      /\ Len(p) \in Nat /\ Len(q) \in Nat /\ Len(s) \in Nat /\ Len(p) <= Len(s)
      /\ \A i \in 1..Len(q) : m[i] = q[i]
      /\ \A i \in Len(q) + 1..Len(q) + Len(s) - Len(p) : m[i] = s[i - Len(q) + Len(p)]
  BY MovedIs
<1> HIDE DEF m
<1>4. /\ x \in Seq(Names) /\ Len(x) = Len(q) + Len(a) - Len(p)
      /\ \A i \in 1..Len(q) : x[i] = q[i]
      /\ \A i \in Len(q) + 1..Len(q) + Len(a) - Len(p) : x[i] = a[i - Len(q) + Len(p)]
  BY <1>1, <1>2, MovedIs
<1>5. /\ y \in Seq(Names) /\ Len(y) = Len(m) + Len(g)
      /\ \A i \in 1..Len(m) : y[i] = m[i]
      /\ \A i \in 1..Len(g) : y[Len(m) + i] = g[i]
  BY <1>3, LongerIs
<1> HIDE DEF x, y
<1>6. Len(x) = Len(y)
  BY <1>1, <1>3, <1>4, <1>5
<1>7. ASSUME NEW i \in 1..Len(x) PROVE x[i] = y[i]
  <2>1. CASE i <= Len(q)
    BY <1>1, <1>3, <1>4, <1>5, <2>1
  <2>2. CASE Len(q) < i /\ i <= Len(m)
    <3>1. /\ i \in Len(q) + 1..Len(q) + Len(a) - Len(p)
          /\ i \in Len(q) + 1..Len(q) + Len(s) - Len(p)
          /\ i \in 1..Len(m)
          /\ i - Len(q) + Len(p) \in 1..Len(s)
      BY <1>1, <1>3, <1>4, <2>2
    <3> QED
      BY <1>1, <1>3, <1>4, <1>5, <3>1
  <2>3. CASE Len(m) < i
    <3> DEFINE j == i - Len(m)
    <3>1. /\ i \in Len(q) + 1..Len(q) + Len(a) - Len(p)
          /\ j \in 1..Len(g) /\ i = Len(m) + j
          /\ i - Len(q) + Len(p) = Len(s) + j
      BY <1>1, <1>3, <1>4, <2>3
    <3>2. x[i] = a[i - Len(q) + Len(p)] /\ y[Len(m) + j] = g[j] /\ a[Len(s) + j] = g[j]
      BY <1>1, <1>4, <1>5, <3>1
    <3> QED
      BY <3>1, <3>2
  <2>4. Len(x) \in Nat /\ Len(q) \in Nat /\ Len(m) \in Nat
    BY <1>1, <1>3, <1>4
  <2>5. i <= Len(q) \/ (Len(q) < i /\ i <= Len(m)) \/ Len(m) < i
    BY <2>4
  <2> QED
    BY <2>1, <2>2, <2>3, <2>5
<1>8. x = y
  BY <1>4, <1>5, <1>6, <1>7, SeqEqual
<1> QED
  BY <1>8 DEF x, y, a, m

LEMMA GrownIs ==
    ASSUME Typed, Below(Source, cmd.dest)
    PROVE  /\ Grown \in Seq(Names) /\ Grown # <<>> /\ cmd.dest = Source \o Grown
           /\ CopyOf(Source) = Source \o Grown /\ IsPrefix(Source, Source)
<1>1. Source \in Seq(Names) /\ cmd.dest \in Seq(Names)
  BY ArgsAre, CmdIs DEF Typed
<1>2. PICK s, d : s = Source /\ d = cmd.dest /\ s \in Seq(Names) /\ d \in Seq(Names)
  BY <1>1
<1>3. IsPrefix(s, d) /\ s # d /\ Len(s) \in Nat /\ Len(d) \in Nat /\ Len(s) < Len(d)
      /\ \A i \in 1..Len(s) : s[i] = d[i]
  <2>1. IsPrefix(s, d) /\ s # d
    BY <1>2, BelowIs
  <2> QED
    BY <1>2, <2>1, PrefixIs, PrefixOrder
<1> DEFINE g == SubSeq(d, Len(s) + 1, Len(d))
<1> DEFINE y == s \o g
<1>4. /\ g \in Seq(Names) /\ Len(g) = Len(d) - Len(s)
      /\ \A i \in 1..Len(d) - Len(s) : g[i] = d[i + Len(s)]
  <2>1. \A i \in Len(s) + 1..Len(d) : d[i] \in Names
    BY <1>2, <1>3, ElementOfSeq
  <2>2. Len(s) + 1 \in Int /\ Len(d) \in Int
    BY <1>3
  <2> QED
    BY <1>3, <2>1, <2>2, SubSeqProperties
<1> HIDE DEF g
<1>5. /\ y \in Seq(Names) /\ Len(y) = Len(s) + Len(g)
      /\ \A i \in 1..Len(s) : y[i] = s[i]
      /\ \A i \in 1..Len(g) : y[Len(s) + i] = g[i]
  BY <1>2, <1>4, LongerIs
<1> HIDE DEF y
<1>6. ASSUME NEW i \in 1..Len(d) PROVE y[i] = d[i]
  <2>1. CASE i <= Len(s)
    BY <1>3, <1>5, <2>1
  <2>2. CASE Len(s) < i
    <3> DEFINE j == i - Len(s)
    <3>1. j \in 1..Len(g) /\ j \in 1..Len(d) - Len(s) /\ i = Len(s) + j /\ i = j + Len(s)
      BY <1>3, <1>4, <2>2
    <3>2. y[Len(s) + j] = g[j] /\ g[j] = d[j + Len(s)]
      BY <1>4, <1>5, <3>1
    <3> QED
      BY <3>1, <3>2
  <2> QED
    BY <1>3, <2>1, <2>2
<1>7. d = y
  <2>1. Len(d) = Len(y)
    BY <1>3, <1>4, <1>5
  <2> QED
    BY <1>2, <1>5, <1>6, <2>1, SeqEqual
<1>8. g # <<>>
  BY <1>3, <1>4
<1>9. Grown = g
  BY <1>2 DEF Grown, g
<1>10. CopyOf(Source) = d /\ IsPrefix(s, s)
  BY <1>2, MovedBack, PrefixOrder DEF CopyOf
<1> QED
  BY <1>2, <1>4, <1>7, <1>8, <1>9, <1>10 DEF y

LEMMA GrownKept ==
    ASSUME Kept, cmd'.dest = cmd.dest
    PROVE  Grown' = Grown /\ Source' = Source /\ \A p : CopyOf(p)' = CopyOf(p)
BY DEF Kept, Grown, Source, CopyOf, Moved

LEMMA DeeperKept ==
    ASSUME Kept, cmd'.dest = cmd.dest, NEW p \in Paths, Deeper(p), node'[p] = node[p],
           \/ Inside(p)'
           \/ cmd'.stage \in {"look", "mkdir"} /\ IsPrefix(Top'.source, p)
           \/ cmd'.stage = "list" /\ Below(Top'.source, p)
    PROVE  Deeper(p)'
<1>1. IsDir(p)'
  BY DEF Deeper, IsDir
<1>2. IsPrefix(Source, p)' /\ (CopyOf(p) = p \o Grown)'
  BY GrownKept DEF Deeper
<1> QED
  BY <1>1, <1>2 DEF Deeper

LEMMA InsideKept ==
    ASSUME NEW p, NEW i \in Levels, NEW e \in cmd.dirs[i].todo, e.isDir,
           IsPrefix(Append(cmd.dirs[i].source, e.name), p),
           i \in Levels', cmd'.dirs[i].source = cmd.dirs[i].source, e \in cmd'.dirs[i].todo
    PROVE  Inside(p)'
BY DEF Inside

LEMMA DeeperOfList ==
    ASSUME IInv, Kept, cmd.op = "cp", DoesList, NEW p \in Paths, Deeper(p)
    PROVE  Deeper(p)'
<1> DEFINE n == Len(cmd.dirs)
<1>1. /\ Typed /\ Tree /\ cmd \in Cmds /\ cmd.stage = "list"
      /\ p \in Seq(Names) /\ cmd'.dest = cmd.dest /\ node'[p] = node[p]
  BY FilesAre DEF IInv, Typed, DoesList, Same, Along
<1>2. /\ cmd.dirs # <<>> /\ Len(cmd'.dirs) = n /\ SameFrames
      /\ cmd'.dirs[n].todo = Listed(Top.source)
  BY StackOfList
<1>3. n \in Levels /\ Top = cmd.dirs[n] /\ Top.source \in Seq(Names) /\ Levels' = Levels
  BY <1>1, <1>2, TopIs DEF Levels
<1>4. ASSUME Below(Top.source, p) PROVE Inside(p)'
  <2>1. Exists(p) /\ IsDir(p)
    BY <1>1, KindIs, FilesAre DEF Deeper
  <2>2. PICK e \in Listed(Top.source) :
           /\ IsPrefix(Append(Top.source, e.name), p)
           /\ e.isDir <=> IsDir(Append(Top.source, e.name))
           /\ ~e.isDir => Append(Top.source, e.name) = p
    BY <1>1, <1>3, <1>4, <2>1, ListedBelow
  <2>3. e.isDir
    BY <2>1, <2>2
  <2>4. cmd'.dirs[n].source = Top.source
    BY <1>2, <1>3 DEF SameFrames
  <2> QED
    BY <1>2, <1>3, <2>2, <2>3, <2>4 DEF Inside
<1>5. ASSUME NEW i \in Levels, NEW e \in cmd.dirs[i].todo, e.isDir,
             IsPrefix(Append(cmd.dirs[i].source, e.name), p)
      PROVE  Inside(p)'
  <2>1. CASE i = n
    <3>1. e.name \in Names
      BY <1>1, <1>5, LevelIs
    <3> QED
      BY <1>1, <1>3, <1>4, <1>5, <2>1, <3>1, EntryBelow
  <2>2. CASE i # n
    <3>1. cmd'.dirs[i] = cmd.dirs[i]
      BY <1>2, <2>2 DEF SameFrames
    <3> QED
      BY <1>3, <1>5, <3>1, InsideKept
  <2> QED
    BY <2>1, <2>2
<1>6. Inside(p)'
  BY <1>1, <1>4, <1>5 DEF Deeper, Inside
<1> QED
  BY <1>1, <1>6, DeeperKept

LEMMA DeeperOfEntry ==
    ASSUME IInv, Kept, cmd.op = "cp", NEW e \in Top.todo, DoesEntry(e), NEW p \in Paths, Deeper(p)
    PROVE  Deeper(p)'
<1> DEFINE n == Len(cmd.dirs)
<1>1. cmd \in Cmds /\ cmd.stage = "entries" /\ cmd'.dest = cmd.dest /\ node'[p] = node[p]
  BY DEF IInv, Typed, DoesEntry, Same, Along
<1>2. /\ cmd.dirs # <<>> /\ cmd'.dirs # <<>> /\ SameFrames
      /\ cmd'.dirs[n].todo = Top.todo \ {e}
      /\ e.isDir =>
            /\ Len(cmd'.dirs) = n + 1
            /\ cmd'.dirs[n + 1] = Frame(Append(Top.source, e.name), Append(Top.dest, e.name))
      /\ e.isDir \in BOOLEAN /\ (~e.isDir => Len(cmd'.dirs) = n)
  BY StackOfEntry
<1>3. n \in Levels /\ Top = cmd.dirs[n] /\ n \in Nat /\ \A i \in Levels : i \in Levels'
  BY <1>1, <1>2, TopIs DEF Levels
<1>4. PICK i \in Levels : \E f \in cmd.dirs[i].todo :
         f.isDir /\ IsPrefix(Append(cmd.dirs[i].source, f.name), p)
  BY <1>1 DEF Deeper, Inside
<1>5. PICK f \in cmd.dirs[i].todo : f.isDir /\ IsPrefix(Append(cmd.dirs[i].source, f.name), p)
  BY <1>4
<1>6. CASE i # n \/ f # e
  <2>1. f \in cmd'.dirs[i].todo /\ cmd'.dirs[i].source = cmd.dirs[i].source
    BY <1>2, <1>3, <1>6 DEF SameFrames
  <2>2. Inside(p)'
    BY <1>3, <1>5, <2>1, InsideKept
  <2> QED
    BY <1>1, <2>2, DeeperKept
<1>7. CASE i = n /\ f = e
  <2>1. cmd'.stage = "look"
    BY <1>5, <1>7 DEF DoesEntry
  <2>2. Top' = cmd'.dirs[n + 1]
    BY <1>2, <1>5, <1>7 DEF Top, Last
  <2>3. Top'.source = Append(Top.source, e.name)
    BY <1>2, <1>5, <1>7, <2>2 DEF Frame
  <2> QED
    BY <1>1, <1>3, <1>5, <1>7, <2>1, <2>3, DeeperKept
<1> QED
  BY <1>6, <1>7

LEMMA DeeperOfLeave ==
    ASSUME IInv, Kept, cmd.op = "cp", DoesLeave, NEW p \in Paths, Deeper(p)
    PROVE  Deeper(p)' /\ cmd'.stage # "done"
<1> DEFINE n == Len(cmd.dirs)
<1>1. cmd \in Cmds /\ cmd.stage = "entries" /\ Top.todo = {} /\ cmd'.dest = cmd.dest /\ node'[p] = node[p]
  BY DEF IInv, Typed, DoesLeave, Same, Along
<1>2. /\ cmd.dirs # <<>> /\ n \in Nat \ {0} /\ Top = cmd.dirs[n]
      /\ n # 1 => Len(cmd'.dirs) = n - 1 /\ \A i \in 1..n - 1 : cmd'.dirs[i] = cmd.dirs[i]
  BY StackOfLeave
<1>3. PICK i \in Levels : \E f \in cmd.dirs[i].todo :
         f.isDir /\ IsPrefix(Append(cmd.dirs[i].source, f.name), p)
  BY <1>1 DEF Deeper, Inside
<1>4. i # n /\ i \in 1..n - 1 /\ n # 1
  BY <1>1, <1>2, <1>3 DEF Levels
<1>5. i \in Levels' /\ cmd'.dirs[i] = cmd.dirs[i]
  BY <1>2, <1>4 DEF Levels
<1>6. Inside(p)'
  BY <1>3, <1>5 DEF Inside
<1>7. cmd'.stage = "entries"
  BY <1>4 DEF DoesLeave
<1> QED
  BY <1>1, <1>6, <1>7, DeeperKept

LEMMA DeeperOfMkdir ==
    ASSUME IInv, Typed', Kept, cmd.op = "cp", DoesMkdir, Below(Source, cmd.dest), NEW p \in Paths, Deeper(p)
    PROVE  \E q \in Paths : Deeper(q)'
<1>1. /\ Typed /\ cmd'.dest = cmd.dest /\ cmd'.dirs = cmd.dirs /\ cmd.stage = "mkdir" /\ cmd'.stage = "list"
      /\ cmd \in Cmds /\ cmd.dirs # <<>> /\ Top' = Top /\ p \in Seq(Names) /\ Source \in Seq(Names)
  BY ArgsAre, FilesAre DEF IInv, Typed, DoesMkdir, Along, Pairs, Looking, Top
<1>2. PICK d \in Paths : d = Top.dest /\ node' = MadeAll(d)
  BY DEF DoesMkdir, MayMakeAll
<1>3. PICK s : s = Top.source /\ s \in Seq(Names)
  BY <1>1, TopIs
<1>4. \A q \in Paths : node'[q] = IF IsPrefix(q, d) THEN Dir ELSE node[q]
  BY <1>2 DEF MadeAll
<1>5. /\ IsDir(p) /\ IsPrefix(Source, p) /\ CopyOf(p) = p \o Grown
  BY DEF Deeper
<1>6. CASE Below(s, p)
  <2>1. node'[p] = node[p]
    BY <1>1, <1>4, <1>5, KindIs
  <2> QED
    BY <1>1, <1>3, <1>6, <2>1, DeeperKept
<1>7. CASE p = s
  <2>1. d = CopyOf(p)
    BY <1>1, <1>2, <1>3, <1>7, TopIs DEF IInv, Pairs, Paired
  <2>2. PICK g \in Seq(Names) : g = Grown /\ g # <<>>
    BY <1>1, GrownIs
  <2>3. d = p \o g
    BY <1>5, <2>1, <2>2
  <2>4. d \in Seq(Names) /\ IsPrefix(p, d) /\ Below(p, d) /\ IsPrefix(d, d)
    BY <1>1, <2>2, <2>3, LongerIs, PrefixOrder, FilesAre
  <2>5. IsPrefix(Source, d)
    BY <1>1, <1>5, <2>4, PrefixOrder
  <2>6. CopyOf(d) = d \o g
    <3>1. PICK a, b \in Seq(Names) : a = Source /\ b = cmd.dest
      BY <1>1, CmdIs
    <3>2. Moved(a, b, p \o g) = Moved(a, b, p) \o g
      <4>1. IsPrefix(a, p) /\ p \in Seq(Names)
        BY <1>1, <1>5, <3>1
      <4> QED
        BY <4>1, MovedLonger
    <3> QED
      BY <2>1, <2>3, <3>1, <3>2 DEF CopyOf
  <2>7. IsDir(d)'
    BY <1>4, <2>4, KindNext
  <2>8. Grown' = g /\ Source' = Source /\ CopyOf(d)' = CopyOf(d)
    BY <1>1, <2>2, GrownKept
  <2>9. cmd'.stage = "list" /\ Below(Top'.source, d)
    BY <1>1, <1>3, <1>7, <2>4
  <2>10. Deeper(d)'
    BY <2>5, <2>6, <2>7, <2>8, <2>9 DEF Deeper
  <2> QED
    BY <2>10
<1>8. CASE Inside(p) /\ ~(p = s)
  <2>1. node'[p] = node[p]
    BY <1>1, <1>4, <1>5, KindIs
  <2>2. Inside(p)'
    BY <1>1, <1>8 DEF Inside, Levels
  <2> QED
    BY <1>1, <2>1, <2>2, DeeperKept
<1> QED
  BY <1>1, <1>3, <1>6, <1>7, <1>8, BelowIs DEF Deeper

\* A file is not above a directory.
LEMMA NotBelowFile ==
    ASSUME IInv, cmd.op = "cp", cmd.stage = "create", cmd.dirs = <<>>, Source \notin cmd.touched,
           Below(Source, cmd.dest), MayCreate(cmd.to)
    PROVE  FALSE
<1>1. /\ Typed /\ Tree /\ Source \in Seq(Names) /\ Source \in Paths /\ IsFile(Source)
      /\ cmd.to = CopyOf(Source)
  BY ArgsAre DEF IInv, Sourced, Pairs, Paired, Filing
<1>2. cmd.to = cmd.dest
  BY <1>1, GrownIs
<1>3. PICK d \in Paths : d = cmd.dest /\ d # Root /\ IsDir(Parent(d))
  BY <1>2 DEF MayCreate
<1>4. d \in Seq(Names) /\ Parent(d) \in Paths /\ IsPrefix(Source, Parent(d))
  BY <1>1, <1>3, ParentIs, FilesAre DEF Root, IsDir
<1>5. IsDir(Source)
  BY <1>1, <1>3, <1>4, AboveIs, KindIs, FilesAre
<1> QED
  BY <1>1, <1>5 DEF IsFile

LEMMA EndlessStep ==
    ASSUME IInv, Typed', Next
    PROVE  Endless'
<1>1. Kept /\ Typed /\ cmd \in Cmds
  BY KeptStep DEF IInv, Typed
<1> SUFFICES ASSUME cmd.op = "cp", Below(Source, cmd'.dest), cmd'.touched = {}, cmd'.code = "ok"
             PROVE  /\ cmd'.stage # "done"
                    /\ cmd'.dirs = <<>> => cmd'.stage # "fill"
                    /\ cmd'.dirs # <<>> => \E p \in Paths : Deeper(p)'
  BY <1>1 DEF Endless, Kept, Source
<1> DEFINE Goal == /\ cmd'.stage # "done"
                   /\ cmd'.dirs = <<>> => cmd'.stage # "fill"
                   /\ cmd'.dirs # <<>> => \E p \in Paths : Deeper(p)'
<1>2. ~Failed
  BY DEF Failed
<1>3. CASE StatSource /\ cmd'.stage \in Early /\ cmd'.dirs = cmd.dirs
  <2>1. cmd.stage = "source"
    BY <1>3 DEF StatSource, At
  <2>2. cmd.dirs = <<>>
    BY <2>1 DEF IInv, Pairs, Early
  <2> QED
    BY <1>3, <2>2 DEF Early
<1>4. CASE DoesStatDest
  <2>1. cmd.dirs = <<>>
    BY <1>4 DEF DoesStatDest, IInv, Pairs, Early
  <2> QED
    BY <1>4, <2>1 DEF DoesStatDest
<1>5. ASSUME Along PROVE /\ Below(Source, cmd.dest) /\ cmd.touched = {} /\ cmd.code = "ok" /\ cmd'.dest = cmd.dest
                         /\ cmd.stage # "done"
                         /\ cmd.dirs = <<>> => cmd.stage # "fill"
                         /\ cmd.dirs # <<>> => \E p \in Paths : Deeper(p)
  BY <1>5 DEF Along, IInv, Endless
<1>6. CASE DoesStatDestOfDir
  <2>1. /\ Below(Source, cmd.dest) /\ cmd.touched = {} /\ cmd'.dest = cmd.dest
        /\ cmd.stage = "destOfDir" /\ cmd'.stage = "look" /\ node' = node
    BY <1>5, <1>6 DEF DoesStatDestOfDir, Same
  <2>2. IsDir(Source) /\ Source \in Paths /\ Source \in Seq(Names)
    BY <1>1, <2>1, ArgsAre DEF IInv, Sourced
  <2>3. PICK p \in Paths : p = Source
    BY <2>2
  <2>4. CopyOf(p) = p \o Grown /\ IsPrefix(Source, p)
    BY <1>1, <2>1, <2>3, GrownIs
  <2>5. PICK F : F = Frame(Source, cmd.dest) /\ F.source = p
    <3>1. Frame(Source, cmd.dest).source = p
      BY <2>3 DEF Frame
    <3> QED
      BY <3>1
  <2>6. Top' = F
    BY <1>6, <2>5 DEF DoesStatDestOfDir, Top, Last
  <2>7. IsDir(p)'
    BY <2>1, <2>2, <2>3 DEF IsDir
  <2>8. IsPrefix(p, p)
    BY <2>2, <2>3, PrefixOrder
  <2>9. (CopyOf(p) = p \o Grown)' /\ IsPrefix(Source, p)'
    BY <1>1, <2>1, <2>4, GrownKept
  <2>10. Deeper(p)'
    BY <2>1, <2>5, <2>6, <2>7, <2>8, <2>9 DEF Deeper
  <2> QED
    BY <2>1, <2>10
<1>7. CASE DoesLook
  <2>1. PICK p \in Paths : Deeper(p)
    BY <1>5, <1>7 DEF DoesLook, IInv, Pairs, Looking
  <2>2. /\ cmd.stage = "look" /\ cmd'.stage = "mkdir" /\ cmd'.dirs = cmd.dirs /\ node'[p] = node[p]
        /\ cmd'.dest = cmd.dest
    BY <1>7 DEF DoesLook, Same, Along
  <2>3. Inside(p) => Inside(p)'
    BY <2>2 DEF Inside, Levels
  <2>4. Top' = Top
    BY <2>2 DEF Top
  <2>5. IsPrefix(Top.source, p) \/ Inside(p)
    BY <2>1, <2>2 DEF Deeper
  <2>6. Deeper(p)'
    BY <1>1, <2>1, <2>2, <2>3, <2>4, <2>5, DeeperKept
  <2> QED
    BY <2>2, <2>6
<1>8. CASE DoesMkdir
  <2>1. PICK p \in Paths : Deeper(p)
    BY <1>5, <1>8 DEF DoesMkdir, IInv, Pairs, Looking
  <2>2. \E q \in Paths : Deeper(q)'
    BY <1>1, <1>5, <1>8, <2>1, DeeperOfMkdir DEF DoesMkdir
  <2> QED
    BY <1>8, <2>2 DEF DoesMkdir
<1>9. CASE DoesList
  <2>1. PICK p \in Paths : Deeper(p)
    BY <1>5, <1>9 DEF DoesList, IInv, Pairs, Looking
  <2>2. Deeper(p)'
    BY <1>1, <1>9, <2>1, DeeperOfList
  <2> QED
    BY <1>9, <2>2 DEF DoesList
<1>10. ASSUME NEW e \in Top.todo, DoesEntry(e) PROVE Goal
  <2>1. PICK p \in Paths : Deeper(p)
    BY <1>5, <1>10 DEF DoesEntry, IInv, Pairs, Looking
  <2>2. Deeper(p)'
    BY <1>1, <1>10, <2>1, DeeperOfEntry
  <2>3. cmd'.stage \in {"look", "open"}
    BY <1>10 DEF DoesEntry
  <2> QED
    BY <2>2, <2>3
<1>11. CASE DoesLeave
  <2>1. PICK p \in Paths : Deeper(p)
    BY <1>5, <1>11 DEF DoesLeave, IInv, Pairs, Looking
  <2>2. Deeper(p)' /\ cmd'.stage # "done"
    BY <1>1, <1>11, <2>1, DeeperOfLeave
  <2>3. cmd'.stage # "fill"
    BY <1>11 DEF DoesLeave
  <2> QED
    BY <2>2, <2>3
<1>12. ASSUME Filed, cmd.stage \in Filing, NEW p \in Paths, Deeper(p), node'[p] = node[p] PROVE Deeper(p)'
  <2>1. Inside(p)
    BY <1>12 DEF Deeper, Filing
  <2>2. Inside(p)'
    BY <1>12, <2>1 DEF Inside, Levels, Filed
  <2> QED
    BY <1>1, <1>12, <2>2, DeeperKept DEF Filed, Along
<1>13. CASE DoesOpen
  <2>1. Filed /\ cmd.stage = "open" /\ cmd'.stage = "create" /\ node' = node /\ Along /\ cmd'.dirs = cmd.dirs
    BY <1>13 DEF DoesOpen, Same, Filed
  <2> QED
    BY <1>5, <1>12, <2>1 DEF Filing
<1>14. CASE DoesCreate
  <2>1. /\ Filed /\ Along /\ cmd.stage = "create" /\ cmd'.stage = "fill" /\ cmd'.dirs = cmd.dirs
        /\ MayCreate(cmd.to) /\ node' = [node EXCEPT ![cmd.to] = FileFor(cmd.to)]
    BY <1>14 DEF DoesCreate, Filed
  <2>2. cmd.dirs # <<>>
    BY <1>5, <2>1, NotBelowFile
  <2>3. PICK p \in Paths : Deeper(p)
    BY <1>5, <2>1, <2>2
  <2>4. p # cmd.to
    BY <2>1, <2>3 DEF MayCreate, Deeper
  <2>5. node'[p] = node[p]
    BY <1>1, <2>1, <2>4 DEF Typed
  <2>6. Deeper(p)'
    BY <1>12, <2>1, <2>3, <2>5 DEF Filing
  <2> QED
    BY <2>1, <2>2, <2>6
<1>15. CASE DoesFill
  <2>1. /\ Filed /\ Along /\ cmd.stage = "fill" /\ cmd'.dirs = cmd.dirs /\ node' = node
        /\ cmd'.stage = IF cmd.dirs = <<>> THEN "done" ELSE "entries"
    BY <1>15 DEF DoesFill, Filed
  <2>2. cmd.dirs # <<>>
    BY <1>5, <2>1
  <2>3. PICK p \in Paths : Deeper(p)
    BY <1>5, <2>1, <2>2
  <2>4. Deeper(p)'
    BY <1>12, <2>1, <2>3 DEF Filing
  <2> QED
    BY <2>1, <2>2, <2>4
<1>16. ~Awaits
  BY DEF Awaits
<1>17. CASE UNCHANGED vars
  <2>1. cmd' = cmd /\ node' = node
    BY <1>17 DEF vars
  <2>2. \A p : Deeper(p) => Deeper(p)'
    BY <2>1 DEF Deeper, Inside, Levels, Top, IsDir, Source, CopyOf, Grown
  <2> QED
    BY <2>1, <2>2 DEF IInv, Endless
<1> QED
  BY <1>2, <1>3, <1>4, <1>6, <1>7, <1>8, <1>9, <1>10, <1>11, <1>13, <1>14, <1>15, <1>16, <1>17, CopySteps

-----------------------------------------------------------------------------
LEMMA Initially ==
    ASSUME Init
    PROVE  IInv
<1>1. PICK t \in Trees : node = [p \in Paths |-> IF t[p] = File THEN <<p, 0>> ELSE t[p]]
  BY DEF Init
<1>2. PICK c \in Calls : cmd = Started(c)
  BY DEF Init
<1>3. /\ t \in [Paths -> {Absent, Dir, File}] /\ File \notin {Absent, Dir}
      /\ \A p, q \in Paths : IsStrictPrefix(q, p) /\ t[p] # Absent => t[q] = Dir
      /\ c \in [op : {"mv", "rm", "cp"}, recursive : BOOLEAN, force : BOOLEAN, args : Seq(Paths)]
      /\ c.args # <<>> /\ (c.op # "rm" => Len(c.args) = 2 /\ c.args[1] # Root)
  BY CommandsAssumption
<1>4. /\ cmd.op = c.op /\ cmd.args = c.args /\ cmd.dirs = <<>> /\ cmd.next = 1 /\ cmd.code = "ok"
      /\ cmd.stage = IF c.op = "rm" THEN "stat" ELSE "source"
      /\ cmd.out = NoFile /\ cmd.held = {}
  BY <1>2 DEF Started
<1>5. Typed
  <2>1. node \in [Paths -> {Absent, Dir} \cup Files]
    <3>1. \A p \in Paths : <<p, 0>> \in Files
      BY CommandsAssumption DEF Files
    <3> QED
      BY <1>1, <1>3, <3>1
  <2>2. data \in [Files -> Contents]
    BY FilesAre DEF Init, Contents
  <2>3. cmd \in Cmds
    <3>1. Len(c.args) \in 1..Len(c.args) /\ 1 \in DOMAIN c.args
      BY <1>3, EmptySeq
    <3>2. Last(c.args) \in Seq(Names)
      <4>1. c.args \in Seq(Paths)
        BY <1>3
      <4>2. c.args[Len(c.args)] \in Paths
        BY <3>1, <4>1, ElementOfSeq
      <4> QED
        BY <4>2, FilesAre DEF Last
    <3>3. <<>> \in Seq(Frames) /\ NoFile \in Files /\ Root \in Seq(Names) /\ Root \in Paths
      BY FilesAre
    <3>4. c.op \in {"mv", "rm", "cp"} /\ c.recursive \in BOOLEAN /\ c.force \in BOOLEAN /\ c.args \in Seq(Paths)
      BY <1>3
    <3> QED
      BY <1>2, <3>2, <3>3, <3>4, StagesAre DEF Started, Cmds
  <2>4. cmd.args # <<>> /\ cmd.next \in DOMAIN cmd.args /\ (cmd.op # "rm" => Source # Root)
    <3>1. c.args \in Seq(Paths)
      BY <1>3
    <3> QED
      BY <1>3, <1>4, <3>1, EmptySeq DEF Source
  <2>5. changes \in 0..MaxChanges /\ faults \in Nat
    BY CommandsAssumption DEF Init
  <2> QED
    BY <2>1, <2>2, <2>3, <2>4, <2>5 DEF Typed
<1>6. Tree
  <2>1. ASSUME NEW p \in Paths, IsFile(p) PROVE node[p][1] = p
    <3>1. node[p] \in Files
      BY <1>5, <2>1, KindIs
    <3>2. t[p] = File
      BY <1>1, <1>3, <3>1, FilesAre
    <3> QED
      BY <1>1, <3>2
  <2>3. ASSUME NEW p \in Paths, NEW q \in Paths, IsFile(p), node[p] = node[q] PROVE p = q
    <3>1. IsFile(q)
      BY <1>5, <2>3, KindIs
    <3> QED
      BY <2>1, <2>3, <3>1
  <2>2. ASSUME NEW p \in Paths, NEW q \in Paths, Below(q, p), Exists(p) PROVE IsDir(q)
    <3>1. t[p] # Absent
      BY <1>1, <1>3, <1>5, <2>2, KindIs
    <3>2. t[q] = Dir
      BY <1>3, <2>2, <3>1 DEF Below
    <3> QED
      BY <1>1, <1>3, <1>5, <3>2, KindIs
  <2> QED
    BY <2>2, <2>3 DEF Tree
<1>7. StageFits
  BY <1>3, <1>4 DEF StageFits, Early
<1>8. Moves /\ Follows /\ Removes
  <2>1. cmd.args \in Seq(Paths)
    BY <1>3, <1>4
  <2>2. \A i \in DOMAIN cmd.args : ~(i < 1)
    BY <2>1
  <2> QED
    BY <1>4, <2>2 DEF Moves, Follows, Removes
<1>9. Levels = {}
  BY <1>4 DEF Levels
<1>10. Pairs /\ Sourced /\ Copies /\ Endless
  BY <1>3, <1>4, <1>9 DEF Pairs, Sourced, Copies, Endless, Early, Looking, Filing
<1> QED
  BY <1>5, <1>6, <1>7, <1>8, <1>10 DEF IInv

LEMMA Stays ==
    ASSUME IInv, UNCHANGED vars
    PROVE  IInv'
<1> USE DEF vars
<1>1. node' = node /\ data' = data /\ cmd' = cmd /\ changes' = changes /\ faults' = faults
  OBVIOUS
<1>2. Typed'
  BY <1>1 DEF IInv, Typed, Source
<1>3. Tree'
  BY <1>1 DEF IInv, Tree, IsFile, IsDir, Exists
<1>4. StageFits'
  BY <1>1 DEF IInv, StageFits
<1>5. Moves'
  BY <1>1 DEF IInv, Moves, Exists
<1>6. Removes'
  BY <1>1 DEF IInv, Removes, Gone, Exists, Untouched
<1>7. Pairs'
  BY <1>1 DEF IInv, Pairs, Paired, Levels, Source, CopyOf
<1>8. Sourced'
  BY <1>1 DEF IInv, Sourced, IsFile, IsDir, Exists, Source
<1>9. Copies'
  <2>1. \A p : (Owed(p)' <=> Owed(p)) /\ (Copied(p)' <=> Copied(p)) /\ (Ahead(p)' <=> Ahead(p))
    BY <1>1 DEF Owed, Copied, Ahead, Listing, Levels, Top, IsFile, IsDir, Exists, Untouched, CopyOf, Source, Content
  <2>2. Owed(cmd.from)' <=> Owed(cmd.from)
    BY <1>1 DEF Owed, IsFile, IsDir, Exists, Untouched, CopyOf, Source
  <2> QED
    BY <1>1, <2>1, <2>2 DEF IInv, Copies
<1>10. Endless'
  <2>1. \A p : Deeper(p)' <=> Deeper(p)
    BY <1>1 DEF Deeper, Inside, Levels, Top, IsDir, Source, CopyOf, Grown
  <2> QED
    BY <1>1, <2>1 DEF IInv, Endless, Source
<1>11. Follows'
  BY <1>1 DEF IInv, Follows, Strayed, Untouched, Arg
<1> QED
  BY <1>2, <1>3, <1>4, <1>5, <1>6, <1>7, <1>8, <1>9, <1>10, <1>11 DEF IInv

LEMMA Inductive ==
    ASSUME IInv, [Next]_vars
    PROVE  IInv'
<1>1. CASE UNCHANGED vars
  BY <1>1, Stays
<1>2. CASE Next
  <2>1. Typed'
    BY <1>2, TypedStep DEF IInv
  <2> QED
    BY <1>2, <2>1, TreeStep, StagesFit, MovesStep, FollowsStep, RemovesStep, PairsStep, SourcedStep,
       CopiesStep, EndlessStep
       DEF IInv
<1> QED
  BY <1>1, <1>2

LEMMA Invariance == Spec => []IInv
<1>1. Init => IInv
  BY Initially
<1>2. IInv /\ [Next]_vars => IInv'
  BY Inductive
<1> QED
  BY <1>1, <1>2, PTL DEF Spec

-----------------------------------------------------------------------------
(***************************************************************************)
(* RemovedWhenWell, for any tree, arguments and interference: when rm ends *)
(* well, what it was told to remove is gone, unless another program put it *)
(* there or, under -f, Stat failed on it.                                  *)
(***************************************************************************)
THEOREM CommandsRemove == Spec => []RemovedWhenWell
<1>1. IInv => RemovedWhenWell
  BY DEF IInv, Removes, Gone, RemovedWhenWell, AnsweredWell
<1> QED
  BY <1>1, Invariance, PTL

(***************************************************************************)
(* CopyIsWhole, for a tree of any depth and width: when cp ends well, each *)
(* file of the source that nobody touched is in the destination as it is   *)
(* in the source, and the destination was not below the source unless      *)
(* somebody interfered.                                                    *)
(***************************************************************************)
THEOREM CommandsCopy == Spec => []CopyIsWhole
<1>1. ASSUME IInv PROVE CopyIsWhole
  <2> SUFFICES ASSUME AnsweredWell("cp") PROVE CopyIsWhole
    BY DEF CopyIsWhole
  <2>1. cmd.op = "cp" /\ cmd.stage = "done" /\ cmd.code = "ok"
    BY DEF AnsweredWell
  <2>2. Below(Source, cmd.dest) => cmd.touched # {}
    BY <1>1, <2>1 DEF IInv, Endless
  <2>3. ASSUME NEW p \in Paths, Owed(p) PROVE Copied(p)
    <3>1. ~Ahead(p)
      BY <2>1 DEF Ahead, Filing
    <3> QED
      BY <1>1, <2>1, <2>3, <3>1 DEF IInv, Copies, Early
  <2> QED
    BY <2>2, <2>3 DEF CopyIsWhole, Owed, Copied
<1> QED
  BY <1>1, Invariance, PTL

-----------------------------------------------------------------------------
\* What a step of the command does to the tree.
LEMMA QuietSteps ==
    ASSUME IInv, Next, OwnStep, node' # node \/ data' # data
    PROVE  MoveRename \/ RemoveOne \/ RemoveBelow \/ RemoveTop \/ CopyMkdir \/ CopyCreate \/ CopyFill
<1>1. ~Ended
  BY DEF OwnStep, Steps, Ended, vars
<1>2. ~Meddling
  BY OthersAre DEF OwnStep
<1> QED
  BY <1>1, <1>2 DEF Next, Moving, Removing, Copying, Quietly, StatSource, MoveStatDest, MoveStatUnder, RemoveStat,
     CopyStatDest, CopyStatDestOfDir, CopyLook, CopyList, CopyEntry, CopyLeave, CopyOpen

\* What a rename loses.
LEMMA RenameLoses ==
    ASSUME IInv, cmd.op = "mv", cmd.stage = "rename", MayRename(Source, cmd.dest),
           node' = Renamed(Source, cmd.dest), NEW p \in Paths, IsFile(p), node[p] \notin Range(node')
    PROVE  p = cmd.dest /\ p \in cmd.touched \cup cmd.missed
<1>1. /\ Typed /\ Tree /\ p \in Seq(Names) /\ cmd.dest \in Seq(Names)
      /\ Source \in Seq(Names) /\ Source \in Paths /\ Exists(p)
  BY ArgsAre, CmdIs, FilesAre DEF IInv, Typed, IsFile
<1>2. PICK a, d \in Seq(Names) : a = Source /\ d = cmd.dest
  BY <1>1
<1>3. \A s \in Paths : node'[s] = IF a = d THEN node[s]
                                  ELSE IF IsPrefix(d, s) /\ Moved(d, a, s) \in Paths THEN node[Moved(d, a, s)]
                                  ELSE IF IsPrefix(a, s) \/ IsPrefix(d, s) THEN Absent ELSE node[s]
  BY <1>2 DEF Renamed
<1>4. \A s \in Paths : node'[s] # node[p]
  <2>1. DOMAIN node' = Paths
    BY DEF Renamed
  <2> QED
    BY <2>1 DEF Range
<1>5. a # d /\ ~IsPrefix(a, d) /\ (IsPrefix(a, p) \/ IsPrefix(d, p))
  BY <1>1, <1>2, <1>3, <1>4 DEF MayRename
<1>6. ~IsPrefix(a, p)
  <2> SUFFICES ASSUME IsPrefix(a, p) PROVE FALSE
    OBVIOUS
  <2> DEFINE m == Moved(a, d, p)
  <2>1. m \in Seq(Names) /\ Len(m) = Len(d) + Len(p) - Len(a) /\ IsPrefix(d, m) /\ Moved(d, a, m) = p
    <3>1. p \in Seq(Names)
      BY <1>1
    <3>2. Moved(d, a, m) = p
      BY <3>1, MovedBack
    <3> HIDE DEF m
    <3>3. m \in Seq(Names) /\ Len(m) = Len(d) + Len(p) - Len(a) /\ IsPrefix(d, m)
      BY <3>1, MovedIs DEF m
    <3> QED
      BY <3>2, <3>3
  <2> HIDE DEF m
  <2>2. Len(d) + Len(p) - Len(a) <= MaxDepth
    BY <1>1, <1>2, <1>5 DEF MayRename
  <2>3. m \in Paths
    BY <2>1, <2>2, PathIs
  <2>4. node'[m] = node[p]
    BY <1>3, <1>5, <2>1, <2>3
  <2> QED
    BY <1>4, <2>3, <2>4
<1>7. IsPrefix(d, p)
  BY <1>5, <1>6
<1>8. Exists(d) /\ d \in Paths
  BY <1>1, <1>7, AboveIs
<1>9. IsFile(d)
  BY <1>2, <1>5, <1>8 DEF MayRename
<1>10. p = d
  BY <1>1, <1>7, <1>9, AboveIs DEF IsFile
<1> QED
  BY <1>2, <1>8, <1>10 DEF IInv, Moves

LEMMA MoveSteps ==
    ASSUME IInv, [Next]_vars, cmd.op = "mv", OwnStep
    PROVE  /\ \A p \in Paths : IsFile(p) /\ node[p] \notin Range(node') =>
                  p = cmd.dest /\ p \in cmd.touched \cup cmd.missed
           /\ data' = data
<1>1. Typed /\ Next /\ node \in [Paths -> {Absent, Dir} \cup Files]
  BY DEF IInv, Typed, OwnStep, Steps, vars
<1>2. ASSUME node' = node, NEW p \in Paths PROVE node[p] \in Range(node')
  BY <1>1, <1>2 DEF Range
<1>3. CASE MoveRename
  <2>1. /\ data' = data
        /\ node' = node \/ (cmd.stage = "rename" /\ MayRename(Source, cmd.dest) /\ node' = Renamed(Source, cmd.dest))
    BY <1>3 DEF MoveRename, Fails, At
  <2> QED
    BY <1>2, <2>1, RenameLoses
<1>4. CASE node' = node /\ data' = data
  BY <1>2, <1>4
<1>5. ~RemoveOne /\ ~RemoveBelow /\ ~RemoveTop /\ ~CopyMkdir /\ ~CopyCreate /\ ~CopyFill
  BY DEF RemoveOne, RemoveBelow, RemoveTop, CopyMkdir, CopyCreate, CopyFill, At
<1> QED
  BY <1>1, <1>3, <1>4, <1>5, QuietSteps

(***************************************************************************)
(* MoveLosesOnlyNew: of all the files that may be at and below mv's two    *)
(* names its rename loses at most one, at the destination, that came or    *)
(* did not show since mv looked there.                                     *)
(***************************************************************************)
THEOREM CommandsMove == Spec => MoveLosesOnlyNew
<1>1. IInv /\ [Next]_vars =>
         [cmd.op = "mv" /\ OwnStep =>
             /\ \A p \in Paths :
                   IsFile(p) /\ node[p] \notin Range(node') =>
                       p = cmd.dest /\ p \in cmd.touched \cup cmd.missed
             /\ data' = data]_vars
  BY MoveSteps
<1> QED
  BY <1>1, Invariance, PTL DEF Spec, MoveLosesOnlyNew

-----------------------------------------------------------------------------
\* A path whose contents a step leaves alone.
LEMMA SameContent ==
    ASSUME Typed, NEW p \in Paths, node'[p] = node[p], node[p] \in Files => data'[node[p]] = data[node[p]]
    PROVE  Content(p)' = Content(p)
<1>1. IsFile(p)' <=> IsFile(p)
  BY DEF IsFile, IsDir, Exists
<1> QED
  BY <1>1, KindIs DEF Content

Named(p) ==
    CASE cmd.op = "mv" -> \E q \in {Source, cmd.dest} : IsPrefix(q, p)
      [] cmd.op = "rm" -> \/ \E i \in DOMAIN cmd.args : p = cmd.args[i]
                          \/ /\ cmd.recursive
                             /\ \/ \E i \in DOMAIN cmd.args : Below(cmd.args[i], p)
                                \/ \E q \in cmd.touched : IsPrefix(q, p)
      [] cmd.op = "cp" -> \/ IsPrefix(cmd.dest, p)
                          \/ Below(p, cmd.dest) /\ ~Exists(p) /\ IsDir(p)'
                          \/ p \in cmd.touched /\ node[p] = cmd.out

LEMMA MoveNames ==
    ASSUME IInv, MoveRename, NEW p \in Paths, Content(p)' # Content(p)
    PROVE  Named(p)
<1>1. cmd.op = "mv" /\ data' = data /\ Typed
  BY DEF MoveRename, At, Fails, IInv
<1>2. node'[p] # node[p]
  BY <1>1, SameContent
<1>3. node' = Renamed(Source, cmd.dest)
  BY <1>2 DEF MoveRename, Fails
<1>4. IsPrefix(Source, p) \/ IsPrefix(cmd.dest, p)
  BY <1>2, <1>3 DEF Renamed
<1> QED
  BY <1>1, <1>4 DEF Named

LEMMA RemoveNames ==
    ASSUME IInv, RemoveOne \/ RemoveBelow \/ RemoveTop, NEW p \in Paths, Content(p)' # Content(p)
    PROVE  Named(p)
<1>1. /\ cmd.op = "rm" /\ data' = data /\ Typed /\ cmd.next \in DOMAIN cmd.args
      /\ node \in [Paths -> {Absent, Dir} \cup Files]
  BY DEF RemoveOne, RemoveBelow, RemoveTop, At, Fails, IInv, Typed
<1>2. node'[p] # node[p]
  BY <1>1, SameContent
<1>3. CASE RemoveOne
  <2>1. p = Arg
    BY <1>1, <1>2, <1>3 DEF RemoveOne, Fails
  <2> QED
    BY <1>1, <2>1 DEF Named, Arg
<1>4. ASSUME RemoveTop \/ RemoveBelow
      PROVE  /\ cmd.recursive /\ cmd.top \in Paths /\ cmd.held \subseteq Paths /\ cmd.touched \subseteq Paths
             /\ cmd.top = Arg \/ Strayed(cmd.top)
             /\ \A h \in cmd.held : Strayed(h)
  BY <1>1, <1>4, CmdIs DEF RemoveTop, RemoveBelow, At, IInv, StageFits, Follows, Typed
<1>5. CASE RemoveTop
  <2>1. p = cmd.top
    BY <1>1, <1>2, <1>5 DEF RemoveTop, Fails
  <2> QED
    BY <1>1, <1>4, <1>5, <2>1 DEF Named, Arg, Strayed
<1>6. CASE RemoveBelow
  <2>1. PICK r \in cmd.held \cup {cmd.top} : Below(r, p)
    BY <1>1, <1>2, <1>6 DEF RemoveBelow, Emptied
  <2>2. r \in Paths /\ (r = Arg \/ Strayed(r))
    BY <1>4, <1>6, <2>1
  <2>3. CASE r = Arg
    BY <1>1, <1>4, <1>6, <2>1, <2>3 DEF Named, Arg
  <2>4. CASE Strayed(r)
    <3>1. PICK q \in cmd.touched : IsPrefix(q, r)
      BY <2>4 DEF Strayed
    <3>2. q \in Seq(Names) /\ r \in Seq(Names) /\ p \in Seq(Names)
      BY <1>4, <1>6, <2>2, FilesAre
    <3>3. IsPrefix(q, p)
      BY <2>1, <3>1, <3>2, BelowIs, PrefixOrder
    <3> QED
      BY <1>1, <1>4, <1>6, <3>3 DEF Named
  <2> QED
    BY <2>2, <2>3, <2>4
<1> QED
  BY <1>3, <1>5, <1>6

LEMMA CopyNames ==
    ASSUME IInv, Typed', Next, CopyMkdir \/ CopyCreate \/ CopyFill, NEW p \in Paths, Content(p)' # Content(p)
    PROVE  Named(p)
<1>1. /\ Typed /\ Tree /\ cmd \in Cmds /\ cmd.op = "cp" /\ p \in Seq(Names)
      /\ cmd.dest \in Seq(Names) /\ Source \in Seq(Names)
  BY CmdIs, ArgsAre, FilesAre DEF CopyMkdir, CopyCreate, CopyFill, At, IInv, Typed
<1> SUFFICES \/ IsPrefix(cmd.dest, p) \/ (Below(p, cmd.dest) /\ ~Exists(p) /\ IsDir(p)')
             \/ p \in cmd.touched /\ node[p] = cmd.out
  BY <1>1 DEF Named
<1>2. CASE CopyMkdir
  <2>1. /\ data' = data /\ cmd.dirs # <<>>
        /\ node' = node \/ (MayMakeAll(Top.dest) /\ node' = MadeAll(Top.dest))
    BY <1>1, <1>2 DEF CopyMkdir, At, Fails, IInv, Pairs, Looking
  <2>2. node'[p] # node[p]
    BY <1>1, <2>1, SameContent
  <2>3. PICK d \in Paths : d = Top.dest /\ MayMakeAll(d) /\ node' = MadeAll(d)
    BY <2>1, <2>2 DEF MayMakeAll
  <2>4. node'[p] = Dir /\ IsPrefix(p, d) /\ ~IsFile(p)
    BY <2>2, <2>3 DEF MadeAll, MayMakeAll
  <2>5. ~Exists(p) /\ IsDir(p)'
    BY <1>1, <2>2, <2>4, KindIs, KindNext DEF IsFile
  <2>6. IsPrefix(cmd.dest, d) /\ d \in Seq(Names)
    <3>1. Len(cmd.dirs) \in Levels /\ Top = cmd.dirs[Len(cmd.dirs)] /\ Top.source \in Seq(Names)
      BY <1>1, <2>1, TopIs
    <3>2. Paired(Top.source, Top.dest)
      BY <1>1, <3>1 DEF IInv, Pairs
    <3> QED
      BY <1>1, <2>3, <3>1, <3>2, CopyOfIs, FilesAre DEF Paired
  <2>7. IsPrefix(cmd.dest, p) \/ IsPrefix(p, cmd.dest)
    BY <1>1, <2>4, <2>6, PrefixOrder
  <2>8. IsPrefix(cmd.dest, p) \/ Below(p, cmd.dest)
    BY <1>1, <2>7, BelowIs
  <2> QED
    BY <2>5, <2>8
<1>3. ASSUME cmd.stage \in Filing PROVE IsPrefix(cmd.dest, cmd.to)
  BY <1>1, <1>3, CmdIs, CopyOfIs DEF IInv, Pairs, Paired
<1>4. CASE CopyCreate
  <2>1. cmd.stage = "create" /\ cmd.out = NoFile
    BY <1>4 DEF CopyCreate, At, IInv, StageFits
  <2>2. CASE node' = node /\ data' = data
    BY <1>1, <2>2, SameContent
  <2>3. CASE /\ MayCreate(cmd.to)
             /\ node' = [node EXCEPT ![cmd.to] = FileFor(cmd.to)]
             /\ data' = [data EXCEPT ![FileFor(cmd.to)] = Empty]
    <3>1. \A q \in Paths : node[q] = FileFor(cmd.to) => q = cmd.to
      BY <1>1, <2>1, <2>3, FileForIs DEF MayCreate
    <3>2. p = cmd.to
      <4>1. CASE p # cmd.to
        <5>1. node'[p] = node[p]
          BY <1>1, <2>3, <4>1 DEF Typed
        <5>2. node[p] \in Files => data'[node[p]] = data[node[p]]
          BY <1>1, <2>3, <3>1, <4>1 DEF Typed
        <5> QED
          BY <1>1, <5>1, <5>2, SameContent
      <4> QED
        BY <4>1
    <3> QED
      BY <1>3, <2>1, <3>2 DEF Filing
  <2> QED
    BY <1>4, <2>2, <2>3 DEF CopyCreate, Fails
<1>5. CASE CopyFill
  <2>1. /\ cmd.stage = "fill" /\ node' = node
        /\ \A q \in Paths : node[q] = cmd.out => q = cmd.to \/ q \in cmd.touched
    BY <1>1, <1>5 DEF CopyFill, At, IInv, Pairs
  <2>2. \A f \in Files : f # cmd.out => data'[f] = data[f]
    BY <1>1, <1>5 DEF CopyFill, Typed
  <2>3. node[p] = cmd.out
    BY <1>1, <2>1, <2>2, SameContent
  <2> QED
    BY <1>3, <2>1, <2>3 DEF Filing
<1> QED
  BY <1>2, <1>4, <1>5

LEMMA OwnSteps ==
    ASSUME IInv, [Next]_vars, OwnStep, NEW p \in Paths, Content(p)' # Content(p)
    PROVE  Named(p)
<1>1. Typed /\ Next
  BY DEF IInv, OwnStep, Steps, vars
<1>2. node' # node \/ data' # data
  BY DEF Content, IsFile, IsDir, Exists
<1>3. Typed'
  BY <1>1, TypedStep
<1> QED
  BY <1>1, <1>2, <1>3, QuietSteps, MoveNames, RemoveNames, CopyNames

(***************************************************************************)
(* OnlyWhatIsNamed: no step of a command changes what is at a path that    *)
(* its arguments do not name, whatever others write, make, move and remove *)
(* meanwhile, but where they have put the file that cp has open or a       *)
(* directory that rm -r works in.                                          *)
(***************************************************************************)
THEOREM CommandsChange == Spec => OnlyWhatIsNamed
<1>1. IInv /\ [Next]_vars => [OwnStep => \A p \in Paths : Content(p)' # Content(p) => Named(p)]_vars
  BY OwnSteps
<1> QED
  BY <1>1, Invariance, PTL DEF Spec, OnlyWhatIsNamed, Named

-----------------------------------------------------------------------------
(***************************************************************************)
(* File handles and copyFile.                                              *)
(***************************************************************************)
Pieces == Data \cup {Zero}
FileContents == Seq(Pieces) \cup {Nothing}

Handle == [stage : {"none", "open", "uploading", "closed"}, path : FilePaths,
           buffer : Seq(Pieces), sent : FileContents]

Copy == [stage : {"idle", "open", "create", "copy", "sync", "close", "upload", "reported"},
         source : FilePaths, dest : FilePaths, body : FileContents, at : Nat, ok : BOOLEAN,
         lost : BOOLEAN, disturbed : BOOLEAN]

FileTyped ==
    /\ file \in [FilePaths -> FileContents]
    /\ handle \in [Handles -> Handle]
    /\ copy \in Copy
    /\ fileFaults \in Nat

\* Only a handle that is not written any more has given its buffer to an upload.
SentWhenClosed(h) ==
    handle[h].sent # Nothing =>
        handle[h].stage \in {"uploading", "closed"} /\ handle[h].sent = handle[h].buffer

\* The handles that copyFile reads and writes through, by the stage of the copy.
CopierFits ==
    LET e == handle[Copier] IN
    /\ copy.stage \in {"create", "copy"} => copy.body # Nothing
    /\ copy.stage \in {"copy", "sync", "close"} => e.stage = "open" /\ e.path = copy.dest
    /\ copy.stage = "upload" => e.stage = "uploading" /\ e.path = copy.dest

\* The destination, or what will be uploaded to it, holds n pieces of the source.
Holds(n) ==
    LET x == SubSeq(file[copy.source], 1, n) IN
    /\ handle[Copier].buffer = x
    /\ copy.dest \notin Cloud => file[copy.dest] = x

Whole ==
    /\ handle[Copier].buffer = file[copy.source]
    /\ copy.dest \notin Cloud => file[copy.dest] = file[copy.source]

\* How far a copy has come that nobody disturbed.
Faithful ==
    /\ copy.stage \in {"create", "copy"} =>
          /\ file[copy.source] \in Seq(Pieces)
          /\ copy.body = file[copy.source]
          /\ copy.at <= Len(copy.body)
    /\ copy.stage \in {"open", "create"} => copy.at = 0
    /\ copy.stage = "copy" => Body = file[copy.source] /\ Holds(copy.at)
    /\ copy.stage = "sync" => Whole
    /\ copy.stage \in {"close", "upload"} /\ copy.ok => Whole
    /\ copy.stage = "upload" => handle[Copier].sent = handle[Copier].buffer /\ copy.dest \in Cloud
    /\ copy.stage = "reported" /\ copy.ok => copy.lost \/ file[copy.dest] = file[copy.source]

FileIInv ==
    /\ FileTyped
    /\ \A h \in Handles : SentWhenClosed(h)
    /\ CopierFits
    /\ copy.ok => copy.stage \in {"close", "upload", "reported"}
    /\ copy.source # copy.dest /\ ~copy.disturbed => Faithful

-----------------------------------------------------------------------------
\* Cut or extended, a sequence of pieces is one.
LEMMA ResizedIs ==
    ASSUME NEW s \in Seq(Pieces), NEW n \in Nat
    PROVE  Resized(s, n) \in Seq(Pieces) /\ Len(Resized(s, n)) = n
<1>1. CASE n <= Len(s)
  <2>1. \A i \in 1..n : s[i] \in Pieces
    BY <1>1, ElementOfSeq, LenProperties
  <2> QED
    BY <1>1, <2>1, SubSeqProperties DEF Resized
<1>2. CASE n > Len(s)
  <2>1. Len(s) \in Nat /\ n - Len(s) \in Nat
    BY <1>2, LenProperties
  <2> DEFINE z == Zeros(n - Len(s))
  <2>2. z \in Seq(Pieces) /\ Len(z) = n - Len(s)
    BY <2>1 DEF Zeros, Pieces
  <2>3. Resized(s, n) = s \o z
    BY <1>2, <2>1 DEF Resized
  <2> HIDE DEF z
  <2> QED
    BY <2>1, <2>2, <2>3, ConcatProperties
<1> QED
  BY <1>1, <1>2, LenProperties

LEMMA WrittenIs ==
    ASSUME NEW s \in Seq(Pieces), NEW n \in Nat, NEW x \in Pieces
    PROVE  WrittenAt(s, n, x) \in Seq(Pieces)
<1> DEFINE m == IF Len(s) > n THEN Len(s) ELSE n + 1
<1>1. m \in Nat /\ n + 1 \in 1..m
  BY LenProperties
<1>2. Resized(s, m) \in Seq(Pieces) /\ Len(Resized(s, m)) = m
  BY <1>1, ResizedIs
<1> QED
  BY <1>1, <1>2, ExceptSeq DEF WrittenAt

\* Writing at the end appends.
LEMMA WrittenAtEnd ==
    ASSUME NEW s \in Seq(Pieces), NEW x \in Pieces
    PROVE  WrittenAt(s, Len(s), x) = Append(s, x)
<1> DEFINE n == Len(s)
           r == Resized(s, n + 1)
<1>1. n \in Nat
  BY LenProperties
<1>2. /\ r \in Seq(Pieces) /\ Len(r) = n + 1
      /\ \A i \in 1..n : r[i] = s[i]
  <2> DEFINE z == Zeros(1)
  <2>1. r = s \o z
    BY <1>1 DEF Resized
  <2>2. z \in Seq(Pieces) /\ Len(z) = 1
    BY DEF Zeros, Pieces
  <2> HIDE DEF z
  <2>3. /\ s \o z \in Seq(Pieces) /\ Len(s \o z) = n + 1
        /\ \A i \in 1..(n + 1) : (s \o z)[i] = IF i <= n THEN s[i] ELSE z[i - n]
    BY <1>1, <2>2, ConcatProperties
  <2> HIDE DEF r, n
  <2> QED
    BY <1>1, <2>1, <2>3
<1>3. WrittenAt(s, n, x) = [r EXCEPT ![n + 1] = x]
  BY <1>1 DEF WrittenAt
<1> HIDE DEF r
<1>4. /\ WrittenAt(s, n, x) \in Seq(Pieces) /\ Len(WrittenAt(s, n, x)) = n + 1
      /\ \A i \in 1..(n + 1) : WrittenAt(s, n, x)[i] = IF i = n + 1 THEN x ELSE s[i]
  BY <1>1, <1>2, <1>3, ExceptSeq
<1>5. /\ Append(s, x) \in Seq(Pieces) /\ Len(Append(s, x)) = n + 1
      /\ \A i \in 1..(n + 1) : Append(s, x)[i] = IF i = n + 1 THEN x ELSE s[i]
  BY <1>1, AppendProperties
<1> QED
  BY <1>4, <1>5, SeqEqual

\* One more piece of a sequence.
LEMMA OneMore ==
    ASSUME NEW s \in Seq(Pieces), NEW n \in Nat, n < Len(s)
    PROVE  /\ SubSeq(s, 1, n + 1) = Append(SubSeq(s, 1, n), s[n + 1])
           /\ SubSeq(s, 1, n) \in Seq(Pieces) /\ Len(SubSeq(s, 1, n)) = n
           /\ s[n + 1] \in Pieces
<1>1. Len(s) \in Nat /\ \A i \in 1..Len(s) : s[i] \in Pieces
  BY LenProperties, ElementOfSeq
<1>2. /\ SubSeq(s, 1, n) \in Seq(Pieces) /\ Len(SubSeq(s, 1, n)) = n
      /\ \A i \in 1..n : SubSeq(s, 1, n)[i] = s[i]
  BY <1>1, SubSeqProperties
<1>3. /\ SubSeq(s, 1, n + 1) \in Seq(Pieces) /\ Len(SubSeq(s, 1, n + 1)) = n + 1
      /\ \A i \in 1..(n + 1) : SubSeq(s, 1, n + 1)[i] = s[i]
  BY <1>1, SubSeqProperties
<1>4. s[n + 1] \in Pieces
  BY <1>1
<1>5. /\ Append(SubSeq(s, 1, n), s[n + 1]) \in Seq(Pieces)
      /\ Len(Append(SubSeq(s, 1, n), s[n + 1])) = n + 1
      /\ \A i \in 1..(n + 1) : Append(SubSeq(s, 1, n), s[n + 1])[i] = s[i]
  BY <1>2, <1>4, AppendProperties
<1> QED
  BY <1>2, <1>3, <1>4, <1>5, SeqEqual
-----------------------------------------------------------------------------
LEMMA FilePathIs == (CHOOSE p \in FilePaths : TRUE) \in FilePaths
BY FileAssumption

LEMMA UnusedIs == Unused \in Handle /\ Unused.stage = "none" /\ Unused.sent = Nothing
BY FilePathIs DEF Unused, Handle, FileContents

LEMMA NoCopyIs == NoCopy \in Copy /\ NoCopy.stage = "idle" /\ ~NoCopy.ok
BY FilePathIs DEF NoCopy, Copy, FileContents

LEMMA FileInitIInv == FileInit => FileIInv
<1> SUFFICES ASSUME FileInit PROVE FileIInv
  OBVIOUS
<1>1. FileTyped
  BY FileAssumption, UnusedIs, NoCopyIs DEF FileInit, FileTyped, FileContents, Pieces
<1>2. \A h \in Handles : SentWhenClosed(h)
  BY UnusedIs DEF FileInit, SentWhenClosed
<1> QED
  BY <1>1, <1>2, NoCopyIs DEF FileInit, FileIInv, CopierFits, Faithful

LEMMA FileFaultIs == FileTyped /\ FileFault => fileFaults' \in Nat
BY DEF FileTyped, FileFault

(***************************************************************************)
(* What the operations of a handle do to it and to the files: only its own *)
(* file changes.                                                           *)
(***************************************************************************)
LEMMA CreatedIs ==
    ASSUME FileTyped, NEW h \in Handles, NEW p \in FilePaths, Created(h, p)
    PROVE  /\ file' \in [FilePaths -> FileContents]
           /\ handle' \in [Handles -> Handle]
           /\ \A g \in Handles \ {h} : handle'[g] = handle[g]
           /\ handle'[h].stage = "open" /\ handle'[h].path = p
           /\ handle'[h].buffer = <<>> /\ handle'[h].sent = Nothing
           /\ \A q \in FilePaths : q # p \/ q \in Cloud => file'[q] = file[q]
           /\ p \notin Cloud => file'[p] = <<>>
BY UnusedIs DEF Created, FileTyped, Handle, FileContents, Unused

LEMMA WrittenThrough ==
    ASSUME FileTyped, NEW h \in Handles, NEW x \in Pieces, Written(h, x)
    PROVE  LET p == handle[h].path IN
           /\ file' \in [FilePaths -> FileContents]
           /\ handle' = [handle EXCEPT ![h].buffer = Append(@, x)]
           /\ handle' \in [Handles -> Handle]
           /\ \A q \in FilePaths : q # p \/ q \in Cloud => file'[q] = file[q]
           /\ p \notin Cloud /\ file[p] # Nothing =>
                 file'[p] = WrittenAt(file[p], Len(handle[h].buffer), x)
<1> DEFINE p == handle[h].path
           b == handle[h].buffer
<1>1. p \in FilePaths /\ b \in Seq(Pieces) /\ Len(b) \in Nat
  BY LenProperties DEF FileTyped, Handle
<1>2. Append(b, x) \in Seq(Pieces)
  BY <1>1, AppendProperties
<1>3. handle' = [handle EXCEPT ![h].buffer = Append(@, x)]
  BY DEF Written
<1>4. handle' \in [Handles -> Handle]
  BY <1>2, <1>3 DEF FileTyped, Handle
<1>5. CASE p \in Cloud \/ file[p] = Nothing
  BY <1>1, <1>3, <1>4, <1>5 DEF Written, FileTyped
<1>6. CASE p \notin Cloud /\ file[p] # Nothing
  <2>1. file' = [file EXCEPT ![p] = WrittenAt(file[p], Len(b), x)]
    BY <1>6 DEF Written
  <2>2. WrittenAt(file[p], Len(b), x) \in FileContents
    BY <1>1, <1>6, WrittenIs DEF FileTyped, FileContents
  <2> QED
    BY <1>1, <1>3, <1>4, <1>6, <2>1, <2>2 DEF FileTyped
<1> QED
  BY <1>5, <1>6

LEMMA ClosedIs ==
    ASSUME FileTyped, NEW h \in Handles, ClosedNow(h)
    PROVE  /\ handle' \in [Handles -> Handle]
           /\ \A g \in Handles \ {h} : handle'[g] = handle[g]
           /\ handle'[h].path = handle[h].path /\ handle'[h].buffer = handle[h].buffer
           /\ IF handle[h].path \in Cloud
              THEN handle'[h].stage = "uploading" /\ handle'[h].sent = handle[h].buffer
              ELSE handle'[h].stage = "closed" /\ handle'[h].sent = handle[h].sent
BY DEF ClosedNow, FileTyped, Handle, FileContents

LEMMA UploadedIs ==
    ASSUME FileTyped, NEW h \in Handles,
           handle' = [handle EXCEPT ![h].stage = "closed"],
           \/ file' = [file EXCEPT ![handle[h].path] = handle[h].sent]
           \/ file' = file
    PROVE  /\ file' \in [FilePaths -> FileContents]
           /\ handle' \in [Handles -> Handle]
           /\ \A g \in Handles \ {h} : handle'[g] = handle[g]
           /\ handle'[h].stage = "closed" /\ handle'[h].sent = handle[h].sent
           /\ handle'[h].buffer = handle[h].buffer
           /\ \A q \in FilePaths : q # handle[h].path => file'[q] = file[q]
BY DEF FileTyped, Handle

(***************************************************************************)
(* What another does leaves copyFile's promise as it is: it changes        *)
(* neither file of the copy, or the copy is disturbed.                     *)
(***************************************************************************)
LEMMA OthersKeepCopy ==
    ASSUME FileIInv, FileTyped', handle'[Copier] = handle[Copier], NEW p \in FilePaths,
           \A q \in FilePaths : q # p => file'[q] = file[q],
           Note(p) \/ (file' = file /\ copy' = copy)
    PROVE  /\ CopierFits'
           /\ copy'.ok => copy'.stage \in {"close", "upload", "reported"}
           /\ copy'.source # copy'.dest /\ ~copy'.disturbed => Faithful'
<1>1. /\ copy'.stage = copy.stage /\ copy'.source = copy.source /\ copy'.dest = copy.dest
      /\ copy'.ok = copy.ok /\ copy'.body = copy.body /\ copy'.at = copy.at
      /\ copy'.lost = copy.lost
      /\ copy.source \in FilePaths /\ copy.dest \in FilePaths
      /\ copy.disturbed \in BOOLEAN
  BY DEF FileIInv, FileTyped, Copy, Note
<1>2. CopierFits' /\ (copy'.ok => copy'.stage \in {"close", "upload", "reported"})
  BY <1>1 DEF FileIInv, CopierFits
<1>3. ASSUME copy'.source # copy'.dest, ~copy'.disturbed
      PROVE  Faithful'
  <2>1. Faithful
    BY <1>1, <1>3 DEF FileIInv, Note, FileTyped, Copy
  <2>2. CASE copy.stage = "idle"
    BY <1>1, <2>2 DEF Faithful
  <2>3. CASE copy.stage # "idle"
    <3>1. file'[copy.source] = file[copy.source] /\ file'[copy.dest] = file[copy.dest]
      BY <1>1, <1>3, <2>3 DEF Note, Touches, FileTyped, Copy
    <3>2. copy.stage = "copy" => Body' = Body
      BY <1>1, <3>1 DEF Body
    <3> QED
      BY <1>1, <2>1, <3>1, <3>2 DEF Faithful, Holds, Whole
  <2> QED
    BY <2>2, <2>3
<1> QED
  BY <1>2, <1>3
-----------------------------------------------------------------------------
\* The other users of handles.
OtherSteps(h) ==
    \/ \E p \in FilePaths : OtherCreates(h, p)
    \/ \E x \in Data : OtherWritesOn(h, x)
    \/ \E n \in 0..MaxLen : OtherTruncates(h, n)
    \/ OtherCloses(h)
    \/ OtherUploads(h)

LEMMA NotedIs ==
    ASSUME FileTyped, NEW p \in FilePaths, Note(p) \/ copy' = copy
    PROVE  copy' \in Copy
BY DEF FileTyped, Note, Copy, Touches

LEMMA OthersIInv == \A h \in Others : FileIInv /\ OtherSteps(h) => FileIInv'
<1> SUFFICES ASSUME NEW h \in Others, FileIInv, OtherSteps(h) PROVE FileIInv'
  OBVIOUS
<1> DEFINE Step(p) == /\ FileTyped' /\ SentWhenClosed(h)'
                      /\ \A g \in Handles \ {h} : handle'[g] = handle[g]
                      /\ \A q \in FilePaths : q # p => file'[q] = file[q]
                      /\ Note(p) \/ (file' = file /\ copy' = copy)
           at == handle[h].path
<1> USE DEF Others
<1>0. /\ FileTyped /\ SentWhenClosed(h) /\ h \in Handles /\ h # Copier /\ at \in FilePaths
      /\ handle[h].buffer \in Seq(Pieces)
  BY DEF FileIInv, FileTyped, Handle
<1>1. \A p \in FilePaths : OtherCreates(h, p) => Step(p)
  <2> SUFFICES ASSUME NEW p \in FilePaths, OtherCreates(h, p) PROVE Step(p)
    OBVIOUS
  <2>1. Created(h, p) /\ Note(p) /\ fileFaults' = fileFaults
    BY DEF OtherCreates
  <2>2. copy' \in Copy
    BY <1>0, <2>1, NotedIs
  <2> QED
    BY <1>0, <2>1, <2>2, CreatedIs DEF FileTyped, SentWhenClosed
<1>2. \A x \in Data : OtherWritesOn(h, x) => Step(at)
  <2> SUFFICES ASSUME NEW x \in Data, OtherWritesOn(h, x) PROVE Step(at)
    OBVIOUS
  <2>1. Written(h, x) /\ Note(at) /\ fileFaults' = fileFaults /\ handle[h].stage = "open"
    BY DEF OtherWritesOn
  <2>2. copy' \in Copy
    BY <1>0, <2>1, NotedIs
  <2>3. /\ file' \in [FilePaths -> FileContents] /\ handle' \in [Handles -> Handle]
        /\ handle' = [handle EXCEPT ![h].buffer = Append(@, x)]
        /\ \A q \in FilePaths : q # at => file'[q] = file[q]
    BY <1>0, <2>1, WrittenThrough DEF Pieces
  <2>4. handle[h].sent = Nothing /\ handle'[h].sent = Nothing
    BY <1>0, <2>1, <2>3 DEF SentWhenClosed, FileTyped, Handle
  <2> QED
    BY <1>0, <2>1, <2>2, <2>3, <2>4 DEF FileTyped, SentWhenClosed
<1>3. \A n \in 0..MaxLen : OtherTruncates(h, n) => Step(at)
  <2> SUFFICES ASSUME NEW n \in 0..MaxLen, OtherTruncates(h, n) PROVE Step(at)
    OBVIOUS
  <2>1. /\ handle[h].stage = "open" /\ Note(at) /\ file' = file /\ fileFaults' = fileFaults
        /\ handle' = [handle EXCEPT ![h].buffer = Resized(handle[h].buffer, n)]
    BY DEF OtherTruncates
  <2>2. copy' \in Copy
    BY <1>0, <2>1, NotedIs
  <2>3. Resized(handle[h].buffer, n) \in Seq(Pieces)
    BY <1>0, ResizedIs, FileAssumption
  <2>4. /\ handle' \in [Handles -> Handle]
        /\ handle[h].sent = Nothing /\ handle'[h].sent = Nothing
    BY <1>0, <2>1, <2>3 DEF SentWhenClosed, FileTyped, Handle
  <2> QED
    BY <1>0, <2>1, <2>2, <2>4 DEF FileTyped, SentWhenClosed
<1>4. OtherCloses(h) => Step(at)
  <2> SUFFICES ASSUME OtherCloses(h) PROVE Step(at)
    OBVIOUS
  <2>1. ClosedNow(h) /\ handle[h].stage = "open" /\ UNCHANGED <<file, copy, fileFaults>>
    BY DEF OtherCloses
  <2>2. handle[h].sent = Nothing
    BY <1>0, <2>1 DEF SentWhenClosed
  <2> QED
    BY <1>0, <2>1, <2>2, ClosedIs DEF FileTyped, SentWhenClosed
<1>5. OtherUploads(h) => Step(at)
  <2> SUFFICES ASSUME OtherUploads(h) PROVE Step(at)
    OBVIOUS
  <2>1. /\ handle' = [handle EXCEPT ![h].stage = "closed"]
        /\ \/ file' = [file EXCEPT ![at] = handle[h].sent] /\ Note(at) /\ fileFaults' = fileFaults
           \/ file' = file /\ copy' = copy /\ FileFault
    BY DEF OtherUploads, Uploaded, NotUploaded
  <2>2. copy' \in Copy /\ fileFaults' \in Nat
    BY <1>0, <2>1, NotedIs, FileFaultIs DEF FileTyped
  <2>3. /\ file' \in [FilePaths -> FileContents] /\ handle' \in [Handles -> Handle]
        /\ \A g \in Handles \ {h} : handle'[g] = handle[g]
        /\ handle'[h].stage = "closed" /\ handle'[h].sent = handle[h].sent
        /\ handle'[h].buffer = handle[h].buffer
        /\ \A q \in FilePaths : q # at => file'[q] = file[q]
    BY <1>0, <2>1, UploadedIs
  <2> QED
    BY <1>0, <2>1, <2>2, <2>3 DEF FileTyped, SentWhenClosed
<1>6. PICK p \in FilePaths : Step(p)
  BY <1>0, <1>1, <1>2, <1>3, <1>4, <1>5 DEF OtherSteps
<1>7. handle'[Copier] = handle[Copier]
  BY <1>0, <1>6, FileAssumption
<1>8. \A g \in Handles : SentWhenClosed(g)'
  BY <1>6 DEF FileIInv, SentWhenClosed
<1> QED
  BY <1>6, <1>7, <1>8, OthersKeepCopy DEF FileIInv
-----------------------------------------------------------------------------
\* copyFile, step by step.
LEMMA CopierIs ==
    FileIInv => /\ FileTyped /\ Copier \in Handles /\ SentWhenClosed(Copier)
            /\ copy.source \in FilePaths /\ copy.dest \in FilePaths /\ copy.at \in Nat
            /\ DOMAIN copy = DOMAIN NoCopy
            /\ handle[Copier] \in Handle
BY FileAssumption DEF FileIInv, FileTyped, Copy, NoCopy

LEMMA BeginsIInv == \A source, dest \in FilePaths : FileIInv /\ CopyBegins(source, dest) => FileIInv'
<1> SUFFICES ASSUME NEW source \in FilePaths, NEW dest \in FilePaths, FileIInv, CopyBegins(source, dest)
             PROVE  FileIInv'
  OBVIOUS
<1>1. /\ copy' \in Copy /\ copy'.stage = "open" /\ ~copy'.ok /\ copy'.at = 0
      /\ UNCHANGED <<file, handle, fileFaults>>
  BY NoCopyIs DEF CopyBegins, Copy, NoCopy
<1> QED
  BY <1>1 DEF FileIInv, FileTyped, SentWhenClosed, CopierFits, Faithful

LEMMA OpenIInv == FileIInv /\ OpenSource => FileIInv'
<1> SUFFICES ASSUME FileIInv, OpenSource PROVE FileIInv'
  OBVIOUS
<1>1. CASE /\ file[copy.source] # Nothing
           /\ copy' = [copy EXCEPT !.stage = "create", !.body = file[copy.source]]
           /\ UNCHANGED <<file, handle, fileFaults>>
  <2>1. file[copy.source] \in Seq(Pieces) /\ Len(file[copy.source]) \in Nat
    BY <1>1, CopierIs, LenProperties DEF FileTyped, FileContents
  <2>2. /\ copy' \in Copy /\ copy'.stage = "create" /\ copy'.body = file[copy.source]
        /\ copy.stage = "open" /\ copy'.at = copy.at /\ copy'.ok = copy.ok
        /\ copy'.source = copy.source /\ copy'.dest = copy.dest
        /\ copy'.disturbed = copy.disturbed
    BY <1>1, <2>1, CopierIs DEF OpenSource, FileTyped, Copy, FileContents
  <2>3. ASSUME copy.source # copy.dest, ~copy.disturbed PROVE Faithful'
    <3>1. copy.at = 0
      BY <2>2, <2>3 DEF FileIInv, Faithful
    <3> QED
      BY <1>1, <2>1, <2>2, <3>1 DEF Faithful
  <2> QED
    BY <1>1, <2>2, <2>3 DEF FileIInv, FileTyped, SentWhenClosed, CopierFits
<1>2. CASE CopyGoto("reported") /\ fileFaults' \in Nat /\ UNCHANGED <<file, handle>>
  BY <1>2, CopierIs DEF OpenSource, CopyGoto, FileIInv, FileTyped, Copy, SentWhenClosed, CopierFits, Faithful
<1> QED
  BY <1>1, <1>2, CopierIs, FileFaultIs DEF OpenSource, FileTyped
LEMMA CreateIInv == FileIInv /\ CreateDest => FileIInv'
<1> SUFFICES ASSUME FileIInv, CreateDest PROVE FileIInv'
  OBVIOUS
<1>1. CASE Created(Copier, copy.dest) /\ CopyGoto("copy") /\ UNCHANGED fileFaults
  <2>1. /\ file' \in [FilePaths -> FileContents] /\ handle' \in [Handles -> Handle]
        /\ \A g \in Handles \ {Copier} : handle'[g] = handle[g]
        /\ handle'[Copier].stage = "open" /\ handle'[Copier].path = copy.dest
        /\ handle'[Copier].buffer = <<>> /\ handle'[Copier].sent = Nothing
        /\ \A q \in FilePaths : q # copy.dest \/ q \in Cloud => file'[q] = file[q]
        /\ copy.dest \notin Cloud => file'[copy.dest] = <<>>
    BY <1>1, CopierIs, CreatedIs
  <2>2. copy' = [copy EXCEPT !.stage = "copy"] /\ copy' \in Copy /\ copy.stage = "create"
    BY <1>1, CopierIs DEF CopyGoto, CreateDest, FileTyped, Copy
  <2>3. FileTyped'
    BY <1>1, <2>1, <2>2, CopierIs DEF FileTyped
  <2>4. \A h \in Handles : SentWhenClosed(h)'
    BY <2>1 DEF FileIInv, SentWhenClosed
  <2>5. CopierFits' /\ ~copy'.ok
    BY <2>1, <2>2 DEF FileIInv, FileTyped, Copy, CopierFits
  <2>6. ASSUME copy'.source # copy'.dest, ~copy'.disturbed PROVE Faithful'
    <3>1. Faithful /\ copy.source # copy.dest
      BY <2>2, <2>6 DEF FileIInv, FileTyped, Copy
    <3>2. file'[copy.source] = file[copy.source]
      BY <2>1, <3>1, CopierIs
    <3>3. Body' = file'[copy'.source]
      BY <2>2, <3>1, <3>2, CopierIs, FileAssumption DEF Faithful, Body, FileTyped, Copy, Pieces
    <3>4. SubSeq(file[copy.source], 1, 0) = <<>>
      BY SubSeqEmpty
    <3>5. Holds(copy.at)'
      BY <2>1, <2>2, <3>1, <3>2, <3>4 DEF Holds, Faithful, FileTyped, Copy
    <3> QED
      BY <2>2, <3>1, <3>2, <3>3, <3>5 DEF Faithful, FileTyped, Copy
  <2> QED
    BY <2>3, <2>4, <2>5, <2>6 DEF FileIInv
<1>2. CASE FileFault /\ CopyGoto("reported") /\ UNCHANGED <<file, handle>>
  <2>1. fileFaults' \in Nat
    BY <1>2, CopierIs, FileFaultIs
  <2> QED
    BY <1>2, <2>1 DEF CreateDest, CopyGoto, FileIInv, FileTyped, Copy, SentWhenClosed, CopierFits, Faithful
<1> QED
  BY <1>1, <1>2 DEF CreateDest

LEMMA PieceIInv == FileIInv /\ CopyPiece => FileIInv'
<1> SUFFICES ASSUME FileIInv, CopyPiece PROVE FileIInv'
  OBVIOUS
<1>0. /\ copy.stage = "copy" /\ ~copy.ok
      /\ handle[Copier].stage = "open" /\ handle[Copier].path = copy.dest
      /\ handle[Copier].sent = Nothing
  BY CopierIs DEF CopyPiece, FileIInv, CopierFits, SentWhenClosed
<1>1. CASE /\ copy.at < Len(Body)
           /\ Written(Copier, Body[copy.at + 1])
           /\ copy' = [copy EXCEPT !.at = @ + 1]
           /\ UNCHANGED fileFaults
  <2> DEFINE x == Body[copy.at + 1]
             src == file[copy.source]
  <2>1. x \in Pieces
    <3>1. Body \in Seq(Pieces)
      BY <1>0, CopierIs, EmptySeq DEF Body, FileTyped, Copy, FileContents, FileIInv, CopierFits
    <3> QED
      BY <1>1, <3>1, CopierIs, LenProperties, ElementOfSeq
  <2>2. /\ file' \in [FilePaths -> FileContents] /\ handle' \in [Handles -> Handle]
        /\ handle' = [handle EXCEPT ![Copier].buffer = Append(@, x)]
        /\ \A q \in FilePaths : q # copy.dest \/ q \in Cloud => file'[q] = file[q]
        /\ copy.dest \notin Cloud /\ file[copy.dest] # Nothing =>
              file'[copy.dest] = WrittenAt(file[copy.dest], Len(handle[Copier].buffer), x)
    BY <1>0, <1>1, <2>1, CopierIs, WrittenThrough
  <2>3. /\ copy' \in Copy /\ copy'.stage = "copy" /\ ~copy'.ok /\ copy'.at = copy.at + 1
        /\ copy'.source = copy.source /\ copy'.dest = copy.dest /\ copy'.body = copy.body
        /\ copy'.disturbed = copy.disturbed
    BY <1>0, <1>1, CopierIs DEF FileTyped, Copy
  <2>4. FileTyped'
    BY <1>1, <2>2, <2>3, CopierIs DEF FileTyped
  <2>5. /\ handle'[Copier].buffer = Append(handle[Copier].buffer, x)
        /\ handle'[Copier].stage = "open" /\ handle'[Copier].path = copy.dest
        /\ handle'[Copier].sent = Nothing
        /\ \A g \in Handles \ {Copier} : handle'[g] = handle[g]
    BY <1>0, <2>2, CopierIs DEF FileTyped, Handle
  <2>6. \A h \in Handles : SentWhenClosed(h)'
    BY <2>5 DEF FileIInv, SentWhenClosed
  <2>7. CopierFits'
    BY <1>0, <2>3, <2>5 DEF FileIInv, CopierFits
  <2>8. ASSUME copy.source # copy.dest, ~copy.disturbed PROVE Faithful'
    <3>1. /\ Faithful /\ src \in Seq(Pieces) /\ Body = src /\ copy.body = src /\ copy.at < Len(src)
          /\ handle[Copier].buffer = SubSeq(src, 1, copy.at)
          /\ copy.dest \notin Cloud => file[copy.dest] = SubSeq(src, 1, copy.at)
      BY <1>0, <1>1, <2>8 DEF FileIInv, Faithful, Holds
    <3>2. file'[copy.source] = src
      BY <2>2, <2>8, CopierIs
    <3>3. Body' = src
      BY <2>3, <3>1, <3>2 DEF Body
    <3>4. /\ SubSeq(src, 1, copy.at + 1) = Append(SubSeq(src, 1, copy.at), x)
          /\ SubSeq(src, 1, copy.at) \in Seq(Pieces) /\ Len(SubSeq(src, 1, copy.at)) = copy.at
      BY <3>1, CopierIs, OneMore
    <3>5. handle'[Copier].buffer = SubSeq(src, 1, copy.at + 1)
      BY <2>5, <3>1, <3>4
    <3>6. copy.dest \notin Cloud => file'[copy.dest] = SubSeq(src, 1, copy.at + 1)
      <4> SUFFICES ASSUME copy.dest \notin Cloud
                   PROVE  file'[copy.dest] = SubSeq(src, 1, copy.at + 1)
        OBVIOUS
      <4>1. file[copy.dest] # Nothing
        BY <3>1, <3>4, FileAssumption DEF Pieces
      <4>2. file'[copy.dest] = WrittenAt(SubSeq(src, 1, copy.at), copy.at, x)
        BY <2>2, <3>1, <3>4, <4>1
      <4> QED
        BY <2>1, <3>4, <4>2, WrittenAtEnd
    <3>7. copy.at + 1 <= Len(src)
      BY <3>1, CopierIs, LenProperties
    <3> HIDE DEF src, x
    <3> QED
      BY <2>3, <3>1, <3>2, <3>3, <3>5, <3>6, <3>7 DEF Faithful, Holds
  <2> QED
    BY <2>3, <2>4, <2>6, <2>7, <2>8 DEF FileIInv
<1>2. CASE copy.at >= Len(Body) /\ CopyGoto("sync") /\ UNCHANGED <<file, handle, fileFaults>>
  <2>1. copy' = [copy EXCEPT !.stage = "sync"] /\ copy' \in Copy
    BY <1>2, CopierIs DEF CopyGoto, FileTyped, Copy
  <2>2. ASSUME copy.source # copy.dest, ~copy.disturbed PROVE Faithful'
    <3>1. /\ Body = file[copy.source] /\ copy.body = file[copy.source] /\ Holds(copy.at)
          /\ copy.at <= Len(copy.body) /\ file[copy.source] \in Seq(Pieces)
      BY <1>0, <2>2 DEF FileIInv, Faithful
    <3>2. copy.at = Len(file[copy.source])
      BY <1>2, <3>1, CopierIs, LenProperties
    <3>3. Whole
      BY <3>1, <3>2, SubSeqFull DEF Holds, Whole
    <3> QED
      BY <1>2, <2>1, <3>3, CopierIs DEF Faithful, Whole, FileTyped, Copy
  <2> QED
    BY <1>0, <1>2, <2>1, <2>2, CopierIs DEF FileIInv, FileTyped, Copy, SentWhenClosed, CopierFits
<1>3. CASE FileFault /\ CopyGoto("close") /\ UNCHANGED <<file, handle>>
  <2>1. fileFaults' \in Nat
    BY <1>3, CopierIs, FileFaultIs
  <2> QED
    BY <1>0, <1>3, <2>1, CopierIs
    DEF CopyGoto, FileIInv, FileTyped, Copy, SentWhenClosed, CopierFits, Faithful
<1> QED
  BY <1>1, <1>2, <1>3 DEF CopyPiece
LEMMA SyncIInv == FileIInv /\ SyncDest => FileIInv'
<1> SUFFICES ASSUME FileIInv, SyncDest PROVE FileIInv'
  OBVIOUS
<1>1. /\ copy.stage = "sync" /\ fileFaults' \in Nat /\ UNCHANGED <<file, handle>>
      /\ \/ copy' = [copy EXCEPT !.stage = "close", !.ok = TRUE]
         \/ copy' = [copy EXCEPT !.stage = "close"]
  BY CopierIs, FileFaultIs DEF SyncDest, CopyGoto, FileTyped
<1>2. /\ copy' \in Copy /\ copy'.stage = "close"
      /\ copy'.source = copy.source /\ copy'.dest = copy.dest
      /\ copy'.disturbed = copy.disturbed
  BY <1>1, CopierIs DEF FileTyped, Copy
<1>3. CopierFits'
  BY <1>1, <1>2 DEF FileIInv, CopierFits
<1>4. ASSUME copy.source # copy.dest, ~copy.disturbed PROVE Faithful'
  BY <1>1, <1>2, <1>4 DEF FileIInv, Faithful, Whole
<1> QED
  BY <1>1, <1>2, <1>3, <1>4 DEF FileIInv, FileTyped, SentWhenClosed

LEMMA CloseIInv == FileIInv /\ CloseDest => FileIInv'
<1> SUFFICES ASSUME FileIInv, CloseDest PROVE FileIInv'
  OBVIOUS
<1>1. /\ copy.stage = "close" /\ ClosedNow(Copier) /\ UNCHANGED <<file, fileFaults>>
      /\ copy' = [copy EXCEPT !.stage = IF copy.dest \in Cloud THEN "upload" ELSE "reported"]
      /\ handle[Copier].stage = "open" /\ handle[Copier].path = copy.dest
      /\ handle[Copier].sent = Nothing
  BY CopierIs DEF CloseDest, CopyGoto, FileIInv, CopierFits, SentWhenClosed
<1>2. /\ handle' \in [Handles -> Handle]
      /\ \A g \in Handles \ {Copier} : handle'[g] = handle[g]
      /\ handle'[Copier].path = copy.dest /\ handle'[Copier].buffer = handle[Copier].buffer
      /\ IF copy.dest \in Cloud
         THEN /\ handle'[Copier].stage = "uploading"
              /\ handle'[Copier].sent = handle[Copier].buffer
         ELSE handle'[Copier].stage = "closed" /\ handle'[Copier].sent = Nothing
  BY <1>1, CopierIs, ClosedIs
<1>3. /\ copy' \in Copy /\ copy'.ok = copy.ok
      /\ copy'.stage = IF copy.dest \in Cloud THEN "upload" ELSE "reported"
      /\ copy'.source = copy.source /\ copy'.dest = copy.dest
      /\ copy'.disturbed = copy.disturbed
  BY <1>1, CopierIs DEF FileTyped, Copy
<1>4. \A h \in Handles : SentWhenClosed(h)'
  BY <1>2 DEF FileIInv, SentWhenClosed
<1>5. CopierFits'
  BY <1>2, <1>3 DEF CopierFits
<1>6. ASSUME copy.source # copy.dest, ~copy.disturbed PROVE Faithful'
  BY <1>1, <1>2, <1>3, <1>6 DEF FileIInv, Faithful, Whole
<1> QED
  BY <1>1, <1>2, <1>3, <1>4, <1>5, <1>6 DEF FileIInv, FileTyped

LEMMA UploadIInv == FileIInv /\ UploadDest => FileIInv'
<1> SUFFICES ASSUME FileIInv, UploadDest PROVE FileIInv'
  OBVIOUS
<1>1. /\ copy.stage = "upload" /\ handle[Copier].path = copy.dest
      /\ handle' = [handle EXCEPT ![Copier].stage = "closed"]
      /\ \/ /\ file' = [file EXCEPT ![copy.dest] = handle[Copier].sent]
            /\ copy' = [copy EXCEPT !.stage = "reported"]
         \/ file' = file /\ copy' = [copy EXCEPT !.stage = "reported", !.lost = TRUE]
      /\ fileFaults' \in Nat
  BY CopierIs, FileFaultIs DEF UploadDest, Uploaded, NotUploaded, CopyGoto, FileIInv, CopierFits, FileTyped
<1>2. /\ file' \in [FilePaths -> FileContents] /\ handle' \in [Handles -> Handle]
      /\ \A g \in Handles \ {Copier} : handle'[g] = handle[g]
      /\ handle'[Copier].stage = "closed" /\ handle'[Copier].sent = handle[Copier].sent
      /\ handle'[Copier].buffer = handle[Copier].buffer
      /\ \A q \in FilePaths : q # copy.dest => file'[q] = file[q]
  BY <1>1, CopierIs, UploadedIs
<1>3. /\ copy' \in Copy /\ copy'.stage = "reported" /\ copy'.ok = copy.ok
      /\ copy'.source = copy.source /\ copy'.dest = copy.dest
      /\ copy'.disturbed = copy.disturbed
  BY <1>1, CopierIs DEF FileTyped, Copy
<1>4. \A h \in Handles : SentWhenClosed(h)'
  BY <1>2 DEF FileIInv, SentWhenClosed
<1>5. CopierFits'
  BY <1>3 DEF CopierFits
<1>6. ASSUME copy.source # copy.dest, ~copy.disturbed, copy.ok
      PROVE  copy'.lost \/ file'[copy.dest] = file'[copy.source]
  <2>1. handle[Copier].sent = file[copy.source]
    BY <1>1, <1>6 DEF FileIInv, Faithful, Whole
  <2> QED
    BY <1>1, <1>2, <1>6, <2>1, CopierIs DEF FileTyped, Copy
<1>7. ASSUME copy.source # copy.dest, ~copy.disturbed PROVE Faithful'
  BY <1>3, <1>6, <1>7 DEF Faithful
<1> QED
  BY <1>1, <1>2, <1>3, <1>4, <1>5, <1>7 DEF FileIInv, FileTyped

LEMMA ReturnsIInv == FileIInv /\ CopyReturns => FileIInv'
BY CopierIs, NoCopyIs, UnusedIs
DEF CopyReturns, FileIInv, FileTyped, SentWhenClosed, CopierFits, Faithful

LEMMA FileNextIInv == FileIInv /\ [FileNext]_fileVars => FileIInv'
<1> SUFFICES ASSUME FileIInv, [FileNext]_fileVars PROVE FileIInv'
  OBVIOUS
<1>1. CASE \E source, dest \in FilePaths : CopyBegins(source, dest)
  BY <1>1, BeginsIInv
<1>2. CASE CopyingFile
  BY <1>2, OpenIInv, CreateIInv, PieceIInv, SyncIInv, CloseIInv, UploadIInv, ReturnsIInv
  DEF CopyingFile
<1>3. CASE \E h \in Others : OtherSteps(h)
  BY <1>3, OthersIInv
<1>4. CASE UNCHANGED fileVars
  BY <1>4 DEF fileVars, FileIInv, FileTyped, SentWhenClosed, CopierFits, Faithful, Holds, Whole, Body
<1> QED
  BY <1>1, <1>2, <1>3, <1>4 DEF FileNext, OtherSteps

LEMMA FileInvariance == FileSpec => []FileIInv
BY FileInitIInv, FileNextIInv, PTL DEF FileSpec

-----------------------------------------------------------------------------
(***************************************************************************)
(* Whatever handles do and whatever fails, no write that was acknowledged  *)
(* is missing from what Close uploads.                                     *)
(***************************************************************************)
THEOREM FileCopyUploads == FileSpec => []WritesAreUploaded
<1>1. FileIInv => WritesAreUploaded
  BY DEF FileIInv, SentWhenClosed, WritesAreUploaded
<1> QED
  BY <1>1, FileInvariance, PTL

(***************************************************************************)
(* A success of copyFile that nobody disturbed and whose upload did not    *)
(* fail left the whole file, of any length and wherever it is.             *)
(***************************************************************************)
THEOREM FileCopyIsWhole == FileSpec => []SuccessIsWhole
<1>1. FileIInv => SuccessIsWhole
  BY DEF FileIInv, Faithful, SuccessIsWhole
<1> QED
  BY <1>1, FileInvariance, PTL
=============================================================================
