--------------------------- MODULE GoogleDriveProofs ---------------------------
(***************************************************************************)
(* Proofs about the Google Drive adaptor, for any paths, clients, contents *)
(* and failures, and any number of files.                                  *)
(***************************************************************************)
EXTENDS GoogleDriveProps, SequenceTheorems, WellFoundedInduction, TLAPS

Names == STRING

\* What the drive can hold: files and folders, each in a folder that is there.
Nodes == {Top} \cup Ids
FolderSet == [name : Names, in : Nodes, folder : {TRUE}, body : {NoContent}]
DocSet == [name : Names, in : Nodes, folder : {FALSE}, body : Contents]
Drives == {f \in [Ids -> {Gone} \cup FolderSet \cup DocSet] :
              \A i \in Ids : f[i] # Gone => f[i].in = Top \/ f[f[i].in] \in FolderSet}

Stages == {"idle", "find", "walk", "make", "get", "download", "list", "each", "delete", "save",
           "parents", "move", "copy", "done"}
Seeking == {"find", "walk", "make"}
Thens == {"none", "get", "download", "list", "delete", "parents", "source", "made", "save", "enter"}
Operations == {"Stat", "Open", "ReadDir", "Write", "Remove", "RemoveAll", "Rename", "Copy", "Mkdir"}

Calls == [op : Operations \cup {"none"}, at : Seq(Names), to : Seq(Names), stage : Stages,
          goal : Seq(Names), making : BOOLEAN, then : Thens, node : Nodes, depth : Nat,
          source : Nodes, parent : Nodes, todo : SUBSET (Ids \X Names),
          body : Contents \cup {NoContent}, ok : BOOLEAN, was : Drives,
          quiet : BOOLEAN, sure : BOOLEAN]

Typed ==
    /\ file \in Drives
    /\ created \in 0..MaxFiles
    /\ \A i \in Ids : i > created => file[i] = Gone
    /\ call \in [Clients -> Calls]

\* What a call is looking for, or doing with what it found.
Use(e) == IF e.stage \in Seeking THEN e.then ELSE e.stage

\* The folder that a call creates if it is not there.
Target(e) == IF e.op = "Mkdir" THEN e.at ELSE IF e.op = "Write" THEN Parent(e.at) ELSE Parent(e.to)

\* What the stage of a call says of its operation and its paths.
Fits(e) ==
    /\ e.stage = "idle" => e = Idle
    /\ e.stage \in Seeking => /\ e.depth <= Len(e.goal) /\ e.then # "none"
                              /\ e.making <=> e.then \in {"made", "enter"}
                              /\ e.depth = 0 => e.node = Top
    /\ e.stage = "save" /\ e.at = Root => e.node = Top
    /\ e.stage \in {"walk", "make"} => e.making
    /\ e.stage = "make" => e.depth < Len(e.goal)
    /\ Use(e) = "get" => e.op \in {"Stat", "Open"}
    /\ Use(e) = "download" => e.op = "Open"
    /\ Use(e) = "list" => e.op \in {"ReadDir", "RemoveAll"}
    /\ Use(e) = "each" => e.op = "RemoveAll"
    /\ Use(e) = "delete" => e.op \in {"Remove", "RemoveAll"}
    /\ Use(e) \in {"parents", "move"} => e.op = "Rename"
    /\ Use(e) \in {"source", "copy"} => e.op = "Copy"
    /\ Use(e) = "made" => e.op = "Mkdir"
    /\ Use(e) = "save" => e.op = "Write"
    /\ Use(e) = "enter" => e.op \in {"Write", "Rename", "Copy"} /\ e.goal = Target(e)
    /\ Use(e) \in {"get", "download", "list", "parents", "source", "made", "save"} => e.goal = e.at
    /\ Use(e) = "delete" => \/ e.goal = e.at
                            \/ e.op = "RemoveAll" /\ e.goal # Root /\ Front(e.goal) = e.at
    /\ e.op = "Write" => e.body \in Contents

\* A folder is created where there is none of its name, if nobody else created one since.
Clear(e, f) ==
    e.stage = "make" /\ e.quiet =>
        \A i \in Ids : f[i] \in FolderSet /\ f[i].in = e.node => f[i].name # e.goal[e.depth + 1]

\* The calls that the properties speak of.
Alone(e) == e.quiet /\ e.sure /\ Unambiguous(e.was)

\* The drive of a call that may create folders: what was there is as it was, what is
\* new are folders on the way to a target that was not there.
Grown(e, f) ==
    /\ \A i \in Ids : e.was[i] # Gone => f[i] = e.was[i]
    /\ \A i \in Ids : e.was[i] = Gone /\ f[i] # Gone =>
          f[i] \in FolderSet /\ \E k \in 1..Len(Target(e)) : i \in Named(f, SubSeq(Target(e), 1, k))
    /\ f = e.was \/ Named(e.was, Target(e)) = {}
    /\ Use(e) \in {"source", "parents"} \/ (e.stage = "find" /\ e.making) => f = e.was
    /\ e.stage \in {"walk", "make"} => Named(e.was, Target(e)) = {}

\* The drive of a call that removes a folder: something at or below its path is gone.
Shrunk(e, f) ==
    \A i \in Ids : \/ f[i] = e.was[i]
                   \/ f[i] = Gone /\ \E k \in Named(e.was, e.at) : i \in Under(e.was, k)

\* What has become of the drive since the call began.
Kept(e, f) ==
    /\ e.op \in {"Stat", "Open", "ReadDir", "Remove"} => f = e.was
    /\ e.op = "RemoveAll" => Shrunk(e, f)
    /\ e.op \in {"Mkdir", "Write", "Rename", "Copy"} => Grown(e, f)

\* What it has found is at the path it was looking for.
Placed(e, f) ==
    /\ e.stage \in Seeking => e.node \in Named(f, SubSeq(e.goal, 1, e.depth))
    /\ e.stage \in {"list", "delete", "parents"} => e.node \in Named(f, e.goal)
    /\ e.stage = "save" => \/ e.node \in Named(f, e.at)
                           \/ e.node = Top /\ (e.at # Root => Named(f, e.at) = {})
    /\ Use(e) \in {"enter", "move", "copy"} /\ e.op \in {"Rename", "Copy"} =>
          e.source \in Named(e.was, e.at)
    /\ e.stage \in {"move", "copy"} => e.parent \in Named(f, Parent(e.to))
    /\ Use(e) = "save" => e.parent \in Named(f, Parent(e.at))

\* AloneTouches and AloneDoes of one call.
Touches(e, f) ==
    LET changed == {i \in Ids : e.was[i] # Gone /\ f[i] # e.was[i]} IN
    CASE e.op \in {"Write", "Rename"} -> changed \subseteq Named(e.was, e.at)
      [] e.op \in {"Remove", "RemoveAll"} ->
            changed \subseteq UNION {Under(e.was, i) : i \in Named(e.was, e.at)}
      [] OTHER -> changed = {}

FoldersOf(f) == {Top} \cup {i \in Ids : f[i] \in FolderSet}

Well(e, f) ==
    LET before == Named(e.was, e.at)
        now == Named(f, e.at)
        new == Named(f, e.to)
    IN
    /\ e.op = "Write" => \E i \in Ids : f[i] \in DocSet /\ now = {i} /\ f[i].body = e.body
    /\ e.op \in {"Remove", "RemoveAll"} => now = {}
    /\ e.op = "Mkdir" => now # {} /\ now \subseteq FoldersOf(f) \cup before
    /\ e.op = "Rename" /\ e.to # Root => before \subseteq new /\ (e.to # e.at => before \cap now = {})
    /\ e.op = "Copy" /\ e.to # Root =>
          /\ before = now \ FoldersOf(f) \/ e.to = e.at
          /\ \E i \in new \ before : \A j \in before : f[i].body = f[j].body

Does(e, f) ==
    Alone(e) =>
        /\ e.stage \notin {"idle", "done"} => Kept(e, f) /\ Placed(e, f)
        /\ e.stage = "done" => Touches(e, f) /\ (e.ok => Well(e, f))

Fine(e, f) == Fits(e) /\ Clear(e, f) /\ Does(e, f)

\* No other call is in progress with one that is quiet.
Apart ==
    \A c, d \in Clients :
        c # d /\ call[c].quiet /\ call[c].stage # "idle" => call[d].stage = "idle"

IInv == Typed /\ Apart /\ \A c \in Clients : Fine(call[c], file)

\* What is in g is in f too, under the same name and in the same folder.
Within(g, f) ==
    \A i \in Ids : g[i] # Gone => f[i] # Gone /\ f[i].name = g[i].name /\ f[i].in = g[i].in

-----------------------------------------------------------------------------
(***************************************************************************)
(* Paths, and the files they name.                                         *)
(***************************************************************************)
LEMMA LeastOf ==
    ASSUME NEW T, T \subseteq Nat, T # {}
    PROVE  \E n \in T : \A m \in T : n <= m
<1> DEFINE less == {ss \in Nat \X Nat : ss[1] < ss[2]}
<1>1. IsWellFoundedOn(less, Nat)
  BY NatLessThanWellFounded, Zenon DEF OpToRel
<1>2. \E n \in T : \A m \in T : <<m, n>> \notin less
  <2> HIDE DEF less
  <2> QED
    BY <1>1, WFMin, Zenon
<1>3. ASSUME NEW m \in Nat, NEW n \in Nat, <<m, n>> \notin less PROVE n <= m
  BY <1>3
<1> HIDE DEF less
<1> QED
  BY <1>2, <1>3

\* The first names of a path, as getFileID goes through them.
LEMMA PrefixIs ==
    ASSUME NEW p \in Seq(Names), NEW n \in Nat, n <= Len(p)
    PROVE  /\ SubSeq(p, 1, n) \in Seq(Names) /\ Len(SubSeq(p, 1, n)) = n
           /\ SubSeq(p, 1, 0) = Root /\ SubSeq(p, 1, Len(p)) = p
           /\ n < Len(p) => /\ p[n + 1] \in Names
                            /\ SubSeq(p, 1, n + 1) = Append(SubSeq(p, 1, n), p[n + 1])
<1>1. Len(p) \in Nat /\ \A i \in 1..Len(p) : p[i] \in Names
  BY LenProperties, ElementOfSeq
<1>2. \A m \in 0..Len(p) : /\ SubSeq(p, 1, m) \in Seq(Names) /\ Len(SubSeq(p, 1, m)) = m
                           /\ \A i \in 1..m : SubSeq(p, 1, m)[i] = p[i]
  BY <1>1, SubSeqProperties
<1>3. SubSeq(p, 1, 0) = Root
  BY <1>1, <1>2, EmptySeq DEF Root
<1>4. SubSeq(p, 1, Len(p)) = p
  BY <1>1, <1>2, SeqEqual
<1>5. ASSUME n < Len(p)
      PROVE  SubSeq(p, 1, n + 1) = Append(SubSeq(p, 1, n), p[n + 1])
  <2> DEFINE s == SubSeq(p, 1, n)
             a == Append(s, p[n + 1])
  <2>1. s \in Seq(Names) /\ Len(s) = n /\ \A i \in 1..n : s[i] = p[i]
    BY <1>1, <1>2
  <2>2. p[n + 1] \in Names
    BY <1>1, <1>5
  <2>3. a \in Seq(Names) /\ Len(a) = n + 1 /\ a[n + 1] = p[n + 1] /\ \A i \in 1..n : a[i] = s[i]
    <3> HIDE DEF s
    <3> QED
      BY <2>1, <2>2, AppendProperties
  <2>4. \A i \in 1..n + 1 : a[i] = p[i]
    BY <2>1, <2>3
  <2>5. n + 1 \in 0..Len(p)
    BY <1>1, <1>5
  <2> QED
    BY <1>2, <2>3, <2>4, <2>5, SeqEqual
<1> QED
  BY <1>1, <1>2, <1>3, <1>4, <1>5

LEMMA PathCases ==
    ASSUME NEW p \in Seq(Names)
    PROVE  \/ p = Root
           \/ /\ p # Root /\ Front(p) \in Seq(Names) /\ Last(p) \in Names
              /\ p = Append(Front(p), Last(p)) /\ Len(p) = Len(Front(p)) + 1
<1>1. CASE p = Root
  BY <1>1
<1>2. CASE p # Root
  <2>1. Len(p) \in Nat \ {0} /\ \A i \in 1..Len(p) : p[i] \in Names
    BY <1>2, EmptySeq, LenProperties, ElementOfSeq DEF Root
  <2>2. Len(p) - 1 \in Nat /\ Len(p) - 1 < Len(p) /\ Len(p) - 1 + 1 = Len(p)
    BY <2>1
  <2>3. /\ SubSeq(p, 1, Len(p) - 1) \in Seq(Names) /\ Len(SubSeq(p, 1, Len(p) - 1)) = Len(p) - 1
        /\ p = Append(SubSeq(p, 1, Len(p) - 1), p[Len(p)])
    BY <2>2, PrefixIs
  <2> QED
    BY <1>2, <2>1, <2>2, <2>3 DEF Front, Last
<1> QED
  BY <1>1, <1>2

LEMMA AppendIs ==
    ASSUME NEW p \in Seq(Names), NEW x \in Names
    PROVE  /\ Append(p, x) \in Seq(Names) /\ Append(p, x) # Root
           /\ Len(Append(p, x)) = Len(p) + 1
           /\ Front(Append(p, x)) = p /\ Last(Append(p, x)) = x
<1> DEFINE a == Append(p, x)
<1>1. /\ a \in Seq(Names) /\ Len(a) = Len(p) + 1 /\ Len(p) \in Nat
      /\ a[Len(p) + 1] = x /\ \A i \in 1..Len(p) : a[i] = p[i]
  BY AppendProperties
<1>2. a # Root
  BY <1>1 DEF Root
<1>3. Front(a) \in Seq(Names) /\ Len(Front(a)) = Len(p) /\ \A i \in 1..Len(p) : Front(a)[i] = a[i]
  BY <1>1, SubSeqProperties DEF Front
<1>4. Front(a) = p
  BY <1>1, <1>3, SeqEqual
<1> QED
  BY <1>1, <1>2, <1>4 DEF Last

\* What holds of the root, and of what is in a folder if it does of the folder, holds of all paths.
LEMMA PathInduction ==
    ASSUME NEW S, Root \in S,
           \A p \in Seq(Names) : \A x \in Names : p \in S => Append(p, x) \in S
    PROVE  Seq(Names) \subseteq S
<1> SUFFICES ASSUME NEW bad \in Seq(Names), bad \notin S PROVE FALSE
  OBVIOUS
<1> DEFINE T == {Len(p) : p \in Seq(Names) \ S}
<1>1. T \subseteq Nat /\ T # {}
  BY LenProperties
<1>2. PICK n \in T : \A m \in T : n <= m
  <2> HIDE DEF T
  <2> QED
    BY <1>1, LeastOf
<1>3. PICK p \in Seq(Names) \ S : n = Len(p)
  BY <1>2
<1>4. /\ p # Root /\ Front(p) \in Seq(Names) /\ Last(p) \in Names
      /\ p = Append(Front(p), Last(p)) /\ Len(p) = Len(Front(p)) + 1
  BY <1>3, PathCases
<1>5. Front(p) \in S
  <2>1. Front(p) \notin S => Len(Front(p)) \in T
    BY <1>4
  <2>2. Len(Front(p)) \in Nat
    BY <1>4, LenProperties
  <2> QED
    BY <1>2, <1>3, <1>4, <2>1, <2>2
<1> QED
  BY <1>3, <1>4, <1>5

-----------------------------------------------------------------------------
LEMMA NodesAre == MaxFiles \in Nat /\ Top \notin Ids /\ Ids \subseteq Nat
BY DriveAssumption DEF Top, Ids

\* A folder is not a file, and neither is nothing.
LEMMA SetsDiffer ==
    /\ Gone \notin FolderSet /\ Gone \notin DocSet
    /\ \A x \in FolderSet : x.folder = TRUE /\ x # Gone /\ x.in \in Nodes /\ x.name \in Names
                            /\ x.body = NoContent
    /\ \A x \in DocSet : x.folder = FALSE /\ x # Gone /\ x.in \in Nodes /\ x.name \in Names
                         /\ x.body \in Contents
    /\ Gone.folder = FALSE
<1>1. Gone.folder = FALSE /\ Gone.body = NoContent
  BY DEF Gone
<1>2. ASSUME NEW x \in FolderSet
      PROVE  x.folder = TRUE /\ x.in \in Nodes /\ x.name \in Names /\ x.body = NoContent
  BY DEF FolderSet
<1>3. ASSUME NEW x \in DocSet
      PROVE  x.folder = FALSE /\ x.in \in Nodes /\ x.name \in Names /\ x.body \in Contents
  BY DEF DocSet
<1> QED
  BY <1>1, <1>2, <1>3, DriveAssumption

LEMMA NamedRoot == \A f : Named(f, Root) = {Top}
<1> SUFFICES ASSUME NEW f PROVE Named(f, Root) = {Top}
  OBVIOUS
<1> DEFINE t == [n \in 0..0 |-> Top]
<1>1. Len(Root) = 0
  BY DEF Root
<1>2. t \in Trails(f, Root) /\ t[0] = Top
  BY <1>1, NodesAre DEF Trails
<1>3. \A u \in Trails(f, Root) : u[0] = Top
  BY DEF Trails
<1> QED
  BY <1>1, <1>2, <1>3 DEF Named

\* What one more name leads to is in what the path so far leads to.
LEMMA NamedNext ==
    ASSUME NEW f, NEW p \in Seq(Names), NEW x \in Names
    PROVE  Named(f, Append(p, x)) =
              {i \in Ids : f[i] # Gone /\ f[i].name = x /\ f[i].in \in Named(f, p)}
<1> DEFINE a == Append(p, x)
           m == Len(p)
<1>1. /\ m \in Nat /\ Len(a) = m + 1 /\ a[m + 1] = x
      /\ \A n \in 1..m : a[n] = p[n]
  BY AppendProperties, LenProperties
<1> HIDE DEF a
<1>2. ASSUME NEW i \in Named(f, a)
      PROVE  i \in Ids /\ f[i] # Gone /\ f[i].name = x /\ f[i].in \in Named(f, p)
  <2>1. PICK t \in Trails(f, a) : i = t[m + 1]
    BY <1>1 DEF Named
  <2> DEFINE u == [n \in 0..m |-> t[n]]
  <2>2. /\ t \in [0..m + 1 -> Nodes] /\ t[0] = Top
        /\ \A n \in 1..m + 1 :
              t[n] \in Ids /\ f[t[n]] # Gone /\ f[t[n]].name = a[n] /\ f[t[n]].in = t[n - 1]
    BY <1>1 DEF Trails, Nodes
  <2>3. u \in [0..m -> Nodes] /\ u[0] = Top
    BY <1>1, <2>2
  <2>4. ASSUME NEW n \in 1..m
        PROVE  u[n] \in Ids /\ f[u[n]] # Gone /\ f[u[n]].name = p[n] /\ f[u[n]].in = u[n - 1]
    <3>1. n \in 1..m + 1 /\ n \in 0..m /\ n - 1 \in 0..m
      BY <1>1
    <3> QED
      BY <1>1, <2>2, <3>1
  <2>5. u \in Trails(f, p)
    <3> HIDE DEF u
    <3> QED
      BY <2>3, <2>4 DEF Trails, Nodes
  <2>6. m \in 0..m /\ m + 1 \in 1..m + 1 /\ m + 1 - 1 = m
    BY <1>1
  <2>7. t[m] \in Named(f, p)
    BY <2>5, <2>6 DEF Named
  <2> QED
    BY <1>1, <2>1, <2>2, <2>6, <2>7
<1>3. ASSUME NEW i \in Ids, f[i] # Gone, f[i].name = x, f[i].in \in Named(f, p)
      PROVE  i \in Named(f, a)
  <2>1. PICK u \in Trails(f, p) : f[i].in = u[m]
    BY <1>3 DEF Named
  <2> DEFINE t == [n \in 0..m + 1 |-> IF n = m + 1 THEN i ELSE u[n]]
  <2>2. /\ u \in [0..m -> Nodes] /\ u[0] = Top
        /\ \A n \in 1..m :
              u[n] \in Ids /\ f[u[n]] # Gone /\ f[u[n]].name = p[n] /\ f[u[n]].in = u[n - 1]
    BY DEF Trails, Nodes
  <2>3. t \in [0..m + 1 -> Nodes] /\ t[0] = Top /\ t[m + 1] = i
    BY <1>1, <2>2, <1>3 DEF Nodes
  <2>4. ASSUME NEW n \in 1..m + 1
        PROVE  t[n] \in Ids /\ f[t[n]] # Gone /\ f[t[n]].name = a[n] /\ f[t[n]].in = t[n - 1]
    <3>1. CASE n = m + 1
      <4>1. t[n] = i /\ t[n - 1] = u[m]
        BY <1>1, <3>1
      <4> QED
        BY <1>1, <1>3, <2>1, <3>1, <4>1
    <3>2. CASE n # m + 1
      <4>1. n \in 1..m /\ t[n] = u[n] /\ t[n - 1] = u[n - 1]
        BY <1>1, <3>2
      <4> QED
        BY <1>1, <2>2, <4>1
    <3> QED
      BY <3>1, <3>2
  <2>5. t \in Trails(f, a)
    <3> HIDE DEF t
    <3> QED
      BY <1>1, <2>3, <2>4 DEF Trails, Nodes
  <2> QED
    BY <1>1, <2>3, <2>5 DEF Named
<1> QED
  BY <1>2, <1>3 DEF a

LEMMA NamedIn ==
    ASSUME NEW f, NEW p \in Seq(Names), NEW x \in Names, NEW i
    PROVE  i \in Named(f, Append(p, x)) <=>
              i \in Ids /\ f[i] # Gone /\ f[i].name = x /\ f[i].in \in Named(f, p)
BY NamedNext

LEMMA NamedAre ==
    ASSUME NEW f, NEW p \in Seq(Names)
    PROVE  /\ Named(f, p) \subseteq Nodes
           /\ p # Root => Named(f, p) \subseteq {i \in Ids : f[i] # Gone}
           /\ p # Root => Named(f, p) =
                {i \in Ids : f[i] # Gone /\ f[i].name = Last(p) /\ f[i].in \in Named(f, Front(p))}
<1>1. CASE p = Root
  BY <1>1, NamedRoot DEF Nodes
<1>2. CASE p # Root
  <2>1. /\ Front(p) \in Seq(Names) /\ Last(p) \in Names
        /\ p = Append(Front(p), Last(p))
    BY <1>2, PathCases
  <2>2. Named(f, Append(Front(p), Last(p))) =
           {i \in Ids : f[i] # Gone /\ f[i].name = Last(p) /\ f[i].in \in Named(f, Front(p))}
    BY <2>1, NamedNext
  <2> QED
    BY <1>2, <2>1, <2>2 DEF Nodes
<1> QED
  BY <1>1, <1>2

LEMMA NamedLast ==
    ASSUME NEW f, NEW p \in Seq(Names), NEW i \in Named(f, p), p # Root
    PROVE  i \in Ids /\ f[i] # Gone /\ f[i].name = Last(p) /\ f[i].in \in Named(f, Front(p))
BY NamedAre

\* Where names are unique a path names one file at most.
LEMMA OneFile ==
    ASSUME NEW f, Unambiguous(f), NEW p \in Seq(Names), NEW i \in Named(f, p), NEW j \in Named(f, p)
    PROVE  i = j
<1> DEFINE S == {q \in Seq(Names) : \A k, l \in Named(f, q) : k = l}
<1>1. Root \in S
  BY NamedRoot, EmptySeq DEF Root
<1>2. ASSUME NEW q \in Seq(Names), NEW x \in Names, q \in S PROVE Append(q, x) \in S
  <2> SUFFICES ASSUME NEW k \in Named(f, Append(q, x)), NEW l \in Named(f, Append(q, x)) PROVE k = l
    BY AppendIs
  <2>1. k \in Ids /\ f[k] # Gone /\ f[k].name = x /\ f[k].in \in Named(f, q)
    BY NamedIn, Zenon
  <2>2. l \in Ids /\ f[l] # Gone /\ f[l].name = x /\ f[l].in \in Named(f, q)
    BY NamedIn, Zenon
  <2>3. f[k].in = f[l].in
    BY <1>2, <2>1, <2>2
  <2> QED
    BY <2>1, <2>2, <2>3 DEF Unambiguous, Twins
<1> HIDE DEF S
<1>3. Seq(Names) \subseteq S
  BY <1>1, <1>2, PathInduction
<1> QED
  BY <1>3 DEF S

\* No file has two paths.
LEMMA OnePath ==
    ASSUME NEW f, NEW p \in Seq(Names), NEW q \in Seq(Names), NEW i,
           i \in Named(f, p), i \in Named(f, q)
    PROVE  p = q
<1> DEFINE S == {s \in Seq(Names) : \A t \in Seq(Names) : \A k \in Named(f, s) :
                    k \in Named(f, t) => s = t}
<1>1. Root \in S
  <2>1. ASSUME NEW t \in Seq(Names), Top \in Named(f, t) PROVE t = Root
    BY <2>1, NamedAre, NodesAre
  <2> QED
    BY <2>1, NamedRoot, EmptySeq DEF Root
<1>2. ASSUME NEW s \in Seq(Names), NEW x \in Names, s \in S PROVE Append(s, x) \in S
  <2> SUFFICES ASSUME NEW t \in Seq(Names), NEW k \in Named(f, Append(s, x)), k \in Named(f, t)
               PROVE  Append(s, x) = t
    BY AppendIs
  <2>1. k \in Ids /\ f[k] # Gone /\ f[k].name = x /\ f[k].in \in Named(f, s)
    BY NamedIn
  <2>2. t # Root
    BY <2>1, NamedRoot, NodesAre
  <2>3. /\ Front(t) \in Seq(Names) /\ t = Append(Front(t), Last(t))
        /\ f[k].name = Last(t) /\ f[k].in \in Named(f, Front(t))
    BY <2>2, PathCases, NamedAre
  <2>4. s = Front(t)
    BY <1>2, <2>1, <2>3
  <2> QED
    BY <2>1, <2>3, <2>4
<1> HIDE DEF S
<1>3. Seq(Names) \subseteq S
  BY <1>1, <1>2, PathInduction
<1> QED
  BY <1>3 DEF S

\* A drive that has no more names no more.
LEMMA WithinNames ==
    ASSUME NEW f, NEW g, Within(g, f), NEW p \in Seq(Names)
    PROVE  Named(g, p) \subseteq Named(f, p)
<1> DEFINE S == {q \in Seq(Names) : Named(g, q) \subseteq Named(f, q)}
<1>1. Root \in S
  BY NamedRoot, EmptySeq DEF Root
<1>2. ASSUME NEW q \in Seq(Names), NEW x \in Names, q \in S PROVE Append(q, x) \in S
  <2> SUFFICES ASSUME NEW k \in Named(g, Append(q, x)) PROVE k \in Named(f, Append(q, x))
    BY AppendIs
  <2>1. k \in Ids /\ g[k] # Gone /\ g[k].name = x /\ g[k].in \in Named(g, q)
    BY NamedIn, Zenon
  <2>2. f[k] # Gone /\ f[k].name = x /\ f[k].in = g[k].in
    BY <2>1 DEF Within
  <2> QED
    BY <1>2, <2>1, <2>2, NamedIn
<1> HIDE DEF S
<1>3. Seq(Names) \subseteq S
  BY <1>1, <1>2, PathInduction
<1> QED
  BY <1>3 DEF S

\* What was there already has the paths it had.
LEMMA OldNames ==
    ASSUME NEW f \in Drives, NEW g, Within(f, g), NEW p \in Seq(Names),
           NEW i \in Named(g, p), i = Top \/ f[i] # Gone
    PROVE  i \in Named(f, p)
<1> DEFINE S == {q \in Seq(Names) : \A k \in Named(g, q) : k = Top \/ f[k] # Gone => k \in Named(f, q)}
<1>1. Root \in S
  BY NamedRoot, EmptySeq DEF Root
<1>2. ASSUME NEW q \in Seq(Names), NEW x \in Names, q \in S PROVE Append(q, x) \in S
  <2> SUFFICES ASSUME NEW k \in Named(g, Append(q, x)), k = Top \/ f[k] # Gone
               PROVE  k \in Named(f, Append(q, x))
    BY AppendIs
  <2>1. k \in Ids /\ g[k] # Gone /\ g[k].name = x /\ g[k].in \in Named(g, q)
    BY NamedIn, Zenon
  <2>2. f[k] # Gone /\ f[k].name = x /\ f[k].in = g[k].in
    BY <2>1, NodesAre DEF Within
  <2>3. f[k].in = Top \/ f[f[k].in] # Gone
    BY <2>1, <2>2, SetsDiffer DEF Drives
  <2> QED
    BY <1>2, <2>1, <2>2, <2>3, NamedIn
<1> HIDE DEF S
<1>3. Seq(Names) \subseteq S
  BY <1>1, <1>2, PathInduction
<1> QED
  BY <1>3 DEF S

LEMMA DriveIs ==
    ASSUME NEW f \in Drives, NEW i \in Ids
    PROVE  /\ f[i] = Gone \/ f[i] \in FolderSet \/ f[i] \in DocSet
           /\ f[i].folder = TRUE <=> f[i] \in FolderSet
           /\ f[i] # Gone /\ f[i].folder # TRUE <=> f[i] \in DocSet
           /\ f[i].folder \in BOOLEAN
           /\ f[i] # Gone => /\ f[i].name \in Names /\ f[i].in \in Nodes
                             /\ f[i].in = Top \/ f[f[i].in] \in FolderSet
<1>1. f[i] = Gone \/ f[i] \in FolderSet \/ f[i] \in DocSet
  BY DEF Drives
<1>2. f[i] # Gone => f[i].in = Top \/ f[f[i].in] \in FolderSet
  BY DEF Drives
<1> QED
  BY <1>1, <1>2, SetsDiffer

-----------------------------------------------------------------------------
(***************************************************************************)
(* What is below a file.                                                   *)
(***************************************************************************)
LEMMA UnderIs ==
    ASSUME NEW f, NEW i \in Nodes
    PROVE  /\ i \in Under(f, i)
           /\ i # Top => Under(f, i) \subseteq Ids
           /\ Under(f, i) \subseteq Ids \cup {i}
           /\ \A k \in Ids : f[k] # Gone /\ f[k].in \in Under(f, i) => k \in Under(f, i)
<1>1. i \in Under(f, i) /\ Under(f, i) \subseteq Ids \cup {i}
  BY DEF Under
<1>2. ASSUME NEW k \in Ids, f[k] # Gone, f[k].in \in Under(f, i) PROVE k \in Under(f, i)
  BY <1>2 DEF Under
<1> QED
  BY <1>1, <1>2 DEF Nodes

LEMMA UnderLeast ==
    ASSUME NEW f, NEW i \in Nodes, NEW S, i \in S,
           \A k \in Ids : f[k] # Gone /\ f[k].in \in S => k \in S
    PROVE  Under(f, i) \subseteq S
<1> DEFINE R == S \cap (Ids \cup {i})
<1>1. R \in SUBSET (Ids \cup {i}) /\ i \in R
  OBVIOUS
<1>2. \A k \in Ids : f[k] # Gone /\ f[k].in \in R => k \in R
  OBVIOUS
<1> HIDE DEF R
<1>3. Under(f, i) \subseteq R
  BY <1>1, <1>2 DEF Under
<1> QED
  BY <1>3 DEF R

\* What is below what is below.
LEMMA UnderUnder ==
    ASSUME NEW f, NEW i \in Nodes, NEW k \in Nodes, k \in Under(f, i)
    PROVE  Under(f, k) \subseteq Under(f, i)
BY UnderIs, UnderLeast

LEMMA UnderWithin ==
    ASSUME NEW f, NEW g, Within(g, f), NEW i \in Nodes
    PROVE  Under(g, i) \subseteq Under(f, i)
<1>1. \A k \in Ids : g[k] # Gone /\ g[k].in \in Under(f, i) => k \in Under(f, i)
  BY UnderIs DEF Within
<1> QED
  BY <1>1, UnderIs, UnderLeast

\* What is not below i keeps its path when only what is below i changes.
LEMMA NamesBeside ==
    ASSUME NEW f, NEW g, NEW i \in Ids,
           \A k \in Ids : k \notin Under(f, i) => g[k] = f[k],
           NEW p \in Seq(Names), NEW j \in Named(f, p), j \notin Under(f, i)
    PROVE  j \in Named(g, p)
<1> DEFINE S == {q \in Seq(Names) : \A k \in Named(f, q) : k \notin Under(f, i) => k \in Named(g, q)}
<1>1. Root \in S
  BY NamedRoot, EmptySeq DEF Root
<1>2. ASSUME NEW q \in Seq(Names), NEW x \in Names, q \in S PROVE Append(q, x) \in S
  <2> SUFFICES ASSUME NEW k \in Named(f, Append(q, x)), k \notin Under(f, i)
               PROVE  k \in Named(g, Append(q, x))
    BY AppendIs
  <2>1. k \in Ids /\ f[k] # Gone /\ f[k].name = x /\ f[k].in \in Named(f, q)
    BY NamedIn, Zenon
  <2>2. f[k].in \notin Under(f, i)
    BY <2>1, UnderIs DEF Nodes
  <2> QED
    BY <1>2, <2>1, <2>2, NamedIn
<1> HIDE DEF S
<1>3. Seq(Names) \subseteq S
  BY <1>1, <1>2, PathInduction
<1> QED
  BY <1>3 DEF S

-----------------------------------------------------------------------------
(***************************************************************************)
(* What requests make of the drive.                                        *)
(***************************************************************************)
Put(f, i, x) == [f EXCEPT ![i] = x]

LEMMA PutFits ==
    ASSUME NEW f \in Drives, NEW i \in Ids, NEW x \in FolderSet \cup DocSet,
           f[i] \in FolderSet => x \in FolderSet,
           x.in = Top \/ f[x.in] \in FolderSet
    PROVE  /\ Put(f, i, x) \in Drives /\ Put(f, i, x)[i] = x
           /\ \A k \in Ids : k # i => Put(f, i, x)[k] = f[k]
<1> DEFINE g == Put(f, i, x)
<1>1. /\ g \in [Ids -> {Gone} \cup FolderSet \cup DocSet] /\ g[i] = x
      /\ \A k \in Ids : k # i => g[k] = f[k]
  BY DEF Drives, Put
<1> HIDE DEF g
<1>2. \A k \in Ids : f[k] \in FolderSet => g[k] \in FolderSet
  BY <1>1
<1>3. ASSUME NEW k \in Ids, g[k] # Gone PROVE g[k].in = Top \/ g[g[k].in] \in FolderSet
  <2>1. g[k].in \in Nodes
    BY <1>1, <1>3, SetsDiffer
  <2>2. CASE k = i
    BY <1>1, <1>2, <2>1, <2>2 DEF Nodes
  <2>3. CASE k # i
    <3>1. f[k] # Gone /\ f[k].in = g[k].in
      BY <1>1, <1>3, <2>3
    <3> QED
      BY <1>2, <2>1, <3>1, DriveIs DEF Nodes
  <2> QED
    BY <2>2, <2>3
<1> QED
  BY <1>1, <1>3 DEF Drives, g

LEMMA CreatedFits ==
    ASSUME NEW f \in Drives, NEW n \in Ids, f[n] = Gone, NEW x, x \in FolderSet \cup DocSet,
           x.in = Top \/ f[x.in] \in FolderSet,
           NEW g, g = Put(f, n, x)
    PROVE  /\ g \in Drives /\ Within(f, g) /\ g[n] = x
           /\ \A k \in Ids : k # n => g[k] = f[k]
<1>1. g \in Drives /\ g[n] = x /\ \A k \in Ids : k # n => g[k] = f[k]
  BY PutFits, SetsDiffer
<1>2. Within(f, g)
  BY <1>1 DEF Within
<1> QED
  BY <1>1, <1>2

LEMMA CreatedNames ==
    ASSUME NEW f \in Drives, NEW n \in Ids, f[n] = Gone, NEW x, x \in FolderSet \cup DocSet,
           x.in = Top \/ f[x.in] \in FolderSet,
           NEW g, g = Put(f, n, x)
    PROVE  /\ \A p \in Seq(Names) : Named(g, p) \subseteq Named(f, p) \cup {n}
           /\ \A p \in Seq(Names) : x.in \in Named(f, p) => n \in Named(g, Append(p, x.name))
<1>1. Within(f, g) /\ g[n] = x /\ \A k \in Ids : k # n => g[k] = f[k]
  BY CreatedFits
<1>2. ASSUME NEW p \in Seq(Names), NEW k \in Named(g, p), k # n PROVE k \in Named(f, p)
  <2>1. k = Top \/ (k \in Ids /\ g[k] # Gone)
    BY NamedAre, NamedRoot
  <2>2. k = Top \/ f[k] # Gone
    BY <1>1, <1>2, <2>1
  <2> QED
    BY <1>1, <2>2, OldNames
<1>3. ASSUME NEW p \in Seq(Names), x.in \in Named(f, p) PROVE n \in Named(g, Append(p, x.name))
  <2>1. x.name \in Names /\ g[n] # Gone
    BY <1>1, SetsDiffer
  <2>2. x.in \in Named(g, p)
    BY <1>1, <1>3, WithinNames
  <2> QED
    BY <1>1, <2>1, <2>2, NamedIn
<1> QED
  BY <1>2, <1>3

\* Deleted with what is below it.
Cut(f, i) == [k \in Ids |-> IF k \in Under(f, i) THEN Gone ELSE f[k]]

LEMMA Deleted ==
    ASSUME NEW f \in Drives, NEW i \in Ids, NEW g, g = Cut(f, i)
    PROVE  g \in Drives /\ Within(g, f) /\ g[i] = Gone
<1>1. /\ g \in [Ids -> {Gone} \cup FolderSet \cup DocSet]
      /\ \A k \in Ids : g[k] # Gone => k \notin Under(f, i) /\ g[k] = f[k]
      /\ \A k \in Ids : k \notin Under(f, i) => g[k] = f[k]
  BY DEF Drives, Cut
<1>2. i \in Nodes
  BY DEF Nodes
<1>3. ASSUME NEW k \in Ids, g[k] # Gone PROVE g[k].in = Top \/ g[g[k].in] \in FolderSet
  <2>1. /\ g[k] = f[k] /\ f[k].in \in Nodes /\ f[k].in \notin Under(f, i)
        /\ f[k].in = Top \/ f[f[k].in] \in FolderSet
    BY <1>1, <1>2, <1>3, DriveIs, UnderIs
  <2> QED
    BY <1>1, <2>1 DEF Nodes
<1>4. g \in Drives
  BY <1>1, <1>3 DEF Drives
<1>5. Within(g, f)
  BY <1>1 DEF Within
<1>6. g[i] = Gone
  BY <1>1, <1>2, UnderIs
<1> QED
  BY <1>4, <1>5, <1>6

-----------------------------------------------------------------------------
(***************************************************************************)
(* A call goes on, and ends.                                               *)
(***************************************************************************)
LEMMA ParentIs == \A p \in Seq(Names) : Parent(p) \in Seq(Names)
BY PathCases, EmptySeq DEF Parent, Root

LEMMA IdleIs ==
    /\ Idle \in Calls /\ \A f : Fine(Idle, f)
    /\ Idle.stage = "idle" /\ Idle.was = [i \in Ids |-> Gone]
<1>1. [i \in Ids |-> Gone] \in Drives
  BY DEF Drives
<1>2. Idle \in Calls
  BY <1>1, EmptySeq DEF Idle, Calls, Nodes, Stages, Thens, Root
<1> QED
  BY <1>2 DEF Idle, Fine, Fits, Clear, Does, Use, Seeking

\* r is the same call as e, in the same circumstances.
Continues(e, r) ==
    /\ r \in Calls
    /\ r.op = e.op /\ r.at = e.at /\ r.to = e.to /\ r.body = e.body
    /\ r.was = e.was /\ r.quiet = e.quiet /\ r.sure = e.sure

LEMMA KeptOn ==
    ASSUME NEW f, NEW e \in Calls, NEW r, Continues(e, r), Kept(e, f),
           Use(r) \in {"source", "parents"} \/ (r.stage = "find" /\ r.making) => f = e.was,
           r.stage \in {"walk", "make"} => Named(e.was, Target(e)) = {}
    PROVE  Kept(r, f)
BY DEF Continues, Kept, Grown, Shrunk, Target

LEMMA EndFine ==
    ASSUME NEW e \in Calls, Fits(e), NEW ok \in BOOLEAN, NEW g,
           Alone(e) => Touches(e, g) /\ (ok => Well(e, g)),
           NEW r, r = Ended(e, ok)
    PROVE  r \in Calls /\ Fine(r, g) /\ r.quiet = e.quiet /\ r.stage = "done"
<1>1. /\ r \in Calls /\ r.stage = "done" /\ r.ok = ok /\ r.quiet = e.quiet /\ r.sure = e.sure
      /\ e.quiet /\ e.sure => /\ r.op = e.op /\ r.at = e.at /\ r.to = e.to
                              /\ r.body = e.body /\ r.was = e.was
      /\ ~(e.quiet /\ e.sure) => r.op = "none"
  <2> DEFINE answered == [Idle EXCEPT !.stage = "done", !.ok = ok, !.quiet = e.quiet, !.sure = e.sure]
  <2>1. /\ answered \in Calls /\ answered.stage = "done" /\ answered.ok = ok
        /\ answered.quiet = e.quiet /\ answered.sure = e.sure /\ answered.op = "none"
    <3>1. Idle.op = "none"
      BY DEF Idle
    <3>2. "done" \in Stages /\ e.quiet \in BOOLEAN /\ e.sure \in BOOLEAN
      BY DEF Calls, Stages
    <3>3. Idle \in Calls
      BY IdleIs
    <3> QED
      BY <3>1, <3>2, <3>3 DEF Calls
  <2>2. CASE e.quiet /\ e.sure
    <3>1. r = [answered EXCEPT !.op = e.op, !.at = e.at, !.to = e.to, !.body = e.body, !.was = e.was]
      BY <2>2 DEF Ended
    <3> HIDE DEF answered
    <3> QED
      BY <2>1, <2>2, <3>1 DEF Calls
  <2>3. CASE ~(e.quiet /\ e.sure)
    <3>1. r = answered
      BY <2>3 DEF Ended
    <3> HIDE DEF answered
    <3> QED
      BY <2>1, <2>3, <3>1
  <2> QED
    BY <2>2, <2>3
<1>2. Fits(r)
  BY <1>1 DEF Fits, Use, Seeking
<1>3. Clear(r, g)
  BY <1>1 DEF Clear
<1>4. ASSUME Alone(r) PROVE Touches(r, g) /\ (r.ok => Well(r, g))
  <2>1. Alone(e)
    BY <1>1, <1>4 DEF Alone
  <2> QED
    BY <1>1, <2>1 DEF Alone, Touches, Well
<1> QED
  BY <1>1, <1>2, <1>3, <1>4 DEF Fine, Does

\* A call that gives up has done no more than it was about to.
LEMMA KeptTouches ==
    ASSUME NEW f \in Drives, NEW e \in Calls, e.op # "none", Kept(e, f) PROVE Touches(e, f)
<1>1. CASE e.op \in {"Stat", "Open", "ReadDir", "Remove"}
  BY <1>1 DEF Kept, Touches
<1>2. CASE e.op = "RemoveAll"
  BY <1>2 DEF Kept, Shrunk, Touches
<1>3. CASE e.op \in {"Mkdir", "Write", "Rename", "Copy"}
  BY <1>3 DEF Kept, Grown, Touches
<1> QED
  BY <1>1, <1>2, <1>3 DEF Calls, Operations

LEMMA StageHasOp ==
    ASSUME NEW e \in Calls, Fits(e), e.stage \notin {"idle", "done"} PROVE e.op # "none"
BY DEF Fits, Use, Calls, Stages, Seeking, Thens

LEMMA FailFine ==
    ASSUME NEW f \in Drives, NEW e \in Calls, Fine(e, f), e.stage \notin {"idle", "done"},
           NEW r, r = Ended(e, FALSE)
    PROVE  r \in Calls /\ Fine(r, f) /\ r.quiet = e.quiet /\ r.stage = "done"
<1>1. Alone(e) => Touches(e, f)
  BY StageHasOp, KeptTouches DEF Fine, Does
<1> QED
  BY <1>1, EndFine DEF Fine

\* A lookup starts at the root.
LEMMA SeekFine ==
    ASSUME NEW e \in Calls, NEW path \in Seq(Names), NEW making \in BOOLEAN, NEW then \in Thens,
           NEW r, r = Seek(e, path, making, then)
    PROVE  /\ Continues(e, r)
           /\ \A f : Clear(r, f) /\ r.node \in Named(f, SubSeq(r.goal, 1, r.depth))
           /\ r.depth <= Len(r.goal)
<1>1. /\ Continues(e, r) /\ r.stage = "find" /\ r.goal = path /\ r.node = Top /\ r.depth = 0
  <2>1. Top \in Nodes /\ "find" \in Stages /\ 0 \in Nat
    BY DEF Nodes, Stages
  <2>2. r \in Calls
    BY <2>1 DEF Seek, Calls
  <2>3. /\ r.op = e.op /\ r.at = e.at /\ r.to = e.to /\ r.body = e.body
        /\ r.was = e.was /\ r.quiet = e.quiet /\ r.sure = e.sure
        /\ r.stage = "find" /\ r.goal = path /\ r.node = Top /\ r.depth = 0
    BY DEF Seek, Calls
  <2> QED
    BY <2>2, <2>3 DEF Continues
<1>2. SubSeq(path, 1, 0) = Root /\ 0 <= Len(path)
  BY PrefixIs, LenProperties
<1> QED
  BY <1>1, <1>2, NamedRoot DEF Clear

-----------------------------------------------------------------------------
(***************************************************************************)
(* What a call goes on with, and that it is fine.                          *)
(***************************************************************************)

\* The lookup of the folder to write into, for Rename and Copy and for Write.
LEMMA IntoFine ==
    ASSUME NEW f \in Drives, NEW e \in Calls, e.op \in {"Rename", "Copy"},
           NEW then, then = (IF e.op = "Rename" THEN "move" ELSE "copy"),
           Alone(e) => f = e.was /\ e.source \in Named(e.was, e.at),
           NEW r, r = Into(e, e.to, then)
    PROVE  r \in Calls /\ Fine(r, f) /\ r.quiet = e.quiet /\ r.stage # "idle"
<1>1. Target(e) = Parent(e.to) /\ e.to \in Seq(Names) /\ Parent(e.to) \in Seq(Names)
  BY ParentIs DEF Target, Calls
<1>3. CASE Parent(e.to) = Root
  <2>1. r = [e EXCEPT !.parent = Top, !.stage = then]
    BY <1>3 DEF Into
  <2>2. Continues(e, r) /\ r.parent = Top /\ r.stage = then /\ r.source = e.source /\ Use(r) = then
    <3>1. then \in Stages \ Seeking /\ Top \in Nodes
      BY DEF Stages, Seeking, Nodes
    <3>2. Continues(e, r) /\ r.parent = Top /\ r.stage = then /\ r.source = e.source
      BY <2>1, <3>1 DEF Continues, Calls
    <3> QED
      BY <3>1, <3>2 DEF Use
  <2>3. Fits(r) /\ Clear(r, f)
    BY <2>2 DEF Fits, Clear, Continues, Seeking
  <2>4. ASSUME Alone(r) PROVE Kept(r, f) /\ Placed(r, f)
    <3>1. f = e.was /\ e.source \in Named(e.was, e.at) /\ r.was = f
      BY <2>2, <2>4 DEF Alone, Continues
    <3>2. Grown(r, f)
      BY <2>2, <3>1 DEF Grown, Seeking
    <3>3. Kept(r, f)
      BY <2>2, <3>2 DEF Kept, Continues
    <3>4. Placed(r, f)
      BY <1>3, <2>2, <3>1, NamedRoot DEF Placed, Continues, Seeking
    <3> QED
      BY <3>3, <3>4
  <2> QED
    BY <2>2, <2>3, <2>4 DEF Fine, Does, Continues
<1>4. CASE Parent(e.to) # Root
  <2>1. r = Seek(e, Parent(e.to), TRUE, "enter")
    BY <1>4 DEF Into
  <2>2. /\ Continues(e, r) /\ r.quiet = e.quiet /\ r.stage = "find" /\ r.then = "enter"
        /\ r.goal = Parent(e.to) /\ r.making = TRUE /\ r.source = e.source /\ Use(r) = "enter" /\ r.node = Top
        /\ Clear(r, f) /\ r.node \in Named(f, SubSeq(r.goal, 1, r.depth)) /\ r.depth <= Len(r.goal)
    <3>1. Continues(e, r) /\ r.depth <= Len(r.goal)
          /\ Clear(r, f) /\ r.node \in Named(f, SubSeq(r.goal, 1, r.depth))
      BY <1>1, <2>1, SeekFine DEF Thens
    <3> QED
      BY <2>1, <3>1 DEF Seek, Continues, Calls, Use, Seeking
  <2>3. Fits(r)
    BY <1>1, <2>2 DEF Fits, Continues, Seeking, Target
  <2>4. ASSUME Alone(r) PROVE Kept(r, f) /\ Placed(r, f)
    <3>1. f = e.was /\ e.source \in Named(e.was, e.at) /\ r.was = f
      BY <2>2, <2>4 DEF Alone, Continues
    <3>2. Grown(r, f)
      BY <2>2, <3>1 DEF Grown, Seeking
    <3>3. Kept(r, f)
      BY <2>2, <3>2 DEF Kept, Continues
    <3>4. Placed(r, f)
      BY <2>2, <3>1 DEF Placed, Continues, Seeking
    <3> QED
      BY <3>3, <3>4
  <2> QED
    BY <2>2, <2>3, <2>4 DEF Fine, Does, Continues
<1> QED
  BY <1>3, <1>4

\* Write looks for the file in the folder it has found or created.
LEMMA SaveFine ==
    ASSUME NEW f \in Drives, NEW e \in Calls, e.op = "Write", e.body \in Contents,
           Alone(e) => /\ Grown(e, f) /\ e.stage \notin {"source", "parents"}
                       /\ e.parent \in Named(f, Parent(e.at)),
           NEW r, r = Seek(e, e.at, FALSE, "save")
    PROVE  r \in Calls /\ Fine(r, f) /\ r.quiet = e.quiet /\ r.stage # "idle"
<1>1. /\ Continues(e, r) /\ r.quiet = e.quiet /\ r.stage = "find" /\ r.then = "save"
      /\ r.goal = e.at /\ r.making = FALSE /\ r.parent = e.parent /\ Use(r) = "save" /\ r.node = Top
      /\ Clear(r, f) /\ r.node \in Named(f, SubSeq(r.goal, 1, r.depth)) /\ r.depth <= Len(r.goal)
  <2>1. Continues(e, r) /\ r.depth <= Len(r.goal)
        /\ Clear(r, f) /\ r.node \in Named(f, SubSeq(r.goal, 1, r.depth))
    BY SeekFine DEF Thens, Calls
  <2> QED
    BY <2>1 DEF Seek, Continues, Calls, Use, Seeking
<1>2. Fits(r)
  BY <1>1 DEF Fits, Continues, Seeking
<1>3. ASSUME Alone(r) PROVE Kept(r, f) /\ Placed(r, f)
  <2>1. Alone(e)
    BY <1>1, <1>3 DEF Alone, Continues
  <2>2. Kept(r, f)
    <3>1. Kept(e, f)
      BY <2>1 DEF Kept
    <3> QED
      BY <1>1, <2>1, <3>1, KeptOn
  <2>3. Placed(r, f)
    BY <1>1, <2>1 DEF Placed, Continues, Seeking
  <2> QED
    BY <2>2, <2>3
<1> QED
  BY <1>1, <1>2, <1>3 DEF Fine, Does, Continues

\* A folder that was found or created where a call looked for its target.
LEMMA MadeWell ==
    ASSUME NEW f \in Drives, NEW e \in Calls, e.op = "Mkdir", Alone(e), Kept(e, f),
           e.node \in Named(f, e.at)
    PROVE  Touches(e, f) /\ Well(e, f)
<1>1. Grown(e, f)
  BY DEF Kept
<1>2. Within(e.was, f)
  BY <1>1, SetsDiffer DEF Grown, Within
<1>3. e.was \in Drives /\ e.at \in Seq(Names)
  BY DEF Calls
<1>4. ASSUME NEW i \in Named(f, e.at) PROVE i \in FoldersOf(f) \/ i \in Named(e.was, e.at)
  <2>1. CASE i = Top \/ e.was[i] # Gone
    BY <1>2, <1>3, <2>1, OldNames, Zenon
  <2>2. CASE i # Top /\ e.was[i] = Gone
    <3>1. e.at # Root
      BY <2>2, NamedRoot
    <3>2. i \in Ids /\ f[i] # Gone
      BY <1>3, <3>1, NamedAre
    <3> QED
      BY <1>1, <2>2, <3>2 DEF Grown, FoldersOf
  <2> QED
    BY <2>1, <2>2
<1>5. Touches(e, f)
  BY KeptTouches
<1> QED
  BY <1>4, <1>5 DEF Well

\* The lookup is over.
LEMMA FoundFine ==
    ASSUME NEW f \in Drives, NEW e \in Calls, Fine(e, f), e.stage \in {"find", "walk"},
           e.depth = Len(e.goal), NEW r, r = Found(e)
    PROVE  r \in Calls /\ Fine(r, f) /\ r.quiet = e.quiet /\ r.stage # "idle"
<1>1. /\ Fits(e) /\ Use(e) = e.then /\ e.then \in Thens /\ e.then # "none"
      /\ e.goal \in Seq(Names) /\ e.at \in Seq(Names) /\ e.to \in Seq(Names)
      /\ e.op = "Write" => e.body \in Contents
      /\ e.goal = Root => e.node = Top
  <2>1. Len(Root) = 0
    BY DEF Root
  <2> QED
    BY <2>1 DEF Fine, Fits, Use, Seeking, Calls
<1>2. ASSUME Alone(e) PROVE Kept(e, f) /\ Placed(e, f) /\ e.node \in Named(f, e.goal)
  <2>1. Kept(e, f) /\ Placed(e, f)
    BY <1>2 DEF Fine, Does
  <2>2. SubSeq(e.goal, 1, e.depth) = e.goal
    BY <1>1, PrefixIs, LenProperties
  <2> QED
    BY <2>1, <2>2 DEF Placed, Seeking
<1>3. CASE e.then = "made"
  <2>1. r = Ended(e, TRUE) /\ e.op = "Mkdir" /\ e.goal = e.at
    BY <1>1, <1>3 DEF Found, Fits
  <2> QED
    BY <1>1, <1>2, <2>1, MadeWell, EndFine
<1>4. CASE e.then = "source"
  <2> DEFINE d == [e EXCEPT !.source = e.node]
  <2>1. r = Into(d, e.to, "copy") /\ e.op = "Copy" /\ e.goal = e.at
    BY <1>1, <1>4 DEF Found, Fits
  <2>2. /\ d \in Calls /\ d.op = "Copy" /\ d.to = e.to /\ d.at = e.at /\ d.source = e.node
        /\ d.quiet = e.quiet /\ d.sure = e.sure /\ d.was = e.was
    BY <2>1 DEF Calls
  <2>3. ASSUME Alone(d) PROVE f = d.was /\ d.source \in Named(d.was, d.at)
    <3>1. Alone(e)
      BY <2>2, <2>3 DEF Alone
    <3>2. f = e.was
      BY <1>1, <1>2, <1>4, <2>1, <3>1 DEF Kept, Grown
    <3> QED
      BY <1>2, <2>1, <2>2, <3>1, <3>2
  <2> HIDE DEF d
  <2> QED
    BY <2>1, <2>2, <2>3, IntoFine
<1>5. CASE e.then = "enter" /\ e.op = "Write"
  <2> DEFINE d == [e EXCEPT !.parent = e.node]
  <2>1. r = Seek(d, e.at, FALSE, "save")
    BY <1>5 DEF Found
  <2>2. /\ Continues(e, d) /\ d.parent = e.node /\ d.stage = e.stage /\ d.then = e.then
        /\ d.making = e.making
    BY DEF Continues, Calls
  <2>3. ASSUME Alone(d)
        PROVE  /\ Grown(d, f) /\ d.stage \notin {"source", "parents"}
               /\ d.parent \in Named(f, Parent(d.at))
    <3>1. Alone(e)
      BY <2>2, <2>3 DEF Alone, Continues
    <3>2. e.goal = Parent(e.at)
      BY <1>1, <1>5 DEF Fits, Target
    <3>3. Grown(e, f)
      BY <1>2, <1>5, <3>1 DEF Kept
    <3>4. Grown(d, f)
      BY <2>2, <3>3 DEF Grown, Continues, Target, Use
    <3> QED
      BY <1>2, <2>2, <3>1, <3>2, <3>4 DEF Continues
  <2> HIDE DEF d
  <2> QED
    BY <1>1, <1>5, <2>1, <2>2, <2>3, SaveFine DEF Continues
<1>6. CASE e.then = "enter" /\ e.op \in {"Rename", "Copy"}
  <2> DEFINE stage == IF e.op = "Rename" THEN "move" ELSE "copy"
  <2>1. r = [e EXCEPT !.parent = e.node, !.stage = stage]
    BY <1>6 DEF Found
  <2>2. Continues(e, r) /\ r.parent = e.node /\ r.stage = stage /\ r.source = e.source /\ Use(r) = stage
    BY <2>1 DEF Continues, Calls, Stages, Use, Seeking
  <2>3. Fits(r) /\ Clear(r, f)
    BY <1>6, <2>2 DEF Fits, Clear, Continues, Seeking
  <2>4. ASSUME Alone(r) PROVE Kept(r, f) /\ Placed(r, f)
    <3>1. Alone(e)
      BY <2>2, <2>4 DEF Alone, Continues
    <3>2. e.goal = Parent(e.to)
      BY <1>1, <1>6 DEF Fits, Target
    <3>3. Kept(r, f)
      BY <1>2, <2>2, <3>1, KeptOn
    <3>4. e.source \in Named(e.was, e.at)
      BY <1>1, <1>2, <1>6, <3>1 DEF Placed
    <3>5. Placed(r, f)
      BY <1>2, <1>6, <2>2, <3>1, <3>2, <3>4 DEF Placed, Continues, Seeking
    <3> QED
      BY <3>3, <3>5
  <2> QED
    BY <2>2, <2>3, <2>4 DEF Fine, Does, Continues
<1>7. CASE e.then \in {"get", "download", "list", "delete", "parents", "save"}
  <2>1. r = [e EXCEPT !.stage = e.then]
    BY <1>7 DEF Found
  <2>2. /\ Continues(e, r) /\ r.stage = e.then /\ r.goal = e.goal /\ r.node = e.node
        /\ r.parent = e.parent /\ Use(r) = e.then /\ Use(r) = Use(e)
    <3>1. e.then \in Stages /\ e.then \notin Seeking
      BY <1>7 DEF Stages, Seeking
    <3>2. Continues(e, r) /\ r.stage = e.then /\ r.goal = e.goal /\ r.node = e.node /\ r.parent = e.parent
      BY <2>1, <3>1 DEF Continues, Calls
    <3> QED
      BY <1>1, <3>1, <3>2 DEF Use
  <2>3. Fits(r) /\ Clear(r, f)
    BY <1>1, <1>7, <2>2 DEF Fits, Clear, Continues, Seeking, Target
  <2>4. ASSUME Alone(r) PROVE Kept(r, f) /\ Placed(r, f)
    <3>1. Alone(e)
      BY <2>2, <2>4 DEF Alone, Continues
    <3>2. e.then = "parents" => f = e.was
      BY <1>1, <1>2, <3>1 DEF Kept, Grown, Fits
    <3>3. Kept(r, f)
      BY <1>2, <1>7, <2>2, <3>1, <3>2, KeptOn
    <3>4. Placed(r, f)
      BY <1>1, <1>2, <1>7, <2>2, <3>1 DEF Placed, Continues, Seeking, Fits
    <3> QED
      BY <3>3, <3>4
  <2> QED
    BY <1>7, <2>2, <2>3, <2>4 DEF Fine, Does, Continues
<1> QED
  BY <1>1, <1>3, <1>4, <1>5, <1>6, <1>7 DEF Fits, Thens

-----------------------------------------------------------------------------
(***************************************************************************)
(* Where a lookup ends without having found what it looks for.             *)
(***************************************************************************)

\* What has a path is in folders that have one.
LEMMA NamedPrefix ==
    ASSUME NEW f, NEW p \in Seq(Names), NEW n \in Nat, n <= Len(p), Named(f, p) # {}
    PROVE  Named(f, SubSeq(p, 1, n)) # {}
<1> DEFINE q == SubSeq(p, 1, n)
<1>1. Len(p) \in Nat
  BY LenProperties
<1>2. Len(q) = n /\ \A k \in 1..n : q[k] = p[k]
  BY <1>1, SubSeqProperties
<1> HIDE DEF q
<1>3. PICK t : t \in Trails(f, p)
  BY DEF Named
<1>4. /\ t \in [0..Len(p) -> Nodes] /\ t[0] = Top
      /\ \A k \in 1..Len(p) :
            t[k] \in Ids /\ f[t[k]] # Gone /\ f[t[k]].name = p[k] /\ f[t[k]].in = t[k - 1]
  BY <1>3 DEF Trails, Nodes
<1> DEFINE u == [k \in 0..n |-> t[k]]
<1>5. u \in [0..n -> Nodes] /\ u[0] = Top
  BY <1>1, <1>4
<1>6. ASSUME NEW k \in 1..n
      PROVE  u[k] \in Ids /\ f[u[k]] # Gone /\ f[u[k]].name = q[k] /\ f[u[k]].in = u[k - 1]
  <2>1. k \in 1..Len(p) /\ k \in 0..n /\ k - 1 \in 0..n
    BY <1>1
  <2> QED
    BY <1>2, <1>4, <2>1
<1>7. u \in Trails(f, q)
  <2> HIDE DEF u
  <2> QED
    BY <1>2, <1>5, <1>6 DEF Trails, Nodes
<1> QED
  BY <1>7 DEF Named, q

\* If nothing is called so in the folder, nothing has the path.
LEMMA Absent ==
    ASSUME NEW f \in Drives, Unambiguous(f), NEW p \in Seq(Names), NEW n \in Nat, n < Len(p),
           NEW i \in Named(f, SubSeq(p, 1, n)),
           \A k \in Ids : ~(f[k] # Gone /\ f[k].in = i /\ f[k].name = p[n + 1])
    PROVE  Named(f, p) = {}
<1> SUFFICES ASSUME Named(f, p) # {} PROVE FALSE
  OBVIOUS
<1> DEFINE q == SubSeq(p, 1, n)
<1>1. q \in Seq(Names) /\ p[n + 1] \in Names /\ SubSeq(p, 1, n + 1) = Append(q, p[n + 1])
  BY PrefixIs
<1>2. n + 1 <= Len(p) /\ n + 1 \in Nat
  BY LenProperties
<1>3. Named(f, SubSeq(p, 1, n + 1)) # {}
  BY <1>2, NamedPrefix
<1> HIDE DEF q
<1>4. PICK k : k \in Named(f, Append(q, p[n + 1]))
  BY <1>1, <1>3
<1>5. k \in Ids /\ f[k] # Gone /\ f[k].name = p[n + 1] /\ f[k].in \in Named(f, q)
  BY <1>1, <1>4, NamedIn, Zenon
<1>6. f[k].in = i
  BY <1>1, <1>5, OneFile DEF q
<1> QED
  BY <1>5, <1>6

\* Where folders had to be created for a file to be written, the file is not there yet.
LEMMA WriteAbsent ==
    ASSUME NEW f \in Drives, NEW e \in Calls, e.op = "Write", e.at # Root, Grown(e, f),
           Named(e.was, Parent(e.at)) = {}
    PROVE  Named(f, e.at) = {}
<1> SUFFICES ASSUME NEW i \in Named(f, e.at) PROVE FALSE
  OBVIOUS
<1>1. e.at \in Seq(Names) /\ e.was \in Drives /\ Parent(e.at) = Front(e.at) /\ Target(e) = Front(e.at)
  BY DEF Calls, Parent, Target
<1>2. Front(e.at) \in Seq(Names) /\ Len(e.at) = Len(Front(e.at)) + 1
  BY <1>1, PathCases
<1>3. i \in Ids /\ f[i] # Gone
  BY <1>1, NamedAre
<1>4. CASE e.was[i] # Gone
  <2>1. Within(e.was, f)
    BY SetsDiffer DEF Grown, Within
  <2>2. i \in Named(e.was, e.at)
    BY <1>1, <1>4, <2>1, OldNames
  <2>3. e.was[i].in \in Named(e.was, Front(e.at))
    BY <1>1, <2>2, NamedAre
  <2> QED
    BY <1>1, <2>3
<1>5. CASE e.was[i] = Gone
  <2>1. PICK k \in 1..Len(Front(e.at)) : i \in Named(f, SubSeq(Front(e.at), 1, k))
    BY <1>1, <1>3, <1>5 DEF Grown
  <2>2. Len(Front(e.at)) \in Nat /\ k \in Nat /\ k <= Len(Front(e.at))
    BY <1>2, LenProperties
  <2>3. SubSeq(Front(e.at), 1, k) \in Seq(Names) /\ Len(SubSeq(Front(e.at), 1, k)) = k
    BY <1>2, <2>2, PrefixIs
  <2>4. e.at = SubSeq(Front(e.at), 1, k)
    BY <1>1, <2>1, <2>3, OnePath
  <2> QED
    BY <1>2, <2>2, <2>3, <2>4
<1> QED
  BY <1>4, <1>5

LEMMA NotFoundFine ==
    ASSUME NEW f \in Drives, NEW e \in Calls, Fits(e), e.stage = "find",
           Alone(e) => /\ Kept(e, f) /\ Placed(e, f)
                       /\ e.making \/ e.then = "save" => Named(f, e.goal) = {},
           NEW r, r = NotFound(e)
    PROVE  r \in Calls /\ Fine(r, f) /\ r.quiet = e.quiet /\ r.stage # "idle"
<1>1. /\ Use(e) = e.then /\ e.then \in Thens /\ e.then # "none" /\ e.goal \in Seq(Names)
      /\ e.making <=> e.then \in {"made", "enter"}
      /\ e.at \in Seq(Names) /\ e.was \in Drives
  BY DEF Fits, Use, Seeking, Calls
<1>2. CASE e.making
  <2>1. r = [e EXCEPT !.stage = "walk", !.node = Top, !.depth = 0]
    BY <1>2 DEF NotFound
  <2>2. /\ Continues(e, r) /\ r.stage = "walk" /\ r.goal = e.goal /\ r.then = e.then
        /\ r.source = e.source /\ r.parent = e.parent /\ r.node = Top /\ r.depth = 0
    <3>1. "walk" \in Stages /\ Top \in Nodes /\ 0 \in Nat
      BY DEF Stages, Nodes
    <3>2. r \in Calls
      BY <2>1, <3>1 DEF Calls
    <3>3. /\ r.stage = "walk" /\ r.goal = e.goal /\ r.then = e.then
          /\ r.source = e.source /\ r.parent = e.parent /\ r.node = Top /\ r.depth = 0
      BY <2>1 DEF Calls
    <3>4. /\ r.op = e.op /\ r.at = e.at /\ r.to = e.to /\ r.body = e.body
          /\ r.was = e.was /\ r.quiet = e.quiet /\ r.sure = e.sure
      BY <2>1 DEF Calls
    <3> QED
      BY <3>2, <3>3, <3>4 DEF Continues
  <2>3. r.making /\ Use(r) = e.then
    BY <1>2, <2>1, <2>2 DEF Calls, Use, Seeking
  <2>4. 0 <= Len(e.goal) /\ SubSeq(e.goal, 1, 0) = Root
    BY <1>1, PrefixIs, LenProperties
  <2>5. Fits(r) /\ Clear(r, f)
    BY <1>1, <1>2, <2>2, <2>3, <2>4 DEF Fits, Clear, Continues, Seeking, Target
  <2>6. ASSUME Alone(r) PROVE Kept(r, f) /\ Placed(r, f)
    <3>1. Alone(e)
      BY <2>2, <2>6 DEF Alone, Continues
    <3>2. Kept(e, f) /\ Placed(e, f) /\ Named(f, e.goal) = {}
      BY <1>2, <3>1
    <3>3. e.op \in {"Mkdir", "Write", "Rename", "Copy"} /\ e.goal = Target(e)
      BY <1>1, <1>2 DEF Fits, Target
    <3>4. f = e.was
      BY <1>2, <3>2, <3>3 DEF Kept, Grown
    <3>5. Named(e.was, Target(e)) = {}
      BY <3>2, <3>3, <3>4
    <3>6. Kept(r, f)
      <4>1. Use(r) \notin {"source", "parents"} /\ r.stage = "walk"
        BY <1>1, <1>2, <2>2, <2>3
      <4> QED
        BY <2>2, <3>2, <3>5, <4>1, KeptOn
    <3>7. Placed(r, f)
      <4>1. r.node \in Named(f, SubSeq(r.goal, 1, r.depth))
        BY <2>2, <2>4, NamedRoot
      <4>2. Use(r) = "enter" /\ r.op \in {"Rename", "Copy"} => r.source \in Named(r.was, r.at)
        BY <1>1, <2>2, <2>3, <3>2 DEF Placed, Continues
      <4>3. Use(r) \in {"made", "enter"} /\ r.stage = "walk"
        BY <1>1, <1>2, <2>2, <2>3
      <4> QED
        BY <4>1, <4>2, <4>3 DEF Placed
    <3> QED
      BY <3>6, <3>7
  <2> QED
    BY <2>2, <2>5, <2>6 DEF Fine, Does, Continues
<1>3. CASE ~e.making /\ e.then = "save"
  <2>1. r = [e EXCEPT !.stage = "save", !.node = Top]
    BY <1>3 DEF NotFound
  <2>2. /\ Continues(e, r) /\ r.stage = "save" /\ r.goal = e.goal /\ r.parent = e.parent /\ r.node = Top
        /\ Use(r) = "save"
    BY <2>1 DEF Continues, Calls, Stages, Nodes, Use, Seeking
  <2>3. Fits(r) /\ Clear(r, f)
    BY <1>1, <1>3, <2>2 DEF Fits, Clear, Continues, Seeking
  <2>4. ASSUME Alone(r) PROVE Kept(r, f) /\ Placed(r, f)
    <3>1. Alone(e)
      BY <2>2, <2>4 DEF Alone, Continues
    <3>2. Kept(e, f) /\ Placed(e, f) /\ Named(f, e.goal) = {}
      BY <1>3, <3>1
    <3>3. e.goal = e.at
      BY <1>1, <1>3 DEF Fits
    <3>4. Kept(r, f)
      BY <2>2, <3>2, KeptOn
    <3>5. Placed(r, f)
      BY <1>1, <1>3, <2>2, <3>2, <3>3 DEF Placed, Continues, Seeking
    <3> QED
      BY <3>4, <3>5
  <2> QED
    BY <2>2, <2>3, <2>4 DEF Fine, Does, Continues
<1>4. CASE ~e.making /\ e.then # "save"
  <2>1. r = Ended(e, FALSE)
    BY <1>4 DEF NotFound
  <2>2. Alone(e) => Touches(e, f)
    BY StageHasOp, KeptTouches
  <2>3. FALSE \in BOOLEAN
    OBVIOUS
  <2> QED
    BY <2>1, <2>2, EndFine
<1> QED
  BY <1>2, <1>3, <1>4

-----------------------------------------------------------------------------
(***************************************************************************)
(* A call that goes on as it was.                                          *)
(***************************************************************************)
LEMMA KeptSame ==
    ASSUME NEW f, NEW e \in Calls, NEW r, Continues(e, r), Use(r) = Use(e), r.stage = e.stage,
           r.making = e.making, Kept(e, f)
    PROVE  Kept(r, f)
BY DEF Continues, Kept, Grown, Shrunk, Target

\* One more name is found.
LEMMA StepFine ==
    ASSUME NEW f \in Drives, NEW e \in Calls, Fine(e, f), e.stage \in {"find", "walk"},
           e.depth < Len(e.goal), NEW i \in Ids, f[i] # Gone, f[i].in = e.node,
           f[i].name = e.goal[e.depth + 1],
           NEW r, r = [e EXCEPT !.node = i, !.depth = @ + 1]
    PROVE  r \in Calls /\ Fine(r, f) /\ r.quiet = e.quiet /\ r.stage # "idle"
<1>1. /\ Fits(e) /\ e.goal \in Seq(Names) /\ e.depth \in Nat /\ Len(e.goal) \in Nat
      /\ e.depth + 1 \in Nat /\ e.depth + 1 # 0 /\ e.depth + 1 <= Len(e.goal)
      /\ e.depth <= Len(e.goal)
  BY LenProperties DEF Fine, Calls
<1>2. /\ Continues(e, r) /\ r.stage = e.stage /\ r.goal = e.goal /\ r.then = e.then
      /\ r.making = e.making /\ r.source = e.source /\ r.parent = e.parent
      /\ r.node = i /\ r.depth = e.depth + 1
  <2>1. i \in Nodes
    BY DEF Nodes
  <2> QED
    BY <1>1, <2>1 DEF Continues, Calls
<1>3. Use(r) = Use(e)
  BY <1>2 DEF Use
<1>4. Fits(r) /\ Clear(r, f)
  BY <1>1, <1>2, <1>3 DEF Fits, Clear, Continues, Seeking, Target
<1>5. ASSUME Alone(r) PROVE Kept(r, f) /\ Placed(r, f)
  <2>1. Kept(e, f) /\ Placed(e, f)
    BY <1>2, <1>5 DEF Fine, Does, Alone, Continues
  <2>2. Kept(r, f)
    BY <1>2, <1>3, <2>1, KeptSame
  <2> DEFINE q == SubSeq(e.goal, 1, e.depth)
  <2>3. /\ q \in Seq(Names) /\ e.goal[e.depth + 1] \in Names
        /\ SubSeq(e.goal, 1, e.depth + 1) = Append(q, e.goal[e.depth + 1])
    BY <1>1, PrefixIs, Zenon
  <2>4. e.node \in Named(f, q)
    BY <2>1 DEF Placed, Seeking
  <2> HIDE DEF q
  <2>5. i \in Named(f, Append(q, e.goal[e.depth + 1]))
    BY <2>3, <2>4, NamedIn
  <2>6. r.node \in Named(f, SubSeq(r.goal, 1, r.depth))
    <3>1. SubSeq(r.goal, 1, r.depth) = Append(q, e.goal[e.depth + 1])
      BY <1>2, <2>3
    <3> QED
      BY <1>2, <2>5, <3>1
  <2>7. Placed(r, f)
    BY <1>2, <1>3, <2>1, <2>6 DEF Placed, Continues, Seeking
  <2> QED
    BY <2>2, <2>7
<1> QED
  BY <1>2, <1>4, <1>5 DEF Fine, Does, Continues

\* No folder of the name is there: one is going to be created.
LEMMA GoMakeFine ==
    ASSUME NEW f \in Drives, NEW e \in Calls, Fine(e, f), e.stage = "walk", e.depth < Len(e.goal),
           \A i \in Ids : f[i] \in FolderSet /\ f[i].in = e.node => f[i].name # e.goal[e.depth + 1],
           NEW r, r = [e EXCEPT !.stage = "make"]
    PROVE  r \in Calls /\ Fine(r, f) /\ r.quiet = e.quiet /\ r.stage # "idle"
<1>1. Fits(e)
  BY DEF Fine
<1>2. /\ Continues(e, r) /\ r.stage = "make" /\ r.goal = e.goal /\ r.then = e.then
      /\ r.making = e.making /\ r.source = e.source /\ r.parent = e.parent
      /\ r.node = e.node /\ r.depth = e.depth
  BY DEF Continues, Calls, Stages
<1>3. Use(r) = Use(e) /\ Use(e) = e.then
  BY <1>2 DEF Use, Seeking
<1>4. Fits(r) /\ Clear(r, f)
  BY <1>1, <1>2, <1>3 DEF Fits, Clear, Continues, Seeking, Target
<1>5. ASSUME Alone(r) PROVE Kept(r, f) /\ Placed(r, f)
  <2>1. Kept(e, f) /\ Placed(e, f)
    BY <1>2, <1>5 DEF Fine, Does, Alone, Continues
  <2>2. e.then \in {"made", "enter"}
    BY <1>1 DEF Fits, Seeking
  <2>3. e.op \in {"Mkdir", "Write", "Rename", "Copy"}
    BY <1>1, <1>3, <2>2 DEF Fits
  <2>4. Named(e.was, Target(e)) = {}
    BY <2>1, <2>3 DEF Kept, Grown
  <2>5. Kept(r, f)
    BY <1>2, <1>3, <2>1, <2>2, <2>4, KeptOn
  <2>6. Placed(r, f)
    BY <1>2, <1>3, <2>1 DEF Placed, Continues, Seeking
  <2> QED
    BY <2>5, <2>6
<1> QED
  BY <1>2, <1>4, <1>5 DEF Fine, Does, Continues

\* The lookup of what a call is about.
Lookup(e, path, then) == Seek(e, path, FALSE, then)

LEMMA LookupFine ==
    ASSUME NEW f \in Drives, NEW e \in Calls, NEW path \in Seq(Names),
           NEW then \in {"get", "download", "list", "delete", "parents", "source"},
           then = "get" => e.op \in {"Stat", "Open"},
           then = "download" => e.op = "Open",
           then = "list" => e.op \in {"ReadDir", "RemoveAll"},
           then = "delete" => e.op \in {"Remove", "RemoveAll"},
           then = "parents" => e.op = "Rename",
           then = "source" => e.op = "Copy",
           \/ path = e.at
           \/ then = "delete" /\ e.op = "RemoveAll" /\ path # Root /\ Front(path) = e.at,
           Alone(e) => Kept(e, f) /\ (then \in {"source", "parents"} => f = e.was),
           NEW r, r = Lookup(e, path, then)
    PROVE  r \in Calls /\ Fine(r, f) /\ r.quiet = e.quiet /\ r.stage # "idle"
<1>1. /\ Continues(e, r) /\ Clear(r, f) /\ r.depth <= Len(r.goal)
      /\ r.node \in Named(f, SubSeq(r.goal, 1, r.depth))
  BY SeekFine DEF Thens, Lookup
<1>2. /\ r.stage = "find" /\ r.then = then /\ r.goal = path /\ r.making = FALSE
      /\ r.node = Top /\ Use(r) = then
  BY <1>1 DEF Lookup, Seek, Calls, Use, Seeking
<1>3. Fits(r)
  BY <1>1, <1>2 DEF Fits, Continues, Seeking
<1>4. ASSUME Alone(r) PROVE Kept(r, f) /\ Placed(r, f)
  <2>1. Kept(e, f) /\ (then \in {"source", "parents"} => f = e.was)
    BY <1>1, <1>4 DEF Alone, Continues
  <2>2. Kept(r, f)
    BY <1>1, <1>2, <2>1, KeptOn
  <2>3. Placed(r, f)
    BY <1>1, <1>2 DEF Placed, Seeking
  <2> QED
    BY <2>2, <2>3
<1> QED
  BY <1>1, <1>2, <1>3, <1>4 DEF Fine, Does, Continues

-----------------------------------------------------------------------------
(***************************************************************************)
(* Steps of calls.                                                         *)
(***************************************************************************)

\* A step of one call leaves the others fine, whatever it makes of the drive.
LEMMA OneCall ==
    ASSUME IInv, NEW c \in Clients, call[c].stage # "idle",
           NEW r, r \in Calls, Fine(r, file'), r.stage = "idle" \/ r.quiet = call[c].quiet,
           call' = [call EXCEPT ![c] = r],
           file' \in Drives, created' \in 0..MaxFiles, \A i \in Ids : i > created' => file'[i] = Gone
    PROVE  IInv'
<1>1. /\ call \in [Clients -> Calls] /\ call' \in [Clients -> Calls] /\ call'[c] = r
      /\ \A d \in Clients : d # c => call'[d] = call[d]
  BY DEF IInv, Typed
<1>2. Typed'
  BY <1>1 DEF Typed
<1>3. Apart'
  BY <1>1 DEF IInv, Apart
<1>4. ASSUME NEW d \in Clients, d # c PROVE Fine(call[d], file')
  <2>1. call[d] \in Calls /\ Fits(call[d])
    BY <1>1 DEF IInv, Fine
  <2>2. CASE call[d].stage = "idle"
    BY <2>1, <2>2, IdleIs DEF Fits
  <2>3. CASE call[d].stage # "idle"
    <3>1. ~call[d].quiet
      BY <1>4, <2>3 DEF IInv, Apart
    <3> QED
      BY <2>1, <3>1 DEF Fine, Clear, Does, Alone
  <2> QED
    BY <2>2, <2>3
<1>5. \A d \in Clients : Fine(call'[d], file')
  BY <1>1, <1>4
<1>6. (\A d \in Clients : Fine(call[d], file))'
  BY <1>5
<1> QED
  BY <1>2, <1>3, <1>6 DEF IInv

\* What a step finds.
LEMMA CallIs ==
    ASSUME IInv, NEW c \in Clients
    PROVE  /\ call[c] \in Calls /\ Fine(call[c], file) /\ Fits(call[c]) /\ file \in Drives
           /\ Alone(call[c]) /\ call[c].stage \notin {"idle", "done"} =>
                 Kept(call[c], file) /\ Placed(call[c], file)
           /\ created \in 0..MaxFiles /\ \A i \in Ids : i > created => file[i] = Gone
           /\ \A r : Set(c, r) => call' = [call EXCEPT ![c] = r]
BY DEF IInv, Typed, Fine, Does, Set

\* A step that leaves the drive alone.
LEMMA NoChange ==
    ASSUME IInv, NEW c \in Clients, call[c].stage # "idle",
           NEW r, r \in Calls, Fine(r, file), r.stage = "idle" \/ r.quiet = call[c].quiet,
           Set(c, r), UNCHANGED <<file, created>>
    PROVE  IInv'
<1>1. file' = file /\ created' = created /\ call' = [call EXCEPT ![c] = r]
  BY DEF Set
<1>2. file' \in Drives /\ created' \in 0..MaxFiles /\ \A i \in Ids : i > created' => file'[i] = Gone
  BY <1>1, CallIs
<1>3. Fine(r, file')
  BY <1>1
<1> QED
  BY <1>1, <1>2, <1>3, OneCall

\* A step that answers and leaves the drive alone.
LEMMA Answers ==
    ASSUME IInv, NEW c \in Clients, call[c].stage \notin {"idle", "done"}, NEW ok, ok \in BOOLEAN,
           Alone(call[c]) /\ ok => Well(call[c], file),
           Done(c, ok), UNCHANGED <<file, created>>
    PROVE  IInv'
<1> DEFINE e == call[c]
<1>1. PICK r : r = Ended(e, ok)
  OBVIOUS
<1>2. e \in Calls /\ Fits(e) /\ (Alone(e) => Touches(e, file) /\ (ok => Well(e, file)))
  BY CallIs, StageHasOp, KeptTouches
<1>3. r \in Calls /\ Fine(r, file) /\ r.quiet = e.quiet
  <2> HIDE DEF e
  <2> QED
    BY <1>1, <1>2, EndFine
<1> QED
  BY <1>1, <1>3, NoChange DEF Done

\* A step that gives up.
LEMMA GivesUp ==
    ASSUME IInv, NEW c \in Clients, call[c].stage \notin {"idle", "done"},
           Done(c, FALSE), UNCHANGED <<file, created>>
    PROVE  IInv'
<1>1. FALSE \in BOOLEAN
  OBVIOUS
<1> QED
  BY <1>1, Answers

LEMMA FailsInv ==
    ASSUME IInv, NEW c \in Clients, call[c].stage \notin {"idle", "done"}, Fails(c)
    PROVE  IInv'
BY GivesUp DEF Fails

\* What a request lists.
LEMMA CalledIs ==
    ASSUME NEW i, NEW name, NEW j \in Called(i, name)
    PROVE  j \in Ids /\ file[j] # Gone /\ file[j].in = i /\ file[j].name = name
BY DEF Called, Children, There

LEMMA FoldersAre ==
    ASSUME file \in Drives
    PROVE  /\ Folders = FoldersOf(file)
           /\ \A i \in Ids : i \in There \ Folders <=> file[i] \in DocSet
           /\ \A i : i \in There <=> i \in Ids /\ file[i] # Gone
           /\ \A i : i \in There \ Folders => i \in Ids
<1>1. \A i \in Ids : file[i].folder <=> file[i] \in FolderSet
  BY DriveIs
<1>2. \A i \in Ids : file[i] \in FolderSet => file[i] # Gone /\ i # Top
  BY SetsDiffer, NodesAre
<1>3. Folders = FoldersOf(file)
  BY <1>1, <1>2 DEF Folders, FoldersOf, There
<1>4. ASSUME NEW i \in Ids PROVE i \in There \ Folders <=> file[i] \in DocSet
  <2>1. i \in Folders <=> file[i] \in FolderSet
    BY <1>3, NodesAre DEF FoldersOf
  <2>2. file[i] \in DocSet <=> file[i] # Gone /\ file[i] \notin FolderSet
    BY DriveIs
  <2> QED
    BY <2>1, <2>2 DEF There
<1> QED
  BY <1>3, <1>4 DEF There

LEMMA FindInv ==
    ASSUME IInv, NEW c \in Clients, Find(c) PROVE IInv'
<1> DEFINE e == call[c]
           named == Called(e.node, e.goal[e.depth + 1])
<1>1. /\ e \in Calls /\ Fine(e, file) /\ Fits(e) /\ file \in Drives /\ e.stage = "find"
      /\ Alone(e) => Kept(e, file) /\ Placed(e, file)
      /\ UNCHANGED <<file, created>>
  BY CallIs DEF Find, At
<1>2. e.stage # "idle"
  BY <1>1
<1>3. CASE e.depth = Len(e.goal) /\ Set(c, Found(e))
  <2>1. Found(e) \in Calls /\ Fine(Found(e), file) /\ Found(e).quiet = e.quiet
    <3> HIDE DEF e
    <3> QED
      BY <1>1, <1>3, FoundFine
  <2> QED
    BY <1>1, <1>2, <1>3, <2>1, NoChange
<1>4. ASSUME e.depth < Len(e.goal), NEW i \in named, Set(c, [e EXCEPT !.node = i, !.depth = @ + 1])
      PROVE  IInv'
  <2> DEFINE r == [e EXCEPT !.node = i, !.depth = @ + 1]
  <2>1. i \in Ids /\ file[i] # Gone /\ file[i].in = e.node /\ file[i].name = e.goal[e.depth + 1]
    BY CalledIs
  <2>2. r \in Calls /\ Fine(r, file) /\ r.quiet = e.quiet
    <3> HIDE DEF e
    <3> QED
      BY <1>1, <1>4, <2>1, StepFine
  <2> HIDE DEF r
  <2> QED
    BY <1>1, <1>2, <1>4, <2>2, NoChange DEF r
<1>5. CASE e.depth < Len(e.goal) /\ named = {} /\ Set(c, NotFound(e))
  <2>1. ASSUME Alone(e), e.making \/ e.then = "save" PROVE Named(file, e.goal) = {}
    <3>1. Kept(e, file) /\ Placed(e, file)
      BY <1>1, <2>1
    <3>2. e.node \in Named(file, SubSeq(e.goal, 1, e.depth)) /\ e.goal \in Seq(Names) /\ e.depth \in Nat
      BY <1>1, <3>1 DEF Placed, Seeking, Calls
    <3>3. \A k \in Ids : ~(file[k] # Gone /\ file[k].in = e.node /\ file[k].name = e.goal[e.depth + 1])
      BY <1>5 DEF Called, Children, There
    <3>4. CASE file = e.was
      <4>1. Unambiguous(file)
        BY <2>1, <3>4 DEF Alone
      <4> HIDE DEF e
      <4> QED
        BY <1>1, <1>5, <3>2, <3>3, <4>1, Absent
    <3>5. CASE file # e.was
      <4>1. e.op \in {"Mkdir", "Write", "Rename", "Copy"}
        BY <1>1, <2>1 DEF Fits, Use, Seeking
      <4>2. Grown(e, file)
        BY <3>1, <4>1 DEF Kept
      <4>3. ~e.making
        BY <1>1, <3>5, <4>2 DEF Grown
      <4>4. e.op = "Write" /\ e.goal = e.at /\ Named(e.was, Parent(e.at)) = {}
        BY <1>1, <2>1, <3>5, <4>2, <4>3 DEF Fits, Grown, Use, Seeking, Target
      <4>5. e.at # Root
        <5>1. Len(Root) = 0
          BY DEF Root
        <5> QED
          BY <1>5, <3>2, <4>4, <5>1
      <4> HIDE DEF e
      <4> QED
        BY <1>1, <4>2, <4>4, <4>5, WriteAbsent
    <3> QED
      BY <3>4, <3>5
  <2>2. NotFound(e) \in Calls /\ Fine(NotFound(e), file) /\ NotFound(e).quiet = e.quiet
    <3> HIDE DEF e
    <3> QED
      BY <1>1, <2>1, NotFoundFine
  <2> QED
    BY <1>1, <1>2, <1>5, <2>2, NoChange
<1>6. CASE e.depth < Len(e.goal) /\ Set(c, NotFound([e EXCEPT !.sure = ~e.quiet, !.was = Idle.was]))
  <2> DEFINE d == [e EXCEPT !.sure = ~e.quiet, !.was = Idle.was]
  <2>1. /\ d \in Calls /\ d.stage = "find" /\ d.quiet = e.quiet /\ ~(d.quiet /\ d.sure)
    BY <1>1, IdleIs DEF Calls
  <2>2. Fits(d)
    BY <1>1 DEF Fits, Calls, Use, Target
  <2>3. ~Alone(d)
    BY <2>1 DEF Alone
  <2>4. NotFound(d) \in Calls /\ Fine(NotFound(d), file) /\ NotFound(d).quiet = d.quiet
    <3> HIDE DEF d
    <3> QED
      BY <1>1, <2>1, <2>2, <2>3, NotFoundFine
  <2> QED
    BY <1>1, <1>2, <1>6, <2>1, <2>4, NoChange
<1>7. \/ e.depth = Len(e.goal) /\ Set(c, Found(e))
      \/ e.depth < Len(e.goal) /\ \E i \in named : Set(c, [e EXCEPT !.node = i, !.depth = @ + 1])
      \/ e.depth < Len(e.goal) /\ named = {} /\ Set(c, NotFound(e))
      \/ e.depth < Len(e.goal) /\ Set(c, NotFound([e EXCEPT !.sure = ~e.quiet, !.was = Idle.was]))
  BY DEF Find
<1> HIDE DEF e, named
<1> QED
  BY <1>3, <1>4, <1>5, <1>6, <1>7

LEMMA WalkInv ==
    ASSUME IInv, NEW c \in Clients, Walk(c) PROVE IInv'
<1> DEFINE e == call[c]
           folders == Called(e.node, e.goal[e.depth + 1]) \cap Folders
<1>1. e \in Calls /\ Fine(e, file) /\ file \in Drives /\ e.stage = "walk"
  BY CallIs DEF Walk, At
<1>2. e.stage \notin {"idle", "done"}
  BY <1>1
<1>3. \/ e.depth = Len(e.goal) /\ Set(c, Found(e)) /\ UNCHANGED <<file, created>>
      \/ /\ e.depth < Len(e.goal) /\ UNCHANGED <<file, created>>
         /\ \/ \E i \in folders : Set(c, [e EXCEPT !.node = i, !.depth = @ + 1])
            \/ folders = {} /\ Set(c, [e EXCEPT !.stage = "make"])
      \/ Fails(c)
  BY DEF Walk
<1>4. CASE e.depth = Len(e.goal) /\ Set(c, Found(e)) /\ UNCHANGED <<file, created>>
  <2>1. Found(e) \in Calls /\ Fine(Found(e), file) /\ Found(e).quiet = e.quiet
    <3> HIDE DEF e
    <3> QED
      BY <1>1, <1>4, FoundFine
  <2> QED
    BY <1>2, <1>4, <2>1, NoChange
<1>5. ASSUME e.depth < Len(e.goal), NEW i \in folders, Set(c, [e EXCEPT !.node = i, !.depth = @ + 1]),
             UNCHANGED <<file, created>>
      PROVE  IInv'
  <2> DEFINE r == [e EXCEPT !.node = i, !.depth = @ + 1]
  <2>1. i \in Ids /\ file[i] # Gone /\ file[i].in = e.node /\ file[i].name = e.goal[e.depth + 1]
    BY CalledIs
  <2>2. r \in Calls /\ Fine(r, file) /\ r.quiet = e.quiet
    <3> HIDE DEF e
    <3> QED
      BY <1>1, <1>5, <2>1, StepFine
  <2> HIDE DEF r
  <2> QED
    BY <1>2, <1>5, <2>2, NoChange DEF r
<1>6. CASE /\ e.depth < Len(e.goal) /\ folders = {} /\ Set(c, [e EXCEPT !.stage = "make"])
           /\ UNCHANGED <<file, created>>
  <2> DEFINE r == [e EXCEPT !.stage = "make"]
  <2>1. ASSUME NEW i \in Ids, file[i] \in FolderSet, file[i].in = e.node
        PROVE  file[i].name # e.goal[e.depth + 1]
    <3>1. i \in Folders /\ i \in Children(e.node)
      BY <1>1, <2>1, FoldersAre, SetsDiffer DEF FoldersOf, Children, There
    <3> QED
      BY <1>6, <3>1 DEF Called
  <2>2. r \in Calls /\ Fine(r, file) /\ r.quiet = e.quiet
    <3> HIDE DEF e
    <3> QED
      BY <1>1, <1>6, <2>1, GoMakeFine
  <2> HIDE DEF r
  <2> QED
    BY <1>2, <1>6, <2>2, NoChange DEF r
<1>7. CASE Fails(c)
  BY <1>2, <1>7, FailsInv
<1> HIDE DEF e, folders
<1> QED
  BY <1>3, <1>4, <1>5, <1>6, <1>7

LEMMA GetInv ==
    ASSUME IInv, NEW c \in Clients, Get(c) PROVE IInv'
<1> DEFINE e == call[c]
           ok == e.node \in There \cup {Top}
<1>1. /\ e \in Calls /\ Fine(e, file) /\ Fits(e) /\ file \in Drives /\ e.stage = "get"
      /\ Alone(e) => Kept(e, file)
  BY CallIs DEF Get, At
<1>2. e.stage \notin {"idle", "done"} /\ e.op \in {"Stat", "Open"} /\ e.at \in Seq(Names)
  BY <1>1 DEF Fits, Use, Seeking, Calls
<1>3. CASE e.op = "Open" /\ Set(c, Seek(e, e.at, FALSE, "download")) /\ UNCHANGED <<file, created>>
  <2>1. PICK r : r = Lookup(e, e.at, "download")
    OBVIOUS
  <2>2. r \in Calls /\ Fine(r, file) /\ r.quiet = e.quiet
    <3> HIDE DEF e
    <3>1. file \in Drives /\ e \in Calls /\ e.at \in Seq(Names) /\ e.op = "Open" /\ (Alone(e) => Kept(e, file))
      BY <1>1, <1>2, <1>3
    <3> QED
      BY <2>1, <3>1, LookupFine
  <2> QED
    BY <1>2, <1>3, <2>1, <2>2, NoChange DEF Lookup
<1>4. CASE Done(c, ok) /\ UNCHANGED <<file, created>>
  <2>1. Well(e, file)
    BY <1>2 DEF Well
  <2>2. ok \in BOOLEAN
    BY DEF ok
  <2> HIDE DEF ok
  <2> QED
    BY <1>2, <1>4, <2>1, <2>2, Answers
<1>5. CASE Fails(c)
  BY <1>2, <1>5, FailsInv
<1> QED
  BY <1>3, <1>4, <1>5 DEF Get

LEMMA DownloadInv ==
    ASSUME IInv, NEW c \in Clients, Download(c) PROVE IInv'
<1> DEFINE e == call[c]
           ok == e.node \in There \cup {Top}
<1>1. e \in Calls /\ Fits(e) /\ e.stage = "download"
  BY CallIs DEF Download, At
<1>2. e.stage \notin {"idle", "done"} /\ e.op = "Open"
  BY <1>1 DEF Fits, Use, Seeking
<1>3. CASE Done(c, ok) /\ UNCHANGED <<file, created>>
  <2>1. Well(e, file)
    BY <1>2 DEF Well
  <2>2. ok \in BOOLEAN
    BY DEF ok
  <2> HIDE DEF ok
  <2> QED
    BY <1>2, <1>3, <2>1, <2>2, Answers
<1>4. CASE Fails(c)
  BY <1>2, <1>4, FailsInv
<1> QED
  BY <1>3, <1>4 DEF Download

LEMMA ListInv ==
    ASSUME IInv, NEW c \in Clients, List(c) PROVE IInv'
<1> DEFINE e == call[c]
           ok == e.node \in There \cup {Top}
           listed == {<<i, file[i].name>> : i \in Children(e.node)}
<1>1. /\ e \in Calls /\ Fine(e, file) /\ Fits(e) /\ file \in Drives /\ e.stage = "list"
      /\ Alone(e) => Kept(e, file)
  BY CallIs DEF List, At
<1>2. e.stage \notin {"idle", "done"} /\ e.op \in {"ReadDir", "RemoveAll"} /\ e.at \in Seq(Names)
  BY <1>1 DEF Fits, Use, Seeking, Calls
<1>3. CASE /\ e.op = "RemoveAll" /\ Set(c, [e EXCEPT !.stage = "each", !.todo = listed])
           /\ UNCHANGED <<file, created>>
  <2>1. listed \in SUBSET (Ids \X Names)
    <3>1. \A i \in Children(e.node) : i \in Ids /\ file[i].name \in Names
      BY <1>1, DriveIs DEF Children, There
    <3> HIDE DEF e
    <3> QED
      BY <3>1
  <2> HIDE DEF listed
  <2>2. PICK r : r = [e EXCEPT !.stage = "each", !.todo = listed]
    OBVIOUS
  <2>3. Continues(e, r) /\ r.stage = "each" /\ Use(r) = "each"
    BY <1>1, <2>1, <2>2 DEF Continues, Calls, Stages, Use, Seeking
  <2>4. Fits(r) /\ Clear(r, file)
    BY <1>3, <2>3 DEF Fits, Clear, Continues, Seeking
  <2>5. ASSUME Alone(r) PROVE Kept(r, file) /\ Placed(r, file)
    <3>1. Kept(e, file)
      BY <1>1, <2>3, <2>5 DEF Alone, Continues
    <3>2. Kept(r, file)
      BY <1>1, <2>3, <3>1, KeptOn
    <3>3. Placed(r, file)
      BY <2>3 DEF Placed, Seeking
    <3> QED
      BY <3>2, <3>3
  <2>6. r \in Calls /\ Fine(r, file) /\ r.quiet = e.quiet
    BY <2>3, <2>4, <2>5 DEF Fine, Does, Continues
  <2> QED
    BY <1>2, <1>3, <2>2, <2>6, NoChange
<1>4. CASE Done(c, ok) /\ ~(e.op = "RemoveAll" /\ ok) /\ UNCHANGED <<file, created>>
  <2>1. ok => Well(e, file)
    BY <1>2, <1>4 DEF Well
  <2>2. ok \in BOOLEAN
    BY DEF ok
  <2> HIDE DEF ok
  <2> QED
    BY <1>2, <1>4, <2>1, <2>2, Answers
<1>5. CASE Fails(c)
  BY <1>2, <1>5, FailsInv
<1> QED
  BY <1>3, <1>4, <1>5 DEF List

LEMMA EachInv ==
    ASSUME IInv, NEW c \in Clients, Each(c) PROVE IInv'
<1> DEFINE e == call[c]
<1>1. /\ e \in Calls /\ Fine(e, file) /\ Fits(e) /\ file \in Drives /\ e.stage = "each"
      /\ Alone(e) => Kept(e, file)
      /\ UNCHANGED <<file, created>>
  BY CallIs DEF Each, At
<1>2. e.stage \notin {"idle", "done"} /\ e.op = "RemoveAll" /\ e.at \in Seq(Names)
  BY <1>1 DEF Fits, Use, Seeking, Calls
<1>3. CASE Set(c, Seek(e, e.at, FALSE, "delete"))
  <2>1. PICK r : r = Lookup(e, e.at, "delete")
    OBVIOUS
  <2>2. r \in Calls /\ Fine(r, file) /\ r.quiet = e.quiet
    <3> HIDE DEF e
    <3> QED
      BY <1>1, <1>2, <2>1, LookupFine
  <2> QED
    BY <1>1, <1>2, <1>3, <2>1, <2>2, NoChange DEF Lookup
<1>4. ASSUME NEW t \in e.todo,
             Set(c, Seek([e EXCEPT !.todo = @ \ {t}], Append(e.at, t[2]), FALSE, "delete"))
      PROVE  IInv'
  <2>1. PICK d : d = [e EXCEPT !.todo = @ \ {t}]
    OBVIOUS
  <2>2. t[2] \in Names
    BY <1>1 DEF Calls
  <2>3. Continues(e, d)
    BY <1>1, <2>1 DEF Continues, Calls
  <2>4. PICK path : path = Append(e.at, t[2])
    OBVIOUS
  <2>5. path \in Seq(Names) /\ path # Root /\ Front(path) = d.at
    BY <1>2, <2>2, <2>3, <2>4, AppendIs DEF Continues
  <2>6. /\ d \in Calls /\ d.op = "RemoveAll" /\ (Alone(d) => Kept(d, file))
    <3>1. Alone(d) => Kept(e, file)
      BY <1>1, <2>3 DEF Alone, Continues
    <3>2. Kept(e, file) => Kept(d, file)
      BY <1>2, <2>3 DEF Kept, Shrunk, Continues
    <3> QED
      BY <1>2, <2>3, <3>1, <3>2 DEF Continues
  <2>7. PICK r : r = Lookup(d, path, "delete")
    OBVIOUS
  <2>8. r \in Calls /\ Fine(r, file) /\ r.quiet = d.quiet
    BY <1>1, <2>5, <2>6, <2>7, LookupFine
  <2>9. r.quiet = e.quiet /\ Set(c, r)
    BY <1>4, <2>1, <2>3, <2>4, <2>7, <2>8 DEF Continues, Lookup
  <2> QED
    BY <1>1, <1>2, <2>8, <2>9, NoChange
<1> QED
  BY <1>3, <1>4 DEF Each

LEMMA ParentsInv ==
    ASSUME IInv, NEW c \in Clients, Parents(c) PROVE IInv'
<1> DEFINE e == call[c]
<1>1. /\ e \in Calls /\ Fine(e, file) /\ Fits(e) /\ file \in Drives /\ e.stage = "parents"
      /\ Alone(e) => Kept(e, file) /\ Placed(e, file)
  BY CallIs DEF Parents, At
<1>2. e.stage \notin {"idle", "done"} /\ e.op = "Rename" /\ e.goal = e.at
  BY <1>1 DEF Fits, Use, Seeking
<1>3. CASE Set(c, Into([e EXCEPT !.source = e.node], e.to, "move")) /\ UNCHANGED <<file, created>>
  <2>1. PICK d : d = [e EXCEPT !.source = e.node]
    OBVIOUS
  <2>2. Continues(e, d) /\ d.source = e.node
    BY <1>1, <2>1 DEF Continues, Calls
  <2>3. ASSUME Alone(d) PROVE file = d.was /\ d.source \in Named(d.was, d.at)
    <3>1. Kept(e, file) /\ Placed(e, file)
      BY <1>1, <2>2, <2>3 DEF Alone, Continues
    <3>2. file = e.was
      BY <1>1, <1>2, <3>1 DEF Kept, Grown, Use, Seeking
    <3>3. e.node \in Named(file, e.at)
      BY <1>1, <1>2, <3>1 DEF Placed
    <3> QED
      BY <2>2, <3>2, <3>3 DEF Continues
  <2>4. PICK r : r = Into(d, d.to, "move")
    OBVIOUS
  <2>5. r \in Calls /\ Fine(r, file) /\ r.quiet = d.quiet
    BY <1>1, <1>2, <2>2, <2>3, <2>4, IntoFine DEF Continues
  <2>6. r.quiet = e.quiet /\ Set(c, r)
    BY <1>3, <2>1, <2>2, <2>4, <2>5 DEF Continues
  <2> QED
    BY <1>2, <1>3, <2>5, <2>6, NoChange
<1>4. CASE Done(c, FALSE) /\ UNCHANGED <<file, created>>
  BY <1>2, <1>4, GivesUp
<1>5. CASE Fails(c)
  BY <1>2, <1>5, FailsInv
<1> QED
  BY <1>3, <1>4, <1>5 DEF Parents

-----------------------------------------------------------------------------
(***************************************************************************)
(* Steps that change the drive.                                            *)
(***************************************************************************)

\* The drive of a call that has created no more than folders on its way.
LEMMA GrownWithin ==
    ASSUME NEW f, NEW e \in Calls, Grown(e, f) PROVE e.was \in Drives /\ Within(e.was, f)
BY SetsDiffer DEF Grown, Within, Calls

NewFolder(e) == [name |-> e.goal[e.depth + 1], in |-> e.node, folder |-> TRUE, body |-> NoContent]
Onto(e, n) == [e EXCEPT !.stage = "walk", !.node = n, !.depth = @ + 1]

LEMMA MadeFine ==
    ASSUME NEW f \in Drives, NEW e \in Calls, Fine(e, f), e.stage = "make",
           NEW n \in Ids, f[n] = Gone, e.node \in FoldersOf(f),
           NEW g, g = Put(f, n, NewFolder(e)),
           NEW r, r = Onto(e, n)
    PROVE  g \in Drives /\ r \in Calls /\ Fine(r, g) /\ r.quiet = e.quiet
<1>1. /\ Fits(e) /\ e.goal \in Seq(Names) /\ e.depth \in Nat /\ e.depth < Len(e.goal)
      /\ e.depth <= Len(e.goal) /\ Len(e.goal) \in Nat
      /\ e.depth + 1 \in Nat /\ e.depth + 1 # 0 /\ e.depth + 1 <= Len(e.goal)
      /\ Use(e) = e.then /\ e.then \in {"made", "enter"} /\ e.goal = Target(e)
      /\ e.op \in {"Mkdir", "Write", "Rename", "Copy"}
  <2>1. /\ Fits(e) /\ e.goal \in Seq(Names) /\ e.depth \in Nat /\ e.depth < Len(e.goal)
        /\ Len(e.goal) \in Nat /\ Use(e) = e.then /\ e.making
    BY LenProperties DEF Fine, Fits, Seeking, Use, Calls
  <2>2. e.then \in {"made", "enter"}
    BY <2>1 DEF Fits, Seeking
  <2>3. e.goal = Target(e) /\ e.op \in {"Mkdir", "Write", "Rename", "Copy"}
    BY <2>1, <2>2 DEF Fits, Target
  <2> QED
    BY <2>1, <2>2, <2>3
<1> DEFINE q == SubSeq(e.goal, 1, e.depth)
           x == NewFolder(e)
<1>2. /\ q \in Seq(Names) /\ e.goal[e.depth + 1] \in Names
      /\ SubSeq(e.goal, 1, e.depth + 1) = Append(q, e.goal[e.depth + 1])
  BY <1>1, PrefixIs, Zenon
<1>3. /\ x \in FolderSet /\ x.in = e.node /\ x.name = e.goal[e.depth + 1]
      /\ x.in = Top \/ f[x.in] \in FolderSet
  BY <1>2 DEF FolderSet, FoldersOf, Calls, NewFolder
<1> HIDE DEF q, x
<1>4. /\ g \in Drives /\ Within(f, g) /\ g[n] = x
      /\ \A k \in Ids : k # n => g[k] = f[k]
      /\ \A p \in Seq(Names) : x.in \in Named(f, p) => n \in Named(g, Append(p, x.name))
  <2>1. x \in FolderSet \cup DocSet /\ (x.in = Top \/ f[x.in] \in FolderSet)
    BY <1>3
  <2>2. g \in Drives /\ Within(f, g)
    BY <2>1, CreatedFits, Zenon DEF x
  <2>3. g[n] = x /\ \A k \in Ids : k # n => g[k] = f[k]
    BY DEF Put, Drives, x
  <2>4. \A p \in Seq(Names) : x.in \in Named(f, p) => n \in Named(g, Append(p, x.name))
    BY <2>1, CreatedNames DEF x
  <2> QED
    BY <2>2, <2>3, <2>4
<1>5. /\ Continues(e, r) /\ r.stage = "walk" /\ r.goal = e.goal /\ r.then = e.then
      /\ r.making = e.making /\ r.source = e.source /\ r.parent = e.parent
      /\ r.node = n /\ r.depth = e.depth + 1
  <2>1. n \in Nodes /\ "walk" \in Stages
    BY DEF Nodes, Stages
  <2> QED
    BY <1>1, <2>1 DEF Continues, Calls, Onto
<1>6. Use(r) = e.then
  BY <1>5 DEF Use, Seeking
<1>7. Fits(r) /\ Clear(r, g)
  BY <1>1, <1>5, <1>6 DEF Fits, Clear, Continues, Seeking, Target
<1>8. ASSUME Alone(r) PROVE Kept(r, g) /\ Placed(r, g)
  <2>1. Kept(e, f) /\ Placed(e, f)
    BY <1>5, <1>8 DEF Fine, Does, Alone, Continues
  <2>2. Grown(e, f) /\ Named(e.was, Target(e)) = {}
    BY <1>1, <2>1 DEF Kept, Grown
  <2>3. e.node \in Named(f, q)
    BY <2>1 DEF Placed, Seeking, q
  <2>4. n \in Named(g, SubSeq(e.goal, 1, e.depth + 1))
    BY <1>2, <1>3, <1>4, <2>3
  <2>5. Target(r) = e.goal /\ r.was = e.was
    BY <1>1, <1>5 DEF Target, Continues
  <2>6. ASSUME NEW i \in Ids, r.was[i] # Gone PROVE g[i] = r.was[i]
    BY <1>4, <2>2, <2>5, <2>6 DEF Grown
  <2>7. ASSUME NEW i \in Ids, r.was[i] = Gone, g[i] # Gone
        PROVE  g[i] \in FolderSet /\ \E k \in 1..Len(Target(r)) : i \in Named(g, SubSeq(Target(r), 1, k))
    <3>1. CASE i = n
      <4>1. e.depth + 1 \in 1..Len(e.goal)
        BY <1>1
      <4> QED
        BY <1>3, <1>4, <2>4, <2>5, <3>1, <4>1
    <3>2. CASE i # n
      <4>1. g[i] = f[i] /\ f[i] # Gone /\ e.was[i] = Gone
        BY <1>4, <2>5, <2>7, <3>2
      <4>2. PICK k \in 1..Len(e.goal) : i \in Named(f, SubSeq(e.goal, 1, k))
        BY <1>1, <2>2, <4>1 DEF Grown
      <4>3. SubSeq(e.goal, 1, k) \in Seq(Names)
        BY <1>1, PrefixIs
      <4>4. i \in Named(g, SubSeq(e.goal, 1, k))
        BY <1>4, <4>2, <4>3, WithinNames
      <4>5. f[i] \in FolderSet
        BY <2>2, <4>1 DEF Grown
      <4> QED
        BY <2>5, <4>1, <4>2, <4>4, <4>5
    <3> QED
      BY <3>1, <3>2
  <2>8. Grown(r, g)
    BY <1>1, <1>5, <1>6, <2>2, <2>5, <2>6, <2>7 DEF Grown
  <2>9. Kept(r, g)
    BY <1>1, <1>5, <2>8 DEF Kept, Continues
  <2>10. Placed(r, g)
    BY <1>1, <1>5, <1>6, <2>1, <2>4 DEF Placed, Seeking, Continues
  <2> QED
    BY <2>9, <2>10
<1> QED
  BY <1>4, <1>5, <1>7, <1>8 DEF Fine, Does, Continues

\* The number of the next file is free.
LEMMA NextFile ==
    ASSUME IInv, NEW i, NEW x, CreateIn(i, x)
    PROVE  /\ created + 1 \in Ids /\ file[created + 1] = Gone /\ i \in FoldersOf(file)
           /\ file' = Put(file, created + 1, x)
           /\ created' \in 0..MaxFiles
           /\ file' \in Drives => \A k \in Ids : k > created' => file'[k] = Gone
<1>1. /\ file \in Drives /\ created \in 0..MaxFiles /\ MaxFiles \in Nat
      /\ \A k \in Ids : k > created => file[k] = Gone
      /\ created < MaxFiles /\ i \in Folders
      /\ file' = [file EXCEPT ![created + 1] = x] /\ created' = created + 1
  BY NodesAre DEF IInv, Typed, CreateIn
<1>2. created + 1 \in Ids /\ created + 1 > created /\ created' \in 0..MaxFiles
  BY <1>1 DEF Ids
<1>3. ASSUME NEW k \in Ids, k > created' PROVE file'[k] = Gone
  <2>1. k \in Nat /\ k > created /\ k # created + 1
    BY <1>1, <1>3 DEF Ids
  <2>2. file'[k] = file[k]
    BY <1>1, <2>1 DEF Drives
  <2> QED
    BY <1>1, <2>1, <2>2
<1> QED
  BY <1>1, <1>2, <1>3, FoldersAre DEF Put

\* A step that changes the drive.
LEMMA Changes ==
    ASSUME IInv, NEW c \in Clients, call[c].stage # "idle",
           NEW r, r \in Calls, Fine(r, file'), r.quiet = call[c].quiet, Set(c, r),
           file' \in Drives, created' \in 0..MaxFiles, \A i \in Ids : i > created' => file'[i] = Gone
    PROVE  IInv'
BY OneCall DEF Set

LEMMA MakeInv ==
    ASSUME IInv, NEW c \in Clients, Make(c) PROVE IInv'
<1> DEFINE e == call[c]
           x == [name |-> e.goal[e.depth + 1], in |-> e.node, folder |-> TRUE, body |-> NoContent]
<1>1. e \in Calls /\ Fine(e, file) /\ file \in Drives /\ e.stage = "make"
  BY CallIs DEF Make, At
<1>2. e.stage \notin {"idle", "done"}
  BY <1>1
<1>3. CASE /\ CreateIn(e.node, x)
           /\ Set(c, [e EXCEPT !.stage = "walk", !.node = created + 1, !.depth = @ + 1])
  <2>1. PICK r : r = [e EXCEPT !.stage = "walk", !.node = created + 1, !.depth = @ + 1]
    OBVIOUS
  <2>2. /\ created + 1 \in Ids /\ file[created + 1] = Gone /\ e.node \in FoldersOf(file)
        /\ file' = Put(file, created + 1, x)
        /\ created' \in 0..MaxFiles
        /\ file' \in Drives => \A k \in Ids : k > created' => file'[k] = Gone
    <3> HIDE DEF e, x
    <3> QED
      BY <1>3, NextFile
  <2>3. file' \in Drives /\ r \in Calls /\ Fine(r, file') /\ r.quiet = e.quiet
    <3>1. file' = Put(file, created + 1, NewFolder(e)) /\ r = Onto(e, created + 1)
      BY <2>1, <2>2 DEF NewFolder, Onto
    <3> HIDE DEF e
    <3> QED
      BY <1>1, <2>2, <3>1, MadeFine
  <2> QED
    BY <1>2, <1>3, <2>1, <2>2, <2>3, Changes
<1>4. CASE Refused(c, e.node)
  BY <1>2, <1>4, GivesUp DEF Refused
<1>5. CASE Fails(c)
  BY <1>2, <1>5, FailsInv
<1> QED
  BY <1>3, <1>4, <1>5 DEF Make

-----------------------------------------------------------------------------
\* What a call that removes has left.
LEMMA RemoverIs ==
    ASSUME NEW f \in Drives, NEW e \in Calls, e.op \in {"Remove", "RemoveAll"}, Kept(e, f)
    PROVE  Shrunk(e, f) /\ Within(f, e.was) /\ e.was \in Drives
<1>1. Shrunk(e, f)
  BY DEF Kept, Shrunk
<1> QED
  BY <1>1 DEF Shrunk, Within, Calls

\* What is at or below the path of the call goes.
LEMMA CutShrinks ==
    ASSUME NEW f \in Drives, NEW e \in Calls, e.op \in {"Remove", "RemoveAll"}, Kept(e, f),
           NEW k \in Named(f, e.at), NEW i \in Ids, i \in Under(f, k)
    PROVE  Shrunk(e, Cut(f, i)) /\ k \in Named(e.was, e.at)
<1>1. Shrunk(e, f) /\ Within(f, e.was) /\ e.at \in Seq(Names)
  BY RemoverIs DEF Calls
<1>2. k \in Named(e.was, e.at)
  BY <1>1, WithinNames
<1>3. k \in Nodes /\ i \in Nodes
  BY <1>1, NamedAre DEF Nodes
<1>4. Under(f, i) \subseteq Under(f, k)
  BY <1>3, UnderUnder
<1>5. Under(f, k) \subseteq Under(e.was, k)
  BY <1>1, <1>3, UnderWithin
<1>6. ASSUME NEW j \in Ids
      PROVE  \/ Cut(f, i)[j] = e.was[j]
             \/ Cut(f, i)[j] = Gone /\ \E l \in Named(e.was, e.at) : j \in Under(e.was, l)
  <2>1. CASE j \in Under(f, i)
    BY <1>2, <1>4, <1>5, <2>1 DEF Cut
  <2>2. CASE j \notin Under(f, i)
    <3>1. Cut(f, i)[j] = f[j]
      BY <2>2 DEF Cut
    <3> QED
      BY <1>1, <3>1 DEF Shrunk
  <2> QED
    BY <2>1, <2>2
<1> QED
  BY <1>2, <1>6 DEF Shrunk

\* RemoveAll goes on with what else was listed.
Removed(e) == IF e.op = "RemoveAll" /\ e.goal # e.at THEN [e EXCEPT !.stage = "each"] ELSE Ended(e, TRUE)

LEMMA DeletedFine ==
    ASSUME NEW f \in Drives, NEW e \in Calls, Fine(e, f), e.stage = "delete",
           NEW i \in Ids, i = e.node, f[i] # Gone,
           NEW g, g = Cut(f, i),
           NEW r, r = Removed(e)
    PROVE  g \in Drives /\ r \in Calls /\ Fine(r, g) /\ r.quiet = e.quiet
<1>1. /\ Fits(e) /\ e.op \in {"Remove", "RemoveAll"} /\ e.goal \in Seq(Names) /\ e.at \in Seq(Names)
      /\ \/ e.goal = e.at
         \/ e.op = "RemoveAll" /\ e.goal # Root /\ Front(e.goal) = e.at
      /\ e.op # "none" /\ Use(e) = "delete"
  BY DEF Fine, Fits, Use, Seeking, Calls
<1>2. g \in Drives /\ Within(g, f) /\ g[i] = Gone
  BY Deleted
<1>3. ASSUME Alone(e) PROVE Kept(e, f) /\ i \in Named(f, e.goal)
  BY <1>3 DEF Fine, Does, Placed
<1>4. CASE e.op = "RemoveAll" /\ e.goal # e.at
  <2>1. Continues(e, r) /\ r.stage = "each" /\ Use(r) = "each"
    BY <1>4 DEF Removed, Continues, Calls, Stages, Use, Seeking
  <2>2. Fits(r) /\ Clear(r, g)
    BY <1>4, <2>1 DEF Fits, Clear, Continues, Seeking
  <2>3. ASSUME Alone(r) PROVE Kept(r, g) /\ Placed(r, g)
    <3>1. Kept(e, f) /\ i \in Named(f, e.goal)
      BY <1>3, <2>1, <2>3 DEF Alone, Continues
    <3>2. f[i].in \in Named(f, e.at)
      BY <1>1, <1>4, <3>1, NamedAre
    <3>3. f[i].in \in Nodes
      BY DriveIs
    <3>4. i \in Under(f, f[i].in)
      BY <3>3, UnderIs
    <3>5. Shrunk(e, g)
      BY <1>1, <3>1, <3>2, <3>4, CutShrinks
    <3>6. Kept(r, g)
      BY <1>4, <2>1, <3>5 DEF Kept, Shrunk, Continues
    <3>7. Placed(r, g)
      BY <2>1 DEF Placed, Seeking
    <3> QED
      BY <3>6, <3>7
  <2> QED
    BY <1>2, <2>1, <2>2, <2>3 DEF Fine, Does, Continues
<1>5. CASE ~(e.op = "RemoveAll" /\ e.goal # e.at)
  <2>1. r = Ended(e, TRUE) /\ e.goal = e.at
    BY <1>1, <1>5 DEF Removed
  <2>2. ASSUME Alone(e) PROVE Touches(e, g) /\ Well(e, g)
    <3>1. Kept(e, f) /\ i \in Named(f, e.at)
      BY <1>3, <2>1, <2>2
    <3>2. i \in Nodes
      BY DEF Nodes
    <3>3. i \in Under(f, i)
      BY <3>2, UnderIs
    <3>4. Shrunk(e, g) /\ i \in Named(e.was, e.at)
      BY <1>1, <3>1, <3>3, CutShrinks
    <3>5. Touches(e, g)
      BY <1>1, <3>4 DEF Touches, Shrunk
    <3>6. e.at # Root
      BY <3>1, NamedRoot, NodesAre
    <3>7. ASSUME NEW k \in Named(g, e.at) PROVE FALSE
      <4>1. Within(g, e.was)
        BY <3>4 DEF Shrunk, Within
      <4>2. k \in Named(e.was, e.at)
        BY <1>1, <4>1, WithinNames
      <4>3. k = i
        BY <1>1, <2>2, <3>4, <4>2, OneFile DEF Alone
      <4>4. g[k] # Gone
        BY <1>1, <3>6, NamedAre
      <4> QED
        BY <1>2, <4>3, <4>4
    <3>8. Well(e, g)
      BY <1>1, <3>7 DEF Well
    <3> QED
      BY <3>5, <3>8
  <2>3. TRUE \in BOOLEAN
    OBVIOUS
  <2> QED
    BY <1>1, <1>2, <2>1, <2>2, <2>3, EndFine
<1> QED
  BY <1>4, <1>5

LEMMA DeleteInv ==
    ASSUME IInv, NEW c \in Clients, Delete(c) PROVE IInv'
<1> DEFINE e == call[c]
<1>1. /\ e \in Calls /\ Fine(e, file) /\ file \in Drives /\ e.stage = "delete"
      /\ created \in 0..MaxFiles /\ \A i \in Ids : i > created => file[i] = Gone
  BY CallIs DEF Delete, At
<1>2. e.stage \notin {"idle", "done"}
  BY <1>1
<1>3. CASE /\ e.node \in There /\ created' = created
           /\ file' = [i \in Ids |-> IF i \in Under(file, e.node) THEN Gone ELSE file[i]]
           /\ IF e.op = "RemoveAll" /\ e.goal # e.at
              THEN Set(c, [e EXCEPT !.stage = "each"])
              ELSE Done(c, TRUE)
  <2>1. PICK r : r = Removed(e)
    OBVIOUS
  <2>2. e.node \in Ids /\ file[e.node] # Gone /\ file' = Cut(file, e.node) /\ Set(c, r)
    BY <1>3, <2>1 DEF There, Cut, Done, Removed
  <2>3. file' \in Drives /\ r \in Calls /\ Fine(r, file') /\ r.quiet = e.quiet
    <3> HIDE DEF e
    <3> QED
      BY <1>1, <2>1, <2>2, DeletedFine
  <2>4. \A i \in Ids : i > created' => file'[i] = Gone
    BY <1>1, <1>3, <2>2 DEF Cut
  <2>5. created' \in 0..MaxFiles
    BY <1>1, <1>3
  <2> QED
    BY <1>2, <2>2, <2>3, <2>4, <2>5, Changes
<1>4. CASE Done(c, FALSE) /\ UNCHANGED <<file, created>>
  BY <1>2, <1>4, GivesUp
<1>5. CASE Fails(c)
  BY <1>2, <1>5, FailsInv
<1> QED
  BY <1>3, <1>4, <1>5 DEF Delete

-----------------------------------------------------------------------------
\* Write where there was no file.
LEMMA NewFileFine ==
    ASSUME NEW f \in Drives, NEW e \in Calls, Fine(e, f), e.stage = "save", e.at # Root, e.node = Top,
           NEW n \in Ids, f[n] = Gone, e.parent \in FoldersOf(f),
           NEW x, x = [name |-> Last(e.at), in |-> e.parent, folder |-> FALSE, body |-> e.body],
           NEW g, g = Put(f, n, x),
           NEW r, r = Ended(e, TRUE)
    PROVE  g \in Drives /\ r \in Calls /\ Fine(r, g) /\ r.quiet = e.quiet
<1>1. /\ Fits(e) /\ e.op = "Write" /\ e.body \in Contents /\ e.at \in Seq(Names)
      /\ Use(e) = "save" /\ Parent(e.at) = Front(e.at) /\ e.parent \in Nodes
  BY DEF Fine, Fits, Use, Seeking, Calls, Parent
<1>2. /\ Front(e.at) \in Seq(Names) /\ Last(e.at) \in Names
      /\ e.at = Append(Front(e.at), Last(e.at))
  BY <1>1, PathCases
<1>3. /\ x \in DocSet /\ x.in = e.parent /\ x.name = Last(e.at) /\ x.body = e.body
      /\ x.in = Top \/ f[x.in] \in FolderSet
  BY <1>1, <1>2 DEF DocSet, FoldersOf
<1>4. x \in FolderSet \cup DocSet /\ (x.in = Top \/ f[x.in] \in FolderSet)
  BY <1>3
<1>5. g \in Drives
  BY <1>4, CreatedFits, Zenon
<1>6. g[n] = x /\ \A k \in Ids : k # n => g[k] = f[k]
  BY DEF Put, Drives
<1>7. ASSUME Alone(e) PROVE Touches(e, g) /\ Well(e, g)
  <2>1. Kept(e, f) /\ Placed(e, f)
    BY <1>7 DEF Fine, Does
  <2>2. Grown(e, f) /\ e.parent \in Named(f, Front(e.at))
    BY <1>1, <2>1 DEF Kept, Placed
  <2>3. Named(f, e.at) = {}
    <3>1. e.node \notin Named(f, e.at)
      BY <1>1, NamedAre, NodesAre
    <3> QED
      BY <2>1, <3>1 DEF Placed
  <2>4. Named(g, e.at) \subseteq Named(f, e.at) \cup {n}
    BY <1>1, <1>4, CreatedNames
  <2>5. n \in Named(g, Append(Front(e.at), x.name))
    BY <1>2, <1>3, <1>4, <2>2, CreatedNames
  <2>6. Named(g, e.at) = {n}
    BY <1>2, <1>3, <2>3, <2>4, <2>5
  <2>7. Well(e, g)
    BY <1>1, <1>3, <1>6, <2>6 DEF Well
  <2>8. Touches(e, g)
    BY <1>1, <1>6, <2>2 DEF Touches, Grown
  <2> QED
    BY <2>7, <2>8
<1>8. TRUE \in BOOLEAN
  OBVIOUS
<1> QED
  BY <1>1, <1>5, <1>7, <1>8, EndFine

\* The file that a lookup for Write has found was there before the call.
LEMMA FoundWasThere ==
    ASSUME NEW f \in Drives, NEW e \in Calls, Fine(e, f), e.stage = "save", Alone(e), e.node \in Ids
    PROVE  /\ f = e.was /\ e.at # Root /\ e.at \in Seq(Names)
           /\ e.node \in Named(f, e.at) /\ f[e.node].name = Last(e.at)
<1>1. Fits(e) /\ e.op = "Write" /\ e.at \in Seq(Names)
  BY DEF Fine, Fits, Use, Seeking, Calls
<1>2. Kept(e, f) /\ Placed(e, f)
  BY DEF Fine, Does
<1>3. e.at # Root
  BY <1>1, NodesAre DEF Fits
<1>4. e.node \in Named(f, e.at)
  BY <1>2, NodesAre DEF Placed
<1>5. Grown(e, f)
  BY <1>1, <1>2 DEF Kept
<1>6. Target(e) = Parent(e.at)
  BY <1>1 DEF Target
<1>7. f = e.was
  BY <1>1, <1>3, <1>4, <1>5, <1>6, WriteAbsent DEF Grown
<1>8. /\ e.node \in Ids /\ f[e.node] # Gone /\ f[e.node].name = Last(e.at)
      /\ f[e.node].in \in Named(f, Front(e.at))
  BY <1>1, <1>3, <1>4, NamedLast
<1> QED
  BY <1>1, <1>3, <1>4, <1>7, <1>8

\* Write over a file.
Over(f, e) == [f[e.node] EXCEPT !.name = Last(e.at), !.body = e.body]

LEMMA OverFine ==
    ASSUME NEW f \in Drives, NEW e \in Calls, Fine(e, f), e.stage = "save",
           NEW i \in Ids, i = e.node, f[i] \in DocSet,
           NEW x, x = Over(f, e),
           NEW g, g = Put(f, i, x),
           NEW r, r = Ended(e, TRUE)
    PROVE  g \in Drives /\ r \in Calls /\ Fine(r, g) /\ r.quiet = e.quiet
<1>1. Fits(e) /\ e.op = "Write" /\ e.body \in Contents /\ e.at \in Seq(Names)
  BY DEF Fine, Fits, Use, Seeking, Calls
<1>2. Last(e.at) \in Names
  BY <1>1, PathCases, NodesAre DEF Fits
<1>3. x \in DocSet /\ x.in = f[i].in /\ x.name = Last(e.at) /\ x.body = e.body
  BY <1>1, <1>2 DEF DocSet, Over
<1>4. /\ x \in FolderSet \cup DocSet /\ (x.in = Top \/ f[x.in] \in FolderSet)
      /\ f[i] \notin FolderSet
  <2>1. f[i] # Gone /\ f[i] \notin FolderSet
    BY SetsDiffer
  <2>2. f[i].in = Top \/ f[f[i].in] \in FolderSet
    BY <2>1, DriveIs, Zenon
  <2> QED
    BY <1>3, <2>1, <2>2
<1>5. g \in Drives
  BY <1>4, PutFits, Zenon
<1>6. g[i] = x /\ \A k \in Ids : k # i => g[k] = f[k]
  BY DEF Put, Drives
<1>7. ASSUME Alone(e) PROVE Touches(e, g) /\ Well(e, g)
  <2>1. f = e.was /\ e.at # Root /\ i \in Named(f, e.at) /\ f[i].name = Last(e.at)
    <3>1. e.node \in Ids
      OBVIOUS
    <3>2. /\ f = e.was /\ e.at # Root /\ e.at \in Seq(Names)
          /\ e.node \in Named(f, e.at) /\ f[e.node].name = Last(e.at)
      BY <1>7, <3>1, FoundWasThere
    <3> QED
      BY <3>2
  <2>2. f[i].name = Last(e.at) /\ f[i] # Gone /\ g[i] # Gone
    BY <1>3, <1>6, <2>1, SetsDiffer
  <2>3. Within(f, g) /\ Within(g, f)
    <3>1. \A k \in Ids : g[k].name = f[k].name /\ g[k].in = f[k].in /\ (g[k] = Gone <=> f[k] = Gone)
      BY <1>3, <1>6, <2>2
    <3> QED
      BY <3>1 DEF Within
  <2>4. Named(g, e.at) = Named(f, e.at)
    <3>1. Named(g, e.at) \subseteq Named(f, e.at)
      BY <1>1, <2>3, WithinNames, Zenon
    <3>2. Named(f, e.at) \subseteq Named(g, e.at)
      BY <1>1, <2>3, WithinNames, Zenon
    <3> QED
      BY <3>1, <3>2
  <2>5. \A k \in Named(f, e.at) : k = i
    BY <1>1, <1>7, <2>1, OneFile DEF Alone
  <2>6. Named(g, e.at) = {i}
    BY <2>1, <2>4, <2>5
  <2>7. Well(e, g)
    BY <1>1, <1>3, <1>6, <2>6 DEF Well
  <2>8. Touches(e, g)
    BY <1>1, <1>6, <2>1 DEF Touches
  <2> QED
    BY <2>7, <2>8
<1>8. TRUE \in BOOLEAN
  OBVIOUS
<1> QED
  BY <1>1, <1>5, <1>7, <1>8, EndFine

LEMMA SaveInv ==
    ASSUME IInv, NEW c \in Clients, Save(c) PROVE IInv'
<1> DEFINE e == call[c]
           x == [name |-> Last(e.at), in |-> e.parent, folder |-> FALSE, body |-> e.body]
<1>1. /\ e \in Calls /\ Fine(e, file) /\ file \in Drives /\ e.stage = "save"
      /\ created \in 0..MaxFiles /\ \A i \in Ids : i > created => file[i] = Gone
  BY CallIs DEF Save, At
<1>2. e.stage \notin {"idle", "done"}
  BY <1>1
<1>3. PICK r : r = Ended(e, TRUE)
  OBVIOUS
<1>4. CASE e.at # Root /\ e.node = Top /\ CreateIn(e.parent, x) /\ Done(c, TRUE)
  <2>1. /\ created + 1 \in Ids /\ file[created + 1] = Gone /\ e.parent \in FoldersOf(file)
        /\ file' = Put(file, created + 1, x)
        /\ created' \in 0..MaxFiles
        /\ file' \in Drives => \A k \in Ids : k > created' => file'[k] = Gone
    <3> HIDE DEF e, x
    <3> QED
      BY <1>4, NextFile
  <2>2. file' \in Drives /\ r \in Calls /\ Fine(r, file') /\ r.quiet = e.quiet
    <3> HIDE DEF e
    <3> QED
      BY <1>1, <1>3, <1>4, <2>1, NewFileFine
  <2>3. e.stage # "idle" /\ Set(c, r)
    BY <1>2, <1>3, <1>4 DEF Done
  <2>4. created' \in 0..MaxFiles /\ \A k \in Ids : k > created' => file'[k] = Gone
    BY <2>1, <2>2
  <2> QED
    BY <2>2, <2>3, <2>4, Changes
<1>5. CASE /\ e.node \in There \ Folders /\ created' = created /\ Done(c, TRUE)
           /\ file' = [file EXCEPT ![e.node].name = Last(e.at), ![e.node].body = e.body]
  <2>1. e.node \in Ids /\ file[e.node] \in DocSet
    BY <1>1, <1>5, FoldersAre
  <2>2. PICK y : y = Over(file, e)
    OBVIOUS
  <2>3. file' = Put(file, e.node, y)
    BY <1>1, <1>5, <2>1, <2>2 DEF Put, Drives, Over
  <2>4. file' \in Drives /\ r \in Calls /\ Fine(r, file') /\ r.quiet = e.quiet
    <3> HIDE DEF e
    <3> QED
      BY <1>1, <1>3, <2>1, <2>2, <2>3, OverFine
  <2>5. \A i \in Ids : i > created' => file'[i] = Gone
    <3>1. file[e.node] # Gone
      BY <2>1, SetsDiffer
    <3>2. \A i \in Ids : i # e.node => file'[i] = file[i]
      BY <1>1, <2>3 DEF Put, Drives
    <3> QED
      BY <1>1, <1>5, <2>1, <3>1, <3>2
  <2> QED
    BY <1>1, <1>2, <1>3, <1>5, <2>4, <2>5, Changes DEF Done
<1>6. CASE Refused(c, e.parent)
  BY <1>2, <1>6, GivesUp DEF Refused
<1>7. CASE Done(c, FALSE) /\ UNCHANGED <<file, created>>
  BY <1>2, <1>7, GivesUp
<1>8. CASE Fails(c)
  BY <1>2, <1>8, FailsInv
<1> QED
  BY <1>4, <1>5, <1>6, <1>7, <1>8 DEF Save

-----------------------------------------------------------------------------
\* The file of a call that moves or copies is the one that its path named.
LEMMA SourceIs ==
    ASSUME NEW f \in Drives, NEW e \in Calls, Fine(e, f), e.stage \in {"move", "copy"}, Alone(e),
           e.source \in Ids
    PROVE  /\ Grown(e, f) /\ e.at # Root /\ Named(e.was, e.at) = {e.source}
           /\ f[e.source] = e.was[e.source]
           /\ e.parent \in Named(f, Parent(e.to))
<1>1. Fits(e) /\ e.op \in {"Rename", "Copy"} /\ e.at \in Seq(Names) /\ Use(e) = e.stage
  BY DEF Fine, Fits, Use, Seeking, Calls
<1>2. Kept(e, f) /\ Placed(e, f)
  BY DEF Fine, Does
<1>3. /\ Grown(e, f) /\ e.source \in Named(e.was, e.at)
      /\ e.parent \in Named(f, Parent(e.to))
  BY <1>1, <1>2 DEF Kept, Placed
<1>4. e.at # Root
  BY <1>3, NamedRoot, NodesAre
<1>5. e.was[e.source] # Gone
  BY <1>1, <1>3, <1>4, NamedAre
<1>6. \A j \in Named(e.was, e.at) : j = e.source
  BY <1>1, <1>3, OneFile DEF Alone
<1> QED
  BY <1>3, <1>4, <1>5, <1>6 DEF Grown

\* The name that Drive is given, or the one the file has.
NewName(f, e) == IF e.to = Root THEN f[e.source].name ELSE Last(e.to)
Placing(f, e) == [f[e.source] EXCEPT !.in = e.parent, !.name = NewName(f, e)]

LEMMA PlacingIs ==
    ASSUME NEW f \in Drives, NEW e \in Calls, e.source \in Ids, f[e.source] # Gone,
           e.parent \in FoldersOf(f)
    PROVE  /\ f[e.source] \in FolderSet => Placing(f, e) \in FolderSet
           /\ f[e.source] \in DocSet => Placing(f, e) \in DocSet
           /\ Placing(f, e) \in FolderSet \cup DocSet
           /\ Placing(f, e).in = e.parent /\ Placing(f, e).body = f[e.source].body
           /\ e.to # Root => Placing(f, e).name = Last(e.to)
           /\ e.parent = Top \/ f[e.parent] \in FolderSet
<1>1. e.parent \in Nodes /\ e.to \in Seq(Names)
  BY DEF Calls
<1>2. f[e.source] \in FolderSet \/ f[e.source] \in DocSet
  BY DriveIs
<1>3. NewName(f, e) \in Names /\ (e.to # Root => NewName(f, e) = Last(e.to))
  <2>1. f[e.source].name \in Names
    BY <1>2, SetsDiffer
  <2>2. e.to # Root => Last(e.to) \in Names
    BY <1>1, PathCases
  <2> QED
    BY <2>1, <2>2 DEF NewName
<1>4. CASE f[e.source] \in FolderSet
  <2>1. /\ Placing(f, e) \in FolderSet /\ Placing(f, e).in = e.parent
        /\ Placing(f, e).body = f[e.source].body /\ Placing(f, e).name = NewName(f, e)
    BY <1>1, <1>3, <1>4 DEF Placing, FolderSet
  <2> QED
    BY <1>3, <1>4, <2>1, SetsDiffer DEF FoldersOf
<1>5. CASE f[e.source] \in DocSet
  <2>1. /\ Placing(f, e) \in DocSet /\ Placing(f, e).in = e.parent
        /\ Placing(f, e).body = f[e.source].body /\ Placing(f, e).name = NewName(f, e)
    BY <1>1, <1>3, <1>5 DEF Placing, DocSet
  <2> QED
    BY <1>3, <1>5, <2>1, SetsDiffer DEF FoldersOf
<1> QED
  BY <1>2, <1>4, <1>5

\* Where the file is after Move and Copy.
LEMMA AtNewPath ==
    ASSUME NEW g, NEW e \in Calls, e.to # Root, NEW i \in Ids, g[i] # Gone,
           g[i].name = Last(e.to), g[i].in \in Named(g, Parent(e.to))
    PROVE  i \in Named(g, e.to)
<1>1. e.to \in Seq(Names) /\ Parent(e.to) = Front(e.to)
  BY DEF Calls, Parent
<1>2. /\ Front(e.to) \in Seq(Names) /\ Last(e.to) \in Names
      /\ e.to = Append(Front(e.to), Last(e.to))
  BY <1>1, PathCases
<1>3. i \in Named(g, Append(Front(e.to), Last(e.to)))
  BY <1>1, <1>2, NamedIn
<1> QED
  BY <1>2, <1>3

Moved(f, e) == Put(f, e.source, Placing(f, e))

LEMMA MovedFine ==
    ASSUME NEW f \in Drives, NEW e \in Calls, Fine(e, f), e.stage = "move",
           e.source \in Ids, f[e.source] # Gone, e.parent \in FoldersOf(f),
           e.parent \notin Under(f, e.source),
           NEW r, r = Ended(e, TRUE)
    PROVE  /\ Moved(f, e) \in Drives
           /\ r \in Calls /\ Fine(r, Moved(f, e)) /\ r.quiet = e.quiet
<1> DEFINE i == e.source
           x == Placing(f, e)
           g == Moved(f, e)
<1>1. Fits(e) /\ e.op = "Rename" /\ e.at \in Seq(Names) /\ e.to \in Seq(Names)
  BY DEF Fine, Fits, Use, Seeking, Calls
<1>2. /\ f[i] \in FolderSet => x \in FolderSet
      /\ x \in FolderSet \cup DocSet
      /\ x.in = e.parent
      /\ e.to # Root => x.name = Last(e.to)
      /\ x.in = Top \/ f[x.in] \in FolderSet
  BY PlacingIs
<1>0. i \in Ids /\ i = e.source
  OBVIOUS
<1> HIDE DEF i, x, g
<1>3. g \in Drives
  BY <1>0, <1>2, PutFits DEF i, x, g, Moved
<1>4. g[i] = x /\ \A k \in Ids : k # i => g[k] = f[k]
  BY <1>0 DEF Put, Drives, Moved, i, x, g
<1>5. g[i] # Gone
  BY <1>0, <1>2, <1>4, SetsDiffer
<1>6. ASSUME Alone(e) PROVE Touches(e, g) /\ Well(e, g)
  <2>1. /\ Grown(e, f) /\ Named(e.was, e.at) = {i} /\ e.parent \in Named(f, Parent(e.to))
    BY <1>0, <1>6, SourceIs
  <2>2. Touches(e, g)
    BY <1>1, <1>4, <2>1 DEF Touches, Grown
  <2>3. ASSUME e.to # Root PROVE i \in Named(g, e.to) /\ (e.to # e.at => i \notin Named(g, e.at))
    <3>1. Parent(e.to) \in Seq(Names)
      BY <1>1, ParentIs
    <3>2. i \in Under(f, i)
      BY <1>0, UnderIs DEF Nodes
    <3>3. \A k \in Ids : k \notin Under(f, i) => g[k] = f[k]
      BY <1>0, <1>4, <3>2
    <3>4. e.parent \in Named(g, Parent(e.to))
      BY <1>0, <2>1, <3>1, <3>3, NamesBeside DEF i
    <3>5. i \in Named(g, e.to)
      BY <1>0, <1>2, <1>4, <1>5, <2>3, <3>4, AtNewPath
    <3>6. i \in Named(g, e.at) => e.to = e.at
      BY <1>1, <3>5, OnePath
    <3> QED
      BY <3>5, <3>6
  <2>4. Well(e, g)
    BY <1>1, <2>1, <2>3 DEF Well
  <2> QED
    BY <2>2, <2>4
<1>7. TRUE \in BOOLEAN
  OBVIOUS
<1> QED
  BY <1>1, <1>3, <1>6, <1>7, EndFine DEF g

LEMMA MoveInv ==
    ASSUME IInv, NEW c \in Clients, Move(c) PROVE IInv'
<1> DEFINE e == call[c]
<1>1. /\ e \in Calls /\ Fine(e, file) /\ file \in Drives /\ e.stage = "move"
      /\ created \in 0..MaxFiles /\ \A i \in Ids : i > created => file[i] = Gone
  BY CallIs DEF Move, At
<1>2. e.stage \notin {"idle", "done"}
  BY <1>1
<1>3. PICK r : r = Ended(e, TRUE)
  OBVIOUS
<1>4. CASE /\ e.source \in There /\ e.parent \in Folders /\ e.parent \notin Under(file, e.source)
           /\ file' = [file EXCEPT ![e.source].in = e.parent,
                                   ![e.source].name = IF e.to = Root THEN @ ELSE Last(e.to)]
           /\ created' = created /\ Done(c, TRUE)
  <2>1. e.source \in Ids /\ file[e.source] # Gone /\ e.parent \in FoldersOf(file)
    BY <1>1, <1>4, FoldersAre DEF There
  <2>2. file[e.source] \in FolderSet \cup DocSet
    BY <1>1, <2>1, DriveIs
  <2>3. file' = Moved(file, e)
    BY <1>1, <1>4, <2>1, <2>2 DEF Put, Moved, Placing, NewName, Drives, FolderSet, DocSet
  <2>4. Moved(file, e) \in Drives /\ r \in Calls /\ Fine(r, Moved(file, e)) /\ r.quiet = e.quiet
    <3> HIDE DEF e
    <3> QED
      BY <1>1, <1>3, <1>4, <2>1, MovedFine
  <2>5. \A i \in Ids : i > created' => file'[i] = Gone
    <3>1. \A i \in Ids : i # e.source => file'[i] = file[i]
      BY <1>1, <2>3 DEF Put, Moved, Drives
    <3> QED
      BY <1>1, <1>4, <2>1, <3>1
  <2> QED
    BY <1>1, <1>2, <1>3, <1>4, <2>3, <2>4, <2>5, Changes DEF Done
<1>5. CASE Done(c, FALSE) /\ UNCHANGED <<file, created>>
  BY <1>2, <1>5, GivesUp
<1>6. CASE Fails(c)
  BY <1>2, <1>6, FailsInv
<1> QED
  BY <1>4, <1>5, <1>6 DEF Move

-----------------------------------------------------------------------------
Copied(f, e, n) == Put(f, n, Placing(f, e))

LEMMA CopiedFine ==
    ASSUME NEW f \in Drives, NEW e \in Calls, Fine(e, f), e.stage = "copy",
           e.source \in Ids, f[e.source] \in DocSet, e.parent \in FoldersOf(f),
           NEW n \in Ids, f[n] = Gone,
           NEW r, r = Ended(e, TRUE)
    PROVE  /\ Copied(f, e, n) \in Drives
           /\ r \in Calls /\ Fine(r, Copied(f, e, n)) /\ r.quiet = e.quiet
<1> DEFINE i == e.source
           x == Placing(f, e)
           g == Copied(f, e, n)
<1>1. /\ Fits(e) /\ e.op = "Copy" /\ e.at \in Seq(Names) /\ e.to \in Seq(Names)
      /\ Parent(e.to) \in Seq(Names)
  BY ParentIs DEF Fine, Fits, Use, Seeking, Calls
<1>2. i \in Ids /\ i = e.source /\ f[i] \in DocSet /\ f[i] # Gone
  BY SetsDiffer
<1>3. /\ x \in DocSet /\ x.in = e.parent /\ x.body = f[i].body
      /\ e.to # Root => x.name = Last(e.to)
      /\ x.in = Top \/ f[x.in] \in FolderSet
  BY <1>2, PlacingIs
<1>4. g = Put(f, n, x)
  BY DEF Copied
<1> HIDE DEF i, x, g
<1>5. x \in FolderSet \cup DocSet /\ (x.in = Top \/ f[x.in] \in FolderSet)
  BY <1>3
<1>6. g \in Drives /\ Within(f, g)
  BY <1>4, <1>5, CreatedFits, Zenon
<1>7. g[n] = x /\ \A k \in Ids : k # n => g[k] = f[k]
  BY <1>4 DEF Put, Drives
<1>8. n # i /\ g[i] = f[i] /\ g[n] # Gone
  BY <1>2, <1>3, <1>7, SetsDiffer
<1>9. ASSUME Alone(e) PROVE Touches(e, g) /\ Well(e, g)
  <2>1. /\ Grown(e, f) /\ e.at # Root /\ Named(e.was, e.at) = {i} /\ e.parent \in Named(f, Parent(e.to))
        /\ f[i] = e.was[i]
    BY <1>2, <1>9, SourceIs
  <2>2. e.was \in Drives /\ Within(e.was, f)
    BY <2>1, GrownWithin
  <2>3. Touches(e, g)
    BY <1>1, <1>7, <2>1 DEF Touches, Grown
  <2>4. ASSUME e.to # Root PROVE n \in Named(g, e.to)
    <3>1. e.parent \in Named(g, Parent(e.to))
      BY <1>1, <1>6, <2>1, WithinNames
    <3> QED
      BY <1>3, <1>7, <1>8, <2>4, <3>1, AtNewPath
  <2>5. i \in Named(g, e.at) /\ i \notin FoldersOf(g)
    <3>1. i \in Named(f, e.at)
      BY <1>1, <2>1, <2>2, WithinNames
    <3>2. i \in Named(g, e.at)
      BY <1>1, <1>6, <3>1, WithinNames
    <3>3. i # Top /\ g[i] \notin FolderSet
      BY <1>2, <1>8, NodesAre, SetsDiffer
    <3> QED
      BY <3>2, <3>3 DEF FoldersOf
  <2>6. ASSUME NEW k \in Named(g, e.at), k # i, k # n PROVE k \in FoldersOf(g)
    <3>1. k \in Named(f, e.at)
      BY <1>1, <1>4, <1>5, <2>6, CreatedNames
    <3>2. k \in Ids /\ f[k] # Gone
      BY <1>1, <2>1, <3>1, NamedAre
    <3>3. e.was[k] = Gone
      <4>1. SUFFICES ASSUME e.was[k] # Gone PROVE FALSE
        OBVIOUS
      <4>2. k \in Named(e.was, e.at)
        BY <1>1, <2>2, <3>1, <4>1, OldNames
      <4> QED
        BY <2>1, <2>6, <4>2
    <3>4. f[k] \in FolderSet
      BY <2>1, <3>2, <3>3 DEF Grown
    <3> QED
      BY <1>7, <2>6, <3>2, <3>4 DEF FoldersOf
  <2>7. ASSUME e.to # Root, e.to # e.at PROVE n \notin Named(g, e.at)
    BY <1>1, <2>4, <2>7, OnePath
  <2>8. ASSUME e.to # Root, e.to # e.at PROVE {i} = Named(g, e.at) \ FoldersOf(g)
    BY <2>5, <2>6, <2>7, <2>8
  <2>9. ASSUME e.to # Root
        PROVE  \E k \in Named(g, e.to) \ {i} : \A j \in {i} : g[k].body = g[j].body
    BY <1>3, <1>7, <1>8, <2>4, <2>9
  <2>10. Well(e, g)
    BY <1>1, <2>1, <2>8, <2>9 DEF Well
  <2> QED
    BY <2>3, <2>10
<1>10. TRUE \in BOOLEAN
  OBVIOUS
<1> QED
  BY <1>1, <1>6, <1>9, <1>10, EndFine DEF g

LEMMA CopyInv ==
    ASSUME IInv, NEW c \in Clients, CopyFile(c) PROVE IInv'
<1> DEFINE e == call[c]
           x == [file[e.source] EXCEPT !.in = e.parent, !.name = IF e.to = Root THEN @ ELSE Last(e.to)]
<1>1. e \in Calls /\ Fine(e, file) /\ file \in Drives /\ e.stage = "copy"
  BY CallIs DEF CopyFile, At
<1>2. e.stage \notin {"idle", "done"}
  BY <1>1
<1>3. PICK r : r = Ended(e, TRUE)
  OBVIOUS
<1>4. CASE e.source \in There \ Folders /\ CreateIn(e.parent, x) /\ Done(c, TRUE)
  <2>1. e.source \in Ids /\ file[e.source] \in DocSet
    BY <1>1, <1>4, FoldersAre
  <2>2. x = Placing(file, e)
    BY <2>1 DEF Placing, NewName, DocSet
  <2>3. /\ created + 1 \in Ids /\ file[created + 1] = Gone /\ e.parent \in FoldersOf(file)
        /\ file' = Put(file, created + 1, x)
        /\ created' \in 0..MaxFiles
        /\ file' \in Drives => \A k \in Ids : k > created' => file'[k] = Gone
    <3> HIDE DEF e, x
    <3> QED
      BY <1>4, NextFile
  <2>4. file' = Copied(file, e, created + 1)
    BY <2>2, <2>3 DEF Copied
  <2>5. /\ Copied(file, e, created + 1) \in Drives
        /\ r \in Calls /\ Fine(r, Copied(file, e, created + 1)) /\ r.quiet = e.quiet
    <3> HIDE DEF e
    <3> QED
      BY <1>1, <1>3, <2>1, <2>3, CopiedFine
  <2> QED
    BY <1>2, <1>3, <1>4, <2>3, <2>4, <2>5, Changes DEF Done
<1>5. CASE Refused(c, e.parent)
  BY <1>2, <1>5, GivesUp DEF Refused
<1>6. CASE Done(c, FALSE) /\ UNCHANGED <<file, created>>
  BY <1>2, <1>6, GivesUp
<1>7. CASE Fails(c)
  BY <1>2, <1>7, FailsInv
<1> QED
  BY <1>4, <1>5, <1>6, <1>7 DEF CopyFile

-----------------------------------------------------------------------------
(***************************************************************************)
(* Calls begin and end.                                                    *)
(***************************************************************************)
LEMMA LeaveInv ==
    ASSUME IInv, NEW c \in Clients, Return(c) \/ Crash(c) PROVE IInv'
<1>1. call[c].stage # "idle" /\ Set(c, Idle) /\ UNCHANGED <<file, created>>
  BY DEF Return, Crash, At
<1>2. PICK r : r = Idle
  OBVIOUS
<1>3. r \in Calls /\ Fine(r, file) /\ r.stage = "idle"
  BY <1>2, IdleIs
<1> QED
  BY <1>1, <1>2, <1>3, NoChange

\* Of a call that another has disturbed the properties say nothing.
LEMMA DisturbedFine ==
    ASSUME NEW f \in Drives, NEW e \in Calls, Fits(e), e.stage # "idle",
           NEW r, r = Disturbed(e)
    PROVE  r \in Calls /\ Fine(r, f) /\ ~r.quiet /\ r.stage # "idle"
<1>1. PICK d : d = [e EXCEPT !.quiet = FALSE, !.sure = TRUE, !.was = Idle.was]
  OBVIOUS
<1>2. d \in Calls /\ d.quiet = FALSE
  BY <1>1, IdleIs DEF Calls
<1>3. ~Alone(d) /\ ~d.quiet
  BY <1>2 DEF Alone
<1>4. Fits(d) /\ d.stage = e.stage /\ d.ok = e.ok
  <2>1. d.stage = e.stage /\ d.ok = e.ok
    BY <1>1 DEF Calls
  <2>2. Fits(d)
    BY <1>1 DEF Fits, Calls, Use, Target
  <2> QED
    BY <2>1, <2>2
<1>5. CASE e.stage = "done"
  <2>1. r = Ended(d, e.ok)
    BY <1>1, <1>5 DEF Disturbed
  <2>2. e.ok \in BOOLEAN
    BY DEF Calls
  <2>3. r \in Calls /\ Fine(r, f) /\ r.quiet = d.quiet /\ r.stage = "done"
    BY <1>2, <1>3, <1>4, <2>1, <2>2, EndFine
  <2> QED
    BY <1>3, <2>3
<1>6. CASE e.stage # "done"
  <2>1. r = d
    BY <1>1, <1>6 DEF Disturbed
  <2> QED
    BY <1>2, <1>3, <1>4, <2>1 DEF Fine, Clear, Does
<1> QED
  BY <1>5, <1>6

LEMMA BegunFine ==
    ASSUME NEW f \in Drives, NEW e \in Calls, e.op \in Operations, e.stage = "idle",
           e.op = "Write" => e.body \in Contents,
           e.quiet => e.was = f,
           NEW r, r = Begun(e)
    PROVE  r \in Calls /\ Fine(r, f) /\ r.quiet = e.quiet /\ r.stage # "idle"
<1>1. e.at \in Seq(Names) /\ Parent(e.at) \in Seq(Names) /\ Use(e) = "idle"
  BY ParentIs DEF Calls, Use, Seeking
<1>2. ASSUME Alone(e) PROVE Kept(e, f) /\ Grown(e, f) /\ f = e.was
  <2>1. f = e.was
    BY <1>2 DEF Alone
  <2>2. Grown(e, f)
    BY <1>1, <2>1 DEF Grown
  <2> QED
    BY <2>1, <2>2 DEF Kept, Shrunk
<1>3. ASSUME NEW then \in {"get", "list", "delete", "parents", "source"}, r = Lookup(e, e.at, then),
             then = "get" => e.op \in {"Stat", "Open"},
             then = "list" => e.op \in {"ReadDir", "RemoveAll"},
             then = "delete" => e.op \in {"Remove", "RemoveAll"},
             then = "parents" => e.op = "Rename",
             then = "source" => e.op = "Copy"
      PROVE  r \in Calls /\ Fine(r, f) /\ r.quiet = e.quiet /\ r.stage # "idle"
  BY <1>1, <1>2, <1>3, LookupFine
<1>4. CASE e.op \in {"Stat", "Open"}
  <2>1. r = Lookup(e, e.at, "get")
    BY <1>4 DEF Begun, Lookup
  <2> QED
    BY <1>3, <1>4, <2>1
<1>5. CASE e.op \in {"ReadDir", "RemoveAll"}
  <2>1. r = Lookup(e, e.at, "list")
    BY <1>5 DEF Begun, Lookup
  <2> QED
    BY <1>3, <1>5, <2>1
<1>6. CASE e.op = "Remove"
  <2>1. r = Lookup(e, e.at, "delete")
    BY <1>6 DEF Begun, Lookup
  <2> QED
    BY <1>3, <1>6, <2>1
<1>7. CASE e.op = "Rename"
  <2>1. r = Lookup(e, e.at, "parents")
    BY <1>7 DEF Begun, Lookup
  <2> QED
    BY <1>3, <1>7, <2>1
<1>8. CASE e.op = "Copy"
  <2>1. r = Lookup(e, e.at, "source")
    BY <1>8 DEF Begun, Lookup
  <2> QED
    BY <1>3, <1>8, <2>1
<1>9. ASSUME NEW path \in Seq(Names), NEW then \in {"made", "enter"},
             r = Seek(e, path, TRUE, then),
             then = "made" => e.op = "Mkdir" /\ path = e.at,
             then = "enter" => e.op = "Write" /\ path = Parent(e.at)
      PROVE  r \in Calls /\ Fine(r, f) /\ r.quiet = e.quiet /\ r.stage # "idle"
  <2>1. /\ Continues(e, r) /\ r.depth <= Len(r.goal)
        /\ Clear(r, f) /\ r.node \in Named(f, SubSeq(r.goal, 1, r.depth))
    BY <1>9, SeekFine DEF Thens
  <2>2. /\ r.stage = "find" /\ r.goal = path /\ r.making = TRUE /\ r.then = then
        /\ r.node = Top /\ Use(r) = then
    BY <1>9, <2>1 DEF Seek, Calls, Use, Seeking
  <2>3. Fits(r)
    BY <1>9, <2>1, <2>2 DEF Fits, Continues, Seeking, Target
  <2>4. ASSUME Alone(r) PROVE Kept(r, f) /\ Placed(r, f)
    <3>1. Kept(e, f) /\ f = e.was
      BY <1>2, <2>1, <2>4 DEF Alone, Continues
    <3>2. Kept(r, f)
      BY <2>1, <2>2, <3>1, KeptOn
    <3>3. Placed(r, f)
      BY <1>9, <2>1, <2>2 DEF Placed, Seeking, Continues
    <3> QED
      BY <3>2, <3>3
  <2> QED
    BY <2>1, <2>2, <2>3, <2>4 DEF Fine, Does, Continues
<1>10. CASE e.op = "Mkdir"
  <2>1. r = Seek(e, e.at, TRUE, "made")
    BY <1>10 DEF Begun
  <2> QED
    BY <1>1, <1>9, <1>10, <2>1
<1>11. CASE e.op = "Write" /\ Parent(e.at) = Root
  <2>1. PICK d : d = [e EXCEPT !.parent = Top]
    OBVIOUS
  <2>2. r = Seek(d, d.at, FALSE, "save")
    BY <1>11, <2>1 DEF Begun, Into, Calls
  <2>3. Continues(e, d) /\ d.parent = Top /\ d.stage = "idle"
    BY <2>1 DEF Continues, Calls, Nodes
  <2>4. ASSUME Alone(d)
        PROVE  /\ Grown(d, f) /\ d.stage \notin {"source", "parents"}
               /\ d.parent \in Named(f, Parent(d.at))
    <3>1. f = d.was
      BY <1>2, <2>3, <2>4 DEF Alone, Continues
    <3>2. Grown(d, f)
      BY <2>3, <3>1 DEF Grown, Use, Seeking
    <3>3. Top \in Named(f, Parent(d.at))
      BY <1>11, <2>3, NamedRoot DEF Continues
    <3> QED
      BY <2>3, <3>2, <3>3
  <2>5. r \in Calls /\ Fine(r, f) /\ r.quiet = d.quiet /\ r.stage # "idle"
    BY <1>11, <2>2, <2>3, <2>4, SaveFine DEF Continues
  <2> QED
    BY <2>3, <2>5 DEF Continues
<1>12. CASE e.op = "Write" /\ Parent(e.at) # Root
  <2>1. r = Seek(e, Parent(e.at), TRUE, "enter")
    BY <1>12 DEF Begun, Into
  <2> QED
    BY <1>1, <1>9, <1>12, <2>1
<1> QED
  BY <1>4, <1>5, <1>6, <1>7, <1>8, <1>10, <1>11, <1>12 DEF Operations

\* A call as it starts, alone or beside others.
NewCall(op, p, q, x) == [Idle EXCEPT !.op = op, !.at = p, !.to = q, !.body = x]
Starting(e, alone) == IF alone THEN [e EXCEPT !.was = file] ELSE Disturbed(e)

LEMMA StartingFine ==
    ASSUME file \in Drives, NEW op \in Operations, NEW p \in Seq(Names), NEW q \in Seq(Names),
           NEW x \in Contents \cup {NoContent}, op = "Write" => x \in Contents, NEW alone \in BOOLEAN,
           NEW r, r = Begun(Starting(NewCall(op, p, q, x), alone))
    PROVE  r \in Calls /\ Fine(r, file) /\ (r.quiet => alone) /\ r.stage # "idle"
<1>1. PICK e : e = NewCall(op, p, q, x)
  OBVIOUS
<1>2. Idle \in Calls /\ Idle.stage = "idle" /\ Idle.was \in Drives
  BY IdleIs DEF Calls
<1>3. /\ e \in Calls /\ e.op = op /\ e.body = x /\ e.stage = "idle"
  BY <1>1, <1>2 DEF NewCall, Calls
<1>4. PICK d : d = Starting(e, alone)
  OBVIOUS
<1>5. CASE alone
  <2>1. d = [e EXCEPT !.was = file]
    BY <1>4, <1>5 DEF Starting
  <2>2. /\ d \in Calls /\ d.op = op /\ d.body = x /\ d.stage = "idle" /\ d.was = file
    BY <1>3, <2>1 DEF Calls
  <2>3. r \in Calls /\ Fine(r, file) /\ r.quiet = d.quiet /\ r.stage # "idle"
    BY <1>1, <1>4, <2>2, BegunFine
  <2> QED
    BY <1>5, <2>3
<1>6. CASE ~alone
  <2>1. d = [e EXCEPT !.quiet = FALSE, !.sure = TRUE, !.was = Idle.was]
    BY <1>3, <1>4, <1>6 DEF Starting, Disturbed
  <2>2. /\ d \in Calls /\ d.op = op /\ d.body = x /\ d.stage = "idle" /\ d.quiet = FALSE
    BY <1>2, <1>3, <2>1 DEF Calls
  <2>3. r \in Calls /\ Fine(r, file) /\ r.quiet = d.quiet /\ r.stage # "idle"
    BY <1>1, <1>4, <2>2, BegunFine
  <2> QED
    BY <2>2, <2>3
<1> QED
  BY <1>5, <1>6

LEMMA BeginInv ==
    ASSUME IInv, NEW c \in Clients, NEW op \in Operations, NEW p \in Seq(Names), NEW q \in Seq(Names),
           NEW x \in Contents \cup {NoContent}, op = "Write" => x \in Contents, Begin(c, op, p, q, x)
    PROVE  IInv'
<1>1. PICK alone \in BOOLEAN : alone <=> \A o \in Clients \ {c} : call[o].stage = "idle"
  <2>1. CASE \A o \in Clients \ {c} : call[o].stage = "idle"
    BY <2>1
  <2>2. CASE ~(\A o \in Clients \ {c} : call[o].stage = "idle")
    BY <2>2
  <2> QED
    BY <2>1, <2>2
<1>2. PICK r : r = Begun(Starting(NewCall(op, p, q, x), alone))
  OBVIOUS
<1>3. /\ call' = [d \in Clients |-> IF d # c THEN IF call[d].stage = "idle" THEN Idle
                                               ELSE Disturbed(call[d])
                                    ELSE r]
      /\ file' = file /\ created' = created
  BY <1>1, <1>2 DEF Begin, At, NewCall, Starting
<1>4. file \in Drives /\ call \in [Clients -> Calls]
  BY DEF IInv, Typed
<1>5. r \in Calls /\ Fine(r, file) /\ (r.quiet => alone) /\ r.stage # "idle"
  BY <1>2, <1>4, StartingFine
<1>6. ASSUME NEW d \in Clients, d # c
      PROVE  /\ call'[d] \in Calls /\ Fine(call'[d], file)
             /\ call'[d].stage = "idle" <=> call[d].stage = "idle"
             /\ call'[d].stage # "idle" => ~call'[d].quiet
  <2>1. CASE call[d].stage = "idle"
    <3>1. call'[d] = Idle
      BY <1>3, <1>6, <2>1
    <3> QED
      BY <2>1, <3>1, IdleIs
  <2>2. CASE call[d].stage # "idle"
    <3>1. PICK s : s = Disturbed(call[d])
      OBVIOUS
    <3>2. call'[d] = s
      BY <1>3, <1>6, <2>2, <3>1
    <3>3. call[d] \in Calls /\ Fits(call[d])
      BY CallIs
    <3>4. s \in Calls /\ Fine(s, file) /\ ~s.quiet /\ s.stage # "idle"
      BY <1>4, <2>2, <3>1, <3>3, DisturbedFine
    <3> QED
      BY <2>2, <3>2, <3>4
  <2> QED
    BY <2>1, <2>2
<1>7. call'[c] = r
  BY <1>3
<1>8. Typed'
  <2>1. call' \in [Clients -> Calls]
    BY <1>3, <1>5, <1>6, <1>7
  <2> QED
    BY <1>3, <2>1 DEF IInv, Typed
<1>9. Apart'
  <2> SUFFICES ASSUME NEW k \in Clients, NEW d \in Clients, k # d,
                      call'[k].quiet, call'[k].stage # "idle"
               PROVE  call'[d].stage = "idle"
    BY DEF Apart
  <2>1. k = c
    BY <1>6
  <2>2. call[d].stage = "idle"
    BY <1>1, <1>5, <1>7, <2>1
  <2> QED
    BY <1>6, <2>1, <2>2
<1>10. \A d \in Clients : Fine(call'[d], file')
  BY <1>3, <1>5, <1>6, <1>7
<1>11. (\A d \in Clients : Fine(call[d], file))'
  BY <1>10
<1> QED
  BY <1>8, <1>9, <1>11 DEF IInv

-----------------------------------------------------------------------------
(***************************************************************************)
(* The invariant.                                                          *)
(***************************************************************************)
LEMMA InitIInv == Init => IInv
<1> SUFFICES ASSUME Init PROVE IInv
  OBVIOUS
<1>1. /\ file = [i \in Ids |-> Gone] /\ created = 0
      /\ \A c \in Clients : call[c] = Idle
      /\ call \in [Clients -> {Idle}]
  BY DEF Init
<1>2. file \in Drives /\ 0 \in 0..MaxFiles
  BY <1>1, NodesAre DEF Drives
<1>3. Typed
  BY <1>1, <1>2, IdleIs DEF Typed
<1>4. Apart
  BY <1>1, IdleIs DEF Apart
<1> QED
  BY <1>1, <1>3, <1>4, IdleIs DEF IInv

LEMMA NextIInv == IInv /\ [Next]_vars => IInv'
<1> SUFFICES ASSUME IInv, [Next]_vars PROVE IInv'
  OBVIOUS
<1>1. CASE UNCHANGED vars
  BY <1>1 DEF vars, IInv, Typed, Apart
<1>2. ASSUME NEW c \in Clients, NEW op \in Ops[c], NEW p \in Paths, NEW q \in Paths,
             NEW x \in Contents \cup {NoContent},
             op = "Write" => x # NoContent, Begin(c, op, p, q, x)
      PROVE  IInv'
  <2>1. op \in Operations /\ p \in Seq(Names) /\ q \in Seq(Names)
    BY DriveAssumption DEF Operations, Names
  <2>2. op = "Write" => x \in Contents
    BY <1>2
  <2> QED
    BY <1>2, <2>1, <2>2, BeginInv
<1>3. ASSUME NEW c \in Clients, Working(c) PROVE IInv'
  BY <1>3, FindInv, WalkInv, MakeInv, GetInv, DownloadInv, ListInv, EachInv, DeleteInv, SaveInv,
     ParentsInv, MoveInv, CopyInv DEF Working
<1>4. ASSUME NEW c \in Clients, Return(c) \/ Crash(c) PROVE IInv'
  BY <1>4, LeaveInv
<1> QED
  BY <1>1, <1>2, <1>3, <1>4 DEF Next

\* The drive is a forest of named files in every state, and calls are where the code can be.
THEOREM Invariance == Spec => []IInv
<1>1. Init => IInv
  BY InitIInv
<1>2. IInv /\ [Next]_vars => IInv'
  BY NextIInv
<1> QED
  BY <1>1, <1>2, PTL DEF Spec

-----------------------------------------------------------------------------
(***************************************************************************)
(* A second file of a name.                                                *)
(***************************************************************************)
Explains(c, i, j) ==
    LET e == call[c] IN
    \/ At(c, "move") \/ At(c, "copy")
    \/ At(c, "make") /\ (~e.quiet \/ {i, j} \cap (There \ Folders) # {})
    \/ At(c, "save") /\ (~e.quiet \/ ~e.sure \/ ~Unambiguous(e.was))

\* A second file of a name is the one created, when one is.
LEMMA NewTwin ==
    ASSUME NEW f \in Drives, NEW n \in Ids, NEW x, NEW i \in Ids, NEW j \in Ids,
           Twins(Put(f, n, x), i, j), ~Twins(f, i, j)
    PROVE  \E k \in {i, j} : k # n /\ f[k] # Gone /\ f[k].name = x.name /\ f[k].in = x.in
<1>1. Put(f, n, x)[n] = x /\ \A k \in Ids : k # n => Put(f, n, x)[k] = f[k]
  BY DEF Put, Drives
<1> HIDE DEF Put
<1> QED
  BY <1>1 DEF Twins

\* A change to a file that keeps its name and its folder makes no second file of a name.
LEMMA SameTwins ==
    ASSUME NEW f, NEW g, NEW i \in Ids, NEW j \in Ids, Within(g, f), Twins(g, i, j)
    PROVE  Twins(f, i, j)
BY DEF Within, Twins

LEMMA MakeTwins ==
    ASSUME IInv, NEW c \in Clients, Make(c), NEW i \in Ids, NEW j \in Ids,
           Twins(file', i, j), ~Twins(file, i, j)
    PROVE  Explains(c, i, j)
<1> DEFINE e == call[c]
<1>1. e \in Calls /\ Fine(e, file) /\ file \in Drives /\ e.stage = "make"
  BY CallIs DEF Make, At
<1>2. file' # file
  OBVIOUS
<1>3. CreateIn(e.node, NewFolder(e))
  BY <1>2 DEF Make, Refused, Fails, NewFolder
<1>4. PICK x : x = NewFolder(e)
  OBVIOUS
<1>5. created + 1 \in Ids /\ file' = Put(file, created + 1, x)
  <2> HIDE DEF e
  <2> QED
    BY <1>3, <1>4, NextFile
<1>6. x.name = e.goal[e.depth + 1] /\ x.in = e.node
  BY <1>4 DEF NewFolder
<1>7. PICK k \in {i, j} : file[k] # Gone /\ file[k].name = x.name /\ file[k].in = x.in
  BY <1>1, <1>5, NewTwin
<1>8. CASE e.quiet
  <2>1. file[k] \notin FolderSet
    BY <1>1, <1>6, <1>7, <1>8 DEF Fine, Clear
  <2>2. k \in There \ Folders
    <3>1. k \in Ids
      OBVIOUS
    <3>2. file[k] \in DocSet
      BY <1>1, <1>7, <2>1, <3>1, DriveIs
    <3> QED
      BY <1>1, <3>1, <3>2, FoldersAre
  <2> QED
    BY <1>1, <1>7, <2>2 DEF Explains, At
<1> QED
  BY <1>1, <1>8 DEF Explains, At

LEMMA DeleteTwins ==
    ASSUME IInv, NEW c \in Clients, Delete(c), NEW i \in Ids, NEW j \in Ids, Twins(file', i, j)
    PROVE  Twins(file, i, j)
<1>1. \A k \in Ids : file'[k] \in {Gone, file[k]}
  BY DEF Delete, Fails
<1>2. Within(file', file)
  BY <1>1 DEF Within
<1> QED
  BY <1>2, SameTwins

LEMMA SaveTwins ==
    ASSUME IInv, NEW c \in Clients, Save(c), NEW i \in Ids, NEW j \in Ids,
           Twins(file', i, j), ~Twins(file, i, j)
    PROVE  Explains(c, i, j)
<1> DEFINE e == call[c]
<1>1. e \in Calls /\ Fine(e, file) /\ Fits(e) /\ file \in Drives /\ e.stage = "save"
  BY CallIs DEF Save, At
<1>2. file' # file
  OBVIOUS
<1> SUFFICES ASSUME Alone(e) PROVE FALSE
  BY <1>1 DEF Explains, At, Alone
<1>3. CASE /\ e.at # Root /\ e.node = Top
           /\ CreateIn(e.parent, [name |-> Last(e.at), in |-> e.parent, folder |-> FALSE, body |-> e.body])
  <2>1. PICK x : x = [name |-> Last(e.at), in |-> e.parent, folder |-> FALSE, body |-> e.body]
    OBVIOUS
  <2>2. created + 1 \in Ids /\ file' = Put(file, created + 1, x)
    <3> HIDE DEF e
    <3> QED
      BY <1>3, <2>1, NextFile
  <2>3. x.name = Last(e.at) /\ x.in = e.parent
    BY <2>1
  <2>4. PICK k \in {i, j} : file[k] # Gone /\ file[k].name = x.name /\ file[k].in = x.in
    BY <1>1, <2>2, NewTwin
  <2>5. Placed(e, file) /\ e.at \in Seq(Names) /\ Use(e) = "save" /\ Parent(e.at) = Front(e.at)
    BY <1>1, <1>3 DEF Fine, Does, Use, Seeking, Calls, Parent
  <2>6. e.parent \in Named(file, Front(e.at))
    BY <2>5 DEF Placed
  <2>7. /\ Front(e.at) \in Seq(Names) /\ Last(e.at) \in Names /\ e.at = Append(Front(e.at), Last(e.at))
    BY <1>3, <2>5, PathCases
  <2>8. k \in Named(file, Append(Front(e.at), Last(e.at)))
    BY <2>3, <2>4, <2>6, <2>7, NamedIn
  <2>9. Named(file, e.at) = {}
    <3>1. Top \notin Named(file, e.at)
      BY <1>3, <2>5, NamedLast, NodesAre
    <3> QED
      BY <1>1, <1>3, <2>5, <3>1 DEF Placed
  <2> QED
    BY <2>7, <2>8, <2>9
<1>4. CASE /\ e.node \in There \ Folders
           /\ file' = [file EXCEPT ![e.node].name = Last(e.at), ![e.node].body = e.body]
  <2>1. e.node \in Ids
    BY <1>1, <1>4, FoldersAre
  <2>2. file[e.node].name = Last(e.at)
    BY <1>1, <2>1, FoundWasThere
  <2>3. \A k \in Ids : k # e.node => file'[k] = file[k]
    BY <1>1, <1>4 DEF Drives
  <2>4. file'[e.node].name = Last(e.at) /\ file'[e.node].in = file[e.node].in
    <3>1. file[e.node] \in DocSet
      BY <1>1, <1>4, <2>1, FoldersAre
    <3>2. file'[e.node] = [file[e.node] EXCEPT !.name = Last(e.at), !.body = e.body]
      BY <1>1, <1>4, <2>1 DEF Drives
    <3> HIDE DEF e
    <3> QED
      BY <3>1, <3>2 DEF DocSet
  <2>5. file[e.node] # Gone
    BY <1>1, <1>4, FoldersAre
  <2>6. Within(file', file)
    BY <2>2, <2>3, <2>4, <2>5 DEF Within
  <2> QED
    BY <2>6, SameTwins
<1> QED
  BY <1>2, <1>3, <1>4 DEF Save, Refused, Fails

LEMMA StepTwins ==
    ASSUME IInv, [Next]_vars, NEW i \in Ids, NEW j \in Ids, Twins(file', i, j), ~Twins(file, i, j)
    PROVE  \E c \in Clients : Explains(c, i, j)
<1>1. file' # file
  OBVIOUS
<1>2. PICK c \in Clients : Make(c) \/ Delete(c) \/ Save(c) \/ Move(c) \/ CopyFile(c)
  <2>1. PICK c \in Clients :
           \/ \E op \in Ops[c], p, q \in Paths, x \in Contents \cup {NoContent} : Begin(c, op, p, q, x)
           \/ Working(c) \/ Return(c) \/ Crash(c)
    BY <1>1 DEF Next, vars
  <2>2. \A op, p, q, x : ~Begin(c, op, p, q, x)
    BY <1>1 DEF Begin
  <2>3. ~Find(c) /\ ~Walk(c) /\ ~Return(c) /\ ~Crash(c)
    BY <1>1 DEF Find, Walk, Return, Crash, Fails
  <2>4. ~Get(c) /\ ~Download(c) /\ ~List(c) /\ ~Each(c) /\ ~Parents(c)
    BY <1>1 DEF Get, Download, List, Each, Parents, Fails
  <2> QED
    BY <2>1, <2>2, <2>3, <2>4 DEF Working
<1>3. CASE Make(c)
  BY <1>3, MakeTwins
<1>4. CASE Delete(c)
  BY <1>4, DeleteTwins
<1>5. CASE Save(c)
  BY <1>5, SaveTwins
<1>6. CASE Move(c) \/ CopyFile(c)
  BY <1>6 DEF Move, CopyFile, Explains
<1> QED
  BY <1>2, <1>3, <1>4, <1>5, <1>6

-----------------------------------------------------------------------------
(***************************************************************************)
(* The theorems.                                                           *)
(***************************************************************************)

\* The drive stays a forest: whatever is there is a folder or a file with a name, in a folder
\* that is there; and calls keep their types.
THEOREM DriveTyped == Spec => []Typed
<1>1. IInv => Typed
  BY DEF IInv
<1> QED
  BY <1>1, Invariance, PTL

\* A call that nobody disturbed, and whose lookups did not fail, changes on a drive of
\* unique names no file but the one it wrote or moved and what was below what it removed.
THEOREM DriveAloneTouches == Spec => []AloneTouches
<1>1. ASSUME IInv PROVE AloneTouches
  <2>1. SUFFICES ASSUME NEW c \in Clients, call[c].stage # "idle", Alone(call[c])
                 PROVE  Touches(call[c], file)
    BY DEF AloneTouches, Touches, Alone, At
  <2>2. call[c] \in Calls /\ Fine(call[c], file) /\ Fits(call[c]) /\ file \in Drives
    BY <1>1, CallIs
  <2>3. CASE call[c].stage = "done"
    BY <2>1, <2>2, <2>3 DEF Fine, Does
  <2>4. CASE call[c].stage # "done"
    BY <2>1, <2>2, <2>4, StageHasOp, KeptTouches DEF Fine, Does
  <2> QED
    BY <2>3, <2>4
<1> QED
  BY <1>1, Invariance, PTL

\* Such a call, when it answers well, has done what its path says.
THEOREM DriveAloneDoes == Spec => []AloneDoes
<1>1. ASSUME IInv PROVE AloneDoes
  <2> SUFFICES ASSUME NEW c \in Clients, call[c].stage = "done", call[c].ok, Alone(call[c])
               PROVE  LET e == call[c]
                          before == Named(e.was, e.at)
                          now == Named(file, e.at)
                          new == Named(file, e.to)
                      IN
                      /\ e.op = "Write" => \E i \in There \ Folders : now = {i} /\ file[i].body = e.body
                      /\ e.op \in {"Remove", "RemoveAll"} => now = {}
                      /\ e.op = "Mkdir" => now # {} /\ now \subseteq Folders \cup before
                      /\ e.op = "Rename" /\ e.to # Root =>
                            before \subseteq new /\ (e.to # e.at => before \cap now = {})
                      /\ e.op = "Copy" /\ e.to # Root =>
                            /\ before = now \ Folders \/ e.to = e.at
                            /\ \E i \in new \ before : \A j \in before : file[i].body = file[j].body
    BY DEF AloneDoes, Alone, At
  <2>1. Fine(call[c], file) /\ file \in Drives
    BY <1>1, CallIs
  <2>2. Well(call[c], file)
    BY <2>1 DEF Fine, Does
  <2>3. Folders = FoldersOf(file) /\ \A i \in Ids : file[i] \in DocSet => i \in There \ Folders
    BY <2>1, FoldersAre
  <2> QED
    BY <2>2, <2>3 DEF Well
<1> QED
  BY <1>1, Invariance, PTL

\* A second file of a name arises only by a rename or a copy, by a folder created beside a
\* file or while others work, and by a write that others, a failed lookup or an ambiguous path led astray.
THEOREM DriveTwinsExplained == Spec => TwinsExplained
<1>1. ASSUME IInv, [Next]_vars
      PROVE  \A i, j \in Ids :
                Twins(file', i, j) /\ ~Twins(file, i, j) => \E c \in Clients : Explains(c, i, j)
  BY <1>1, StepTwins
<1>2. IInv /\ [Next]_vars =>
         [\A i, j \in Ids :
             Twins(file', i, j) /\ ~Twins(file, i, j) =>
                 \E c \in Clients :
                     LET e == call[c] IN
                     \/ At(c, "move") \/ At(c, "copy")
                     \/ At(c, "make") /\ (~e.quiet \/ {i, j} \cap (There \ Folders) # {})
                     \/ At(c, "save") /\ (~e.quiet \/ ~e.sure \/ ~Unambiguous(e.was))]_vars
  BY <1>1 DEF Explains
<1> QED
  BY <1>2, Invariance, PTL DEF TwinsExplained, Spec

=============================================================================
